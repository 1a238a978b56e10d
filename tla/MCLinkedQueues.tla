--------------------------- MODULE MCLinkedQueues ---------------------------
(* An instance of LinkedQueues for TLC. *)
EXTENDS LinkedQueues
=============================================================================
