------------------------ MODULE MCSemaphoreIncrease -------------------------
(* An instance of SemaphoreIncrease for TLC. *)
EXTENDS SemaphoreIncrease
=============================================================================
