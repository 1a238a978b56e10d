---------------------------- MODULE MCScheduler -----------------------------
(* Instances of Scheduler for TLC.  PidModulus is small, so that pids wrap *)
(* around and are handed out again while older threads live.               *)
EXTENDS Scheduler

Symmetry == Permutations(Locks)
=============================================================================
