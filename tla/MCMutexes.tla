----------------------------- MODULE MCMutexes ------------------------------
(* Instances of Mutexes for TLC. *)
EXTENDS Mutexes

Symmetry == Permutations(Locks)
=============================================================================
