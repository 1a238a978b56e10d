----------------------- MODULE MCPriorityInheritance ------------------------
(* Instances of PriorityInheritance for TLC. *)
EXTENDS PriorityInheritance

Symmetry == Permutations(Locks)
=============================================================================
