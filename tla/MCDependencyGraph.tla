------------------------- MODULE MCDependencyGraph -------------------------
(* Three tasks for TLC. *)
EXTENDS DependencyGraph, TLC

Symmetry == Permutations(Tasks)
=============================================================================
