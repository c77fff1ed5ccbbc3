-------------------------- MODULE MCProjectResources --------------------------
(* A small instance of ProjectResources for TLC. *)
EXTENDS ProjectResources, TLC

\* Names and values are only compared with each other.
Symmetry == Permutations(Names) \cup Permutations(Values)
=============================================================================
