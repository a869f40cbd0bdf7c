--------------------------- MODULE MCUserAccess ---------------------------
(* Instances of UserAccess for TLC. *)
EXTENDS UserAccess, TLC

CONSTANTS n1, n2, w1, w2

Symmetry == Permutations(Workers) \cup Permutations(Names)
===========================================================================
