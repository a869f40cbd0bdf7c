--------------------------- MODULE MCConfigSync ---------------------------
(* Instances of ConfigSync for TLC. *)
EXTENDS ConfigSync, TLC

CONSTANTS d1, d2, m1, w1, w2, e1, e2

Symmetry == Permutations(Workers) \cup Permutations(Enforcers)
===========================================================================
