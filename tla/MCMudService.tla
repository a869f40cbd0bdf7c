--------------------------- MODULE MCMudService ---------------------------
(* Instances of MudService for TLC. *)
EXTENDS MudService, TLC

CONSTANTS u1, h1, c1, t1, t2

Symmetry == Permutations(Tasks)
===========================================================================
