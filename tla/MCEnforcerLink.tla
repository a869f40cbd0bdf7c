--------------------------- MODULE MCEnforcerLink ---------------------------
(* Instances of EnforcerLink for TLC: e1 has two connections, e2 one. *)
EXTENDS EnforcerLink, TLC

CONSTANTS e1, e2, p1, p2, p3

TwoOfThree == (p1 :> e1) @@ (p2 :> e1) @@ (p3 :> e2)
=============================================================================
