---------------------------- MODULE MCCertRenewal ----------------------------
(* Instances of CertRenewal for TLC. *)
EXTENDS CertRenewal

CONSTANTS c1, c2, r1, r2
==============================================================================
