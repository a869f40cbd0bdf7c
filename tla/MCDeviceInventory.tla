------------------------- MODULE MCDeviceInventory -------------------------
(* Instances of DeviceInventory for TLC. *)
EXTENDS DeviceInventory, TLC

CONSTANTS m1, m2, d1, d2, a1, b1, w1, w2

Symmetry == Permutations(Workers) \cup Permutations(Macs) \cup Permutations(Duids)
============================================================================
