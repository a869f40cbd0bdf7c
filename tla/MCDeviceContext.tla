-------------------------- MODULE MCDeviceContext --------------------------
(* An instance of DeviceContext for TLC. *)
EXTENDS DeviceContext, TLC

CONSTANTS d1, d2, k1, k2, n1, n2, w1, w2, v1, v2

Symmetry == Permutations(Workers) \cup Permutations(RoomWorkers) \cup Permutations(Devices)
              \cup Permutations(Keys)
============================================================================
