--------------------------- MODULE MCDeviceBlocks ---------------------------
(* Instances of DeviceBlocks for TLC. *)
EXTENDS DeviceBlocks, TLC

Symmetry == Permutations(Requests) \cup Permutations(MACs)
=============================================================================
