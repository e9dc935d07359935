------------------------- MODULE MCDeviceOperations -------------------------
(***************************************************************************)
(* DeviceOperations for TLC: two runs of either kind, one after the other. *)
(***************************************************************************)
EXTENDS DeviceOperations, TLC

Symmetry == Permutations(Descriptions)
=============================================================================
