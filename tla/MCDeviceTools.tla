--------------------------- MODULE MCDeviceTools ----------------------------
(***************************************************************************)
(* Small instances of DeviceTools for TLC.                                 *)
(***************************************************************************)
EXTENDS DeviceTools, TLC

Symmetry == Permutations(Task) \cup Permutations(Device)
=============================================================================
