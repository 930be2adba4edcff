----------------------------- MODULE MCDevices ------------------------------
(***************************************************************************)
(* Small instances of DeviceRegistry for TLC.                              *)
(***************************************************************************)
EXTENDS DeviceRegistry, TLC

Symmetry == Permutations(Task) \cup Permutations(Device)
=============================================================================
