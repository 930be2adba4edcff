------------------------------ MODULE MCTools -------------------------------
(***************************************************************************)
(* Small instances of ToolInstall for TLC.                                 *)
(***************************************************************************)
EXTENDS ToolInstall, TLC

Symmetry == Permutations(Task)
=============================================================================
