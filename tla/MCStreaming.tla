----------------------------- MODULE MCStreaming -----------------------------
(***************************************************************************)
(* Small instances of ToolStreaming for TLC: the two pipes of a tool.      *)
(***************************************************************************)
EXTENDS ToolStreaming

CONSTANTS stdout, stderr

MCStream == {stdout, stderr}
=============================================================================
