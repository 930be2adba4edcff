----------------------------- MODULE MCPipelines -----------------------------
(***************************************************************************)
(* Small instances of AnalysisPipelines for TLC: the real workflows.       *)
(***************************************************************************)
EXTENDS AnalysisPipelines, TLC

JobsAlike == Permutations(Job)
=============================================================================
