----------------------------- MODULE MCWorkflow -----------------------------
(***************************************************************************)
(* Small instances of AnalysisRunner for TLC.                              *)
(***************************************************************************)
EXTENDS AnalysisRunner, FindingsTriage

CONSTANTS validate, decode, scan,   \* steps, each with the plugin of its name
          k1, k2, k3                \* finding locations

\* One required step, then optional ones: the shape of every entry of
\* WORKFLOW_REGISTRY.
MCStep(name, required) == [name |-> name, plugin_id |-> name, required |-> required]

MCRegistry == [w \in Workflow |->
    <<MCStep(validate, TRUE), MCStep(decode, FALSE), MCStep(scan, FALSE)>>]

MCOut(status, found) == [status |-> status, findings |-> found]
MCFinding(key, severity) == [key |-> key, severity |-> severity]

\* Every severity, two of them in one output that the alphabet puts in the wrong
\* order; up to three rows in an analysis; a duplicate inside one output, a
\* duplicate of an earlier step's finding, a failure that still carries findings,
\* and no finding at all.
MCScoredOutputs == {
    MCOut("success", <<MCFinding(k1, "info"), MCFinding(k1, "high"), MCFinding(k2, "medium")>>),
    MCOut("success", <<MCFinding(k2, "low"), MCFinding(k3, "critical")>>),
    MCOut("partial", <<MCFinding(k2, "high")>>),
    MCOut("failed",  <<MCFinding(k1, "info")>>),
    MCOut("failed",  <<>>),
    MCOut("skipped", <<>>)}
=============================================================================
