------------------------------- MODULE MCPages -------------------------------
(***************************************************************************)
(* Small instances of AnalysisPages for TLC.  One-step workflows: what the *)
(* steps do to a row is WorkflowEngine's concern, here a job only has to   *)
(* end with either verdict.                                                *)
(***************************************************************************)
EXTENDS AnalysisPages, TLC

CONSTANTS scan, k1

MCRegistry == [w \in Workflow |->
    <<[name |-> scan, plugin_id |-> scan, required |-> TRUE]>>]

MCOutputs == {[status |-> "success", findings |-> <<>>],
              [status |-> "failed", findings |-> <<>>]}

\* Two pages of one workflow, like Android APK and Static Analysis, which is
\* also the workflow of the project rows.
MCSameWorkflow == [pg \in Page |-> "static"]

\* Jobs and pages are interchangeable in the safety runs.
MCSymmetry == Permutations(Job) \cup Permutations(Page)
=============================================================================
