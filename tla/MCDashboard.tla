----------------------------- MODULE MCDashboard -----------------------------
(***************************************************************************)
(* Two jobs on two threads under AnalysisRunner and Dashboard, for TLC.    *)
(***************************************************************************)
EXTENDS Dashboard

CONSTANTS validate, decode,   \* steps, each with the plugin of its name
          k1                  \* finding location

\* A required step, then an optional one.
MCStep(name, required) == [name |-> name, plugin_id |-> name, required |-> required]

MCRegistry == [w \in Workflow |->
    <<MCStep(validate, TRUE), MCStep(decode, FALSE)>>]

MCOutputs == {[status |-> "success", findings |-> <<[key |-> k1, severity |-> "high"]>>],
              [status |-> "failed", findings |-> <<>>]}
=============================================================================
