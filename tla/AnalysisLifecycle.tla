------------------------- MODULE AnalysisLifecycle --------------------------
(***************************************************************************)
(* What the workflow engine promises of an analysis, without steps,        *)
(* threads, monitor or polling: it is opened, it is settled once with a    *)
(* verdict, and only that verdict is ever told to the pages.  An analysis  *)
(* may stay open for ever: the process may be killed.                      *)
(***************************************************************************)
CONSTANT Analysis

VARIABLES
    ledger,  \* analysis -> its status in the database
    told     \* analysis -> the statuses announced for it

Verdict == {"completed", "failed"}

Init ==
    /\ ledger = [a \in Analysis |-> "none"]
    /\ told = [a \in Analysis |-> {}]

Open(a) ==
    /\ ledger[a] = "none"
    /\ ledger' = [ledger EXCEPT ![a] = "running"]
    /\ UNCHANGED told

Settle(a, verdict) ==
    /\ ledger[a] = "running"
    /\ ledger' = [ledger EXCEPT ![a] = verdict]
    /\ UNCHANGED told

Announce(a) ==
    /\ ledger[a] \in Verdict
    /\ told' = [told EXCEPT ![a] = @ \cup {ledger[a]}]
    /\ UNCHANGED ledger

Next == \E a \in Analysis :
    Open(a) \/ (\E verdict \in Verdict : Settle(a, verdict)) \/ Announce(a)

Spec == Init /\ [][Next]_<<ledger, told>>
=============================================================================
