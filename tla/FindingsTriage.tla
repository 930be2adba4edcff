---------------------------- MODULE FindingsTriage ----------------------------
(***************************************************************************)
(* What a researcher does with the findings of an analysis: the findings   *)
(* dialog, where each gets a triage status, and the search that leads      *)
(* there.  The dialog is modal, so nothing else changes the rows it has    *)
(* read while it is open: a session is the events of one user, and the     *)
(* sessions of up to MaxEvents events are computed as a set.               *)
(***************************************************************************)
EXTENDS ResultViews

CONSTANTS FindingStatus,   \* the statuses a card offers, "open" among them
          MaxEvents,       \* bounds a session in the findings dialog
          MAX_RESULTS_PER_KIND,
          OverFetch        \* how many matching rows a search reads, unordered

ASSUME TriageAssumption ==
    /\ "open" \in FindingStatus
    /\ MaxEvents \in Nat /\ MAX_RESULTS_PER_KIND \in Nat
    /\ OverFetch \in Nat /\ OverFetch >= MAX_RESULTS_PER_KIND

HIDDEN_BY_DEFAULT == {"false_positive", "fixed"} \cap FindingStatus

-----------------------------------------------------------------------------
(***************************************************************************)
(* A session: the rows in the table, the copy of them the dialog works on  *)
(* (_all_findings), its "Hide reviewed" box, and the cards it shows, each  *)
(* with the status in its combo box.                                       *)
(***************************************************************************)
Visible(dialog) ==
    {f \in DOMAIN dialog.copy : ~(dialog.hide /\ dialog.copy[f] \in HIDDEN_BY_DEFAULT)}

FindingCard(dialog, f) == dialog.copy[f]

RebuildList(dialog) ==
    [dialog EXCEPT !.cards = [f \in Visible(dialog) |-> FindingCard(dialog, f)]]

OpenFindings(table) ==
    RebuildList([table |-> table, copy |-> table, hide |-> TRUE, cards |-> <<>>])

OnHideToggled(dialog) == RebuildList([dialog EXCEPT !.hide = ~@])

\* Mutant: the copy is left as it was read.
OnStatusChangeStored(dialog, f, status) ==
    LET stored == [dialog EXCEPT !.table[f] = status, !.cards[f] = status]
    IN  IF stored.hide /\ status \in HIDDEN_BY_DEFAULT THEN RebuildList(stored) ELSE stored

SetFindingStatus(dialog, f, status) == [dialog EXCEPT !.table[f] = status]

OnStatusChange(dialog, f, status) ==
    LET stored == [SetFindingStatus(dialog, f, status) EXCEPT
                      !.copy[f] = status, !.cards[f] = status]
    IN  IF stored.hide /\ status \in HIDDEN_BY_DEFAULT THEN RebuildList(stored) ELSE stored

\* The combo box has changed already when the write raises.
OnStatusChangeFails(dialog, f, status) == [dialog EXCEPT !.cards[f] = status]

Decisions(dialog) ==
    {d \in (DOMAIN dialog.cards) \X FindingStatus : dialog.cards[d[1]] # d[2]}

After(dialog, writes_fail) ==
    {OnHideToggled(dialog)}
    \cup {OnStatusChange(dialog, d[1], d[2]) : d \in Decisions(dialog)}
    \cup {OnStatusChangeFails(dialog, d[1], d[2]) :
              d \in {d \in Decisions(dialog) : writes_fail}}

Sessions(rows, writes_fail) ==
    LET reached[n \in 0..MaxEvents] ==
            IF n = 0 THEN {OpenFindings([f \in rows |-> "open"])}
            ELSE reached[n - 1] \cup UNION {After(d, writes_fail) : d \in reached[n - 1]}
    IN  reached[MaxEvents]

-----------------------------------------------------------------------------
Ranked(rows) == Sorted(rows)

\* The findings search_everything may return when those of "matching" match:
\* the query has no order, so it reads any OverFetch of them.  Projects and
\* analyses, each the newest that match, are left out.
SearchEverything(matching) ==
    LET read == Min({OverFetch, Cardinality(matching)}) IN
    {SubSeq(Ranked(SetToSeq(fetched)), 1, Min({MAX_RESULTS_PER_KIND, read})) :
        fetched \in kSubset(read, matching)}

\* A click on a hit opens the dialog of its analysis.
OnHit(j, table) == OpenFindings([f \in findings[j] |-> table[f]])

-----------------------------------------------------------------------------
(***************************************************************************)
(* However the researcher decides and toggles, the dialog works on what    *)
(* the table holds and lists what a dialog opened now, with the box as it  *)
(* is, would list; as long as every write succeeds each card shows its     *)
(* stored status too.  Nothing is lost from view: with the box cleared     *)
(* there is a card for every finding.  About _all_findings, kept by hand   *)
(* next to the table, and the rebuild that is skipped for most statuses.   *)
(***************************************************************************)
TriageIsKept ==
    \A j \in Job : JustFinalized(j) =>
        /\ \A dialog \in Sessions(findings[j], TRUE) :
              /\ dialog.copy = dialog.table
              /\ DOMAIN dialog.cards = Visible(dialog)
              /\ DOMAIN OnHideToggled(dialog).cards \cup DOMAIN dialog.cards = findings[j]
        /\ \A dialog \in Sessions(findings[j], FALSE) : RebuildList(dialog) = dialog

(***************************************************************************)
(* A search leads with the worst: a matching finding that is left out is   *)
(* no worse than any that is shown, unless more rows match than the search *)
(* reads; and the dialog a hit opens lists it, unless it was reviewed.     *)
(* About ranking after an unordered, limited query.                        *)
(***************************************************************************)
SearchLeadsWithWorst ==
    \A j \in Job : JustFinalized(j) =>
        /\ \A matching \in SUBSET findings[j] : \A hits \in SearchEverything(matching) :
              /\ Len(hits) = Min({MAX_RESULTS_PER_KIND, Cardinality(matching)})
              /\ Cardinality(matching) <= OverFetch =>
                    \A f \in matching \ Range(hits), hit \in Range(hits) :
                        Rank(hit.severity) <= Rank(f.severity)
        /\ \A table \in [findings[j] -> FindingStatus] :
              DOMAIN OnHit(j, table).cards =
                  {f \in findings[j] : table[f] \notin HIDDEN_BY_DEFAULT}

(***************************************************************************)
(* A finding stays in view, in the dialog and from the search, until the   *)
(* researcher puts it away.                                                *)
(***************************************************************************)
FindingsStayInView == TriageIsKept /\ SearchLeadsWithWorst
=============================================================================
