------------------------------ MODULE ResultViews ------------------------------
(***************************************************************************)
(* What the user is told about an analysis: the LAST RUN card of a         *)
(* workflow page, the line of the All Analyses page, and the report data   *)
(* with its SARIF rendering.  Each view is computed by code of its own     *)
(* from the rows WorkflowEngine leaves behind; none keeps a state of its   *)
(* own.  Layout, colours, the texts of findings and the formats that print *)
(* the data as it is are left out.                                         *)
(***************************************************************************)
EXTENDS RiskScore

ASSUME SeverityAssumption == Severity \subseteq DOMAIN Weight

Rank(s) == CHOOSE i \in DOMAIN WorstFirst : WorstFirst[i] = s

\* The members of a finite set in the order that a set of pairs gives.
InOrder(S, before) ==
    CHOOSE sorted \in [1..Cardinality(S) -> S] :
        \A i, k \in DOMAIN sorted : i < k => <<sorted[i], sorted[k]>> \in before

\* query(Finding).filter_by(analysis_id=...).order_by(Finding.severity): the column
\* holds the severity's name, so rows come by the alphabet and, of one severity, as
\* they were inserted: step by step and in the order of each output.
ByName == <<"critical", "high", "info", "low", "medium">>
NameRank(s) == CHOOSE i \in DOMAIN ByName : ByName[i] = s

Queried(j) ==
    LET name(r) == NameRank(r.severity)
        position(r) == CHOOSE i \in DOMAIN Steps(j) : Steps(j)[i].name = r.step
        earlier == {p \in findings[j] \X findings[j] :
                       \/ name(p[1]) < name(p[2])
                       \/ /\ name(p[1]) = name(p[2])
                          /\ \/ position(p[1]) < position(p[2])
                             \/ position(p[1]) = position(p[2]) /\ p[1].nth < p[2].nth}
    IN  InOrder(findings[j], earlier)

-----------------------------------------------------------------------------
(***************************************************************************)
(* WorkflowPage._reload_result: the card shows the newest row of the       *)
(* page's workflow, whatever its status.                                   *)
(***************************************************************************)
\* The lines of error_message with one prefix, by their place, and the step each names.
StepsNoted(j, kind) ==
    [n \in {n \in DOMAIN analyses[j].notes : analyses[j].notes[n].kind = kind} |->
        analyses[j].notes[n].step]
Named(lines) == {lines[n] : n \in DOMAIN lines}

\* Mutant: the card congratulates when nothing was skipped.
CardUnlessSkipped(j) ==
    LET skipped == StepsNoted(j, "SKIPPED")
        count == Cardinality(findings[j])
    IN  [status |-> analyses[j].status, risk |-> analyses[j].risk, findings |-> count,
         skipped |-> skipped, failed |-> StepsNoted(j, "FAILED"),
         clean |-> count = 0 /\ Named(skipped) = {}]

\* clean: "0 findings with every step completing -- that is a clean result"
Card(j) ==
    LET skipped == StepsNoted(j, "SKIPPED")
        failed == StepsNoted(j, "FAILED")
        count == Cardinality(findings[j])
    IN  [status |-> analyses[j].status, risk |-> analyses[j].risk, findings |-> count,
         skipped |-> skipped, failed |-> failed,
         clean |-> count = 0 /\ Named(skipped) = {} /\ Named(failed) = {}]

\* The steps _AnalysisRow's line names: those skipped, that of the first note, or
\* none.  A row that failed has a note: its required step wrote one.
Detail(j) ==
    LET skipped == Named(StepsNoted(j, "SKIPPED"))
        count == Cardinality(findings[j])
    IN  CASE analyses[j].status = "completed" /\ count = 0 /\ skipped # {} -> skipped
          [] analyses[j].status = "failed" -> {Head(analyses[j].notes).step}
          [] OTHER -> {}

\* The rest of the line: its badge, its score, "View n Finding(s)" and "Details".
Line(j) ==
    [status |-> analyses[j].status, risk |-> analyses[j].risk, detail |-> Detail(j),
     view |-> findings[j] # {}, details |-> analyses[j].notes # <<>>]

-----------------------------------------------------------------------------
\* Mutant: order_by(Finding.severity) is taken for the order of severity.
SortedAsQueried(rows) == rows

\* sorted(..., key=severity_order), a stable sort
Sorted(rows) ==
    LET worse == {p \in (DOMAIN rows) \X (DOMAIN rows) :
                     \/ Rank(rows[p[1]].severity) < Rank(rows[p[2]].severity)
                     \/ rows[p[1]].severity = rows[p[2]].severity /\ p[1] < p[2]}
    IN  [n \in DOMAIN rows |-> rows[InOrder(DOMAIN rows, worse)[n]]]

\* ReportEngine._load_analysis_data, which every format renders.  The counts it
\* adds are those of its rows.
LoadAnalysisData(j) ==
    [status |-> analyses[j].status, risk |-> analyses[j].risk,
     findings |-> Sorted(Queried(j))]

\* _LEVEL_MAP, as the order of SARIF's levels: 3 error, 2 warning, 1 note
Level == [critical |-> 3, high |-> 3, medium |-> 2, low |-> 1, info |-> 1]

\* The report data has no finding_key, so a rule is a category.  The findings
\* of one step stand for those of one category.
RuleId(f) == f.step
BuildRule(f) == [id |-> RuleId(f), level |-> Level[f.severity]]

RuleAt(rules, id) == CHOOSE i \in DOMAIN rules : rules[i].id = id

\* The loop adds a rule when it meets the first finding of it.
FirstOfRule(rows) ==
    {i \in DOMAIN rows : \A k \in DOMAIN rows : k < i => RuleId(rows[k]) # RuleId(rows[i])}
Rules(rows) ==
    LET ascending == {p \in FirstOfRule(rows) \X FirstOfRule(rows) : p[1] < p[2]}
    IN  [n \in 1..Cardinality(FirstOfRule(rows)) |->
            BuildRule(rows[InOrder(FirstOfRule(rows), ascending)[n]])]

Results(rows) ==
    [i \in DOMAIN rows |->
        [ruleId |-> RuleId(rows[i]), ruleIndex |-> RuleAt(Rules(rows), RuleId(rows[i])) - 1,
         level |-> Level[rows[i].severity]]]

BuildSarif(data) ==
    [rules |-> Rules(data.findings), results |-> Results(data.findings),
     executionSuccessful |-> data.status = "completed"]

-----------------------------------------------------------------------------
(***************************************************************************)
(* A finished analysis is presented as what its steps did.  The card lists *)
(* exactly the steps that were skipped and those that failed, each once,   *)
(* and calls the result clean only when every step of the workflow         *)
(* returned an output that is neither, with no finding; an analysis        *)
(* without findings of which a step was skipped names that step in All     *)
(* Analyses too, and "Details" is there exactly when some step had         *)
(* trouble.  About two parsers of error_message, the only record of the    *)
(* steps, and the branches of _execute that write it.                      *)
(***************************************************************************)
StepsWhere(j, P(_)) == {name \in {Steps(j)[i].name : i \in 1..Len(Steps(j))} :
                            P(step_outputs[j][name])}
StepsReached(j) == {Steps(j)[i].name : i \in {i \in DOMAIN Steps(j) : i <= at[j]}}
Skipped(output) == output # None /\ output.status = "skipped"
Troubled(output) == Skipped(output) \/ ~Quiet(output)

CardIsHonest ==
    \A j \in Job : JustFinalized(j) =>
        LET card == Card(j)
            skipped == StepsWhere(j, Skipped)
            quiet == StepsWhere(j, Quiet)
        IN  /\ Named(card.skipped) = skipped /\ IsInjective(card.skipped)
            /\ Named(card.failed) = StepsReached(j) \ (skipped \cup quiet)
            /\ IsInjective(card.failed)
            /\ card.clean => /\ quiet = {Steps(j)[i].name : i \in DOMAIN Steps(j)}
                             /\ \A name \in quiet : step_outputs[j][name].findings = <<>>
            /\ card.status = "completed" /\ findings[j] = {} /\ skipped # {}
                  => Line(j).detail = skipped
            /\ Line(j).details <=> \E name \in StepsReached(j) : Troubled(step_outputs[j][name])

(***************************************************************************)
(* A SARIF consumer can trust the rules: each result points at the rule of *)
(* its id, no two rules share an id, and no result is more severe than the *)
(* level its rule was given.  The rule is built from the first finding of  *)
(* its category, so this rests on _load_analysis_data's sort, which the    *)
(* exporter does not see.                                                  *)
(***************************************************************************)
SarifPointsAtRules ==
    \A j \in Job : JustFinalized(j) =>
        LET sarif == BuildSarif(LoadAnalysisData(j)) IN
        /\ IsInjective([i \in DOMAIN sarif.rules |-> sarif.rules[i].id])
        /\ \A i \in DOMAIN sarif.results :
              LET result == sarif.results[i]
                  rule == sarif.rules[result.ruleIndex + 1]
              IN  rule.id = result.ruleId /\ rule.level >= result.level
================================================================================
