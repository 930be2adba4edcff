------------------------------- MODULE RiskScore -------------------------------
(***************************************************************************)
(* The number the product leads with: ResultAggregator.compute_risk_score  *)
(* over the rows of one analysis, and the label every page derives from    *)
(* it.  The halves the code adds up are exact in a double, so the score is *)
(* computed here as an exact fraction and rounded to tenths as round(x, 1) *)
(* does, ties to the even tenth.                                           *)
(***************************************************************************)
EXTENDS WorkflowEngine, SequencesExt

Weight == [critical |-> 10, high |-> 7, medium |-> 4, low |-> 1, info |-> 0]
WorstFirst == <<"critical", "high", "medium", "low", "info">>
ScoreCap == 100

\* How many rows there are of each severity.
Counts(rows) == [s \in DOMAIN Weight |-> Cardinality({r \in rows : r.severity = s})]
More(counts, s) == [counts EXCEPT ![s] = @ + 1]

\* sorted((weights[severity] ...), reverse=True)
Weighted(counts) ==
    FoldLeft(LAMBDA sorted, s : sorted \o [i \in 1..counts[s] |-> Weight[s]],
             <<>>, WorstFirst)

\* num / den, to the nearest integer, a tie to the even one
RoundedTo(num, den) ==
    LET down == num \div den
        twice == 2 * (num % den)
    IN  IF twice > den \/ (twice = den /\ down % 2 = 1) THEN down + 1 ELSE down

\* Mutant: the mean the score used to be.
MeanScore(counts) ==
    LET w == Weighted(counts)
    IN  IF w = <<>> THEN 0 ELSE RoundedTo(10 * FoldLeft(+, 0, w), Len(w))

\* In tenths.  The i-th worst finding counts for weight / 2^(i-1): one fold
\* doubles what it has and adds the next weight, and 2^(n-1) divides at the end.
Score(counts) ==
    LET w == Weighted(counts)
        halved == FoldLeft(LAMBDA sum, x : 2 * sum + x, 0, w)
        tenths == RoundedTo(10 * halved, 2 ^ (Len(w) - 1))
    IN  IF w = <<>> THEN 0 ELSE IF tenths > ScoreCap THEN ScoreCap ELSE tenths

\* The dashboard's gauge: 2 is "High Risk", 1 "Medium Risk", 0 "Low Risk" or no data.
RiskLevel(tenths) ==
    IF tenths >= 70 THEN 2 ELSE IF tenths >= 40 THEN 1 ELSE 0

-----------------------------------------------------------------------------
(***************************************************************************)
(* The score tells the truth about every set of rows an analysis finishes  *)
(* with:    it is at least the worst finding's weight and at most twice    *)
(* it, within [0, 10]; its label is never milder than the worst finding's  *)
(* own; and no further finding, nor two of any severities, lowers it.      *)
(* About the rounded and capped geometric sum, whose predecessor, a mean,  *)
(* called an app with more findings safer.                                 *)
(***************************************************************************)
\* The row has just got its verdict; FinalRowFrozen says that it keeps it.
JustFinalized(j) == pc[j] = "finish"

Worst(counts) == LET w == Weighted(counts) IN IF w = <<>> THEN 0 ELSE 10 * Head(w)

ScoreIsHonest ==
    \A j \in Job : JustFinalized(j) =>
        LET counts == Counts(analyses[j].risk)
            score10 == Score(counts)
            worst == Worst(counts)
        IN  /\ worst <= score10 /\ score10 <= ScoreCap /\ score10 <= 2 * worst
            /\ RiskLevel(score10) >= RiskLevel(worst)
            /\ \A s \in Severity :
                  LET one == Score(More(counts, s)) IN
                  /\ score10 <= one
                  /\ \A t \in Severity : one <= Score(More(More(counts, s), t))
=============================================================================
