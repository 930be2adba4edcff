------------------------------- MODULE Dashboard -------------------------------
(***************************************************************************)
(* DashboardPage.refresh beside the runner and the engine.  It is one slot *)
(* of the GUI thread, but not one look at the database: every query of its *)
(* session is a snapshot of its own (sqlite3 opens no transaction for a    *)
(* SELECT), the chart opens a session of its own at the end, and worker    *)
(* threads commit in between.  A row that the session has loaded keeps the *)
(* attributes of its first load; filters and counts always see the table.  *)
(* Left out: what no analysis changes (projects, devices, reports, logs),  *)
(* the widgets, and the Plugin Center's toggle.                            *)
(***************************************************************************)
EXTENDS AnalysisRunner

CONSTANT ListLimit   \* rows a list of the dashboard shows: limit(5)

ASSUME ListAssumption == ListLimit \in Nat \ {0}

VARIABLES
    created,  \* the jobs in the order of their rows' created_at
    reading,  \* the next query of the refresh under way, or None
    seen      \* what its queries have returned so far

dashboardVars == <<created, reading, seen>>
allVars == <<vars, dashboardVars>>

\* unscored: analyses the session has loaded before they had a score
\* counted:  those all_analyses_count counted
\* total:    total_findings, the number in the donut's centre
\* segments: the findings its segments add up to
\* listed:   the rows of ANALYSIS QUEUE
\* scored:   the analyses that risk_scores averages
Unread == [unscored |-> {}, counted |-> {}, total |-> 0, segments |-> 0,
           listed |-> {}, scored |-> {}]

DashboardInit == Init /\ created = <<>> /\ reading = None /\ seen = Unread

-----------------------------------------------------------------------------
\* The tables, as a query sees them.
Rows == {j \in Job : HasRow(j)}
FindingTable == UNION {{j} \X findings[j] : j \in Job}
RowsWith(statuses) == {j \in Rows : analyses[j].status \in statuses}

CreatedBefore(j, k) ==
    \E i, n \in DOMAIN created : i < n /\ created[i] = j /\ created[n] = k

\* Mutant: the list begins with the oldest row.
ListedOldest(rows) ==
    {j \in rows : Cardinality({k \in rows : CreatedBefore(k, j)}) < ListLimit}

\* order_by(created_at.desc()).limit(5)
Listed(rows) ==
    {j \in rows : Cardinality({k \in rows : CreatedBefore(j, k)}) < ListLimit}

\* Rows that no thread works on any more stay in it for good.
AnalysisQueue == Listed(RowsWith({"running"}))

Unscored(rows) == {j \in rows : analyses[j].risk = None}

\* _render_activity_chart, every analysis being of the last seven days
Activity == RowsWith(Verdict)

-----------------------------------------------------------------------------
\* A query of refresh, and the one that follows it.
Query(this, next) ==
    /\ reading = this
    /\ reading' = next
    /\ UNCHANGED <<vars, created>>

\* showEvent and "+ New Project": the first list is RECENT ANALYSES.
Refresh ==
    /\ GuiIdle
    /\ Query(None, "count")
    /\ seen' = [Unread EXCEPT !.unscored = Unscored(Listed(Rows))]

CountAnalyses ==
    Query("count", "severities") /\ seen' = [seen EXCEPT !.counted = Rows]

ReadSeverities ==
    Query("severities", "categories")
      /\ seen' = [seen EXCEPT !.total = Cardinality(FindingTable)]

ReadCategories ==
    Query("categories", "queue")
      /\ seen' = [seen EXCEPT !.segments = Cardinality(FindingTable)]

ReadQueue ==
    Query("queue", "scores")
      /\ seen' = [seen EXCEPT !.listed = AnalysisQueue,
                              !.unscored = @ \cup Unscored(AnalysisQueue)]

\* query(Analysis).all(): a loaded object is returned as it was loaded.
ReadScores ==
    Query("scores", "activity")
      /\ seen' = [seen EXCEPT !.scored = Rows \ (seen.unscored \cup Unscored(Rows))]

\* The chart is the last query; the slot returns to the event loop.
ReadActivity == Query("activity", None) /\ seen' = Unread

\* A query fails: the exception leaves the slot and the page stays as it was.
RefreshFails ==
    /\ reading # None
    /\ faults > 0
    /\ faults' = faults - 1
    /\ reading' = None /\ seen' = Unread
    /\ UNCHANGED <<queue, worker, monitor, database, crashes, runnerVars, created>>

Reads ==
    \/ CountAnalyses \/ ReadSeverities \/ ReadCategories \/ ReadQueue \/ ReadScores
    \/ ReadActivity \/ RefreshFails

\* What else the GUI thread does has to wait for the slot.
OtherSlot ==
    /\ reading = None
    /\ Poll \/ Close \/ \E j \in Job, w \in Workflow : Start(j, w)
    /\ UNCHANGED dashboardVars

WorkBeside(j) ==
    /\ Work(j)
    /\ created' = IF analyses[j] = None /\ analyses'[j] # None
                  THEN Append(created, j) ELSE created
    /\ UNCHANGED <<reading, seen>>

RestartDashboard ==
    /\ KillAndRestart
    /\ reading' = None /\ seen' = Unread
    /\ UNCHANGED created

DashboardNext ==
    \/ Refresh \/ Reads \/ OtherSlot \/ RestartDashboard
    \/ \E j \in Job : WorkBeside(j)

DashboardSpec == DashboardInit /\ [][DashboardNext]_allVars

-----------------------------------------------------------------------------
DashboardTypeOK ==
    /\ created \in Seq(Job)
    /\ reading \in {None, "count", "severities", "categories", "queue", "scores", "activity"}
    /\ seen \in [unscored : SUBSET Job, counted : SUBSET Job, total : Nat, segments : Nat,
                 listed : SUBSET Job, scored : SUBSET Job]

\* Analyses of a process that is gone, and those a thread is working on.
LeftBehind == {j \in RowsWith({"running"}) : pc[j] = "lost"}
UnderWay == {j \in RowsWith({"running"}) : pc[j] \in InPool}

(***************************************************************************)
(* What a refresh shows belongs together although each part was read at    *)
(* another moment.  When the chart is read:                                *)
(*   - every analysis the header counts is in the queue or in the chart,   *)
(*     unless the queue is full: one that finishes meanwhile is not missed *)
(*     by both, because the chart is read after the queue;                 *)
(*   - no analysis the queue shows as running is in the average risk, also *)
(*     when its score was stored between the two queries;                  *)
(*   - the donut's segments do not fall short of the total in its centre.  *)
(* When the queue is read, no row that a killed process left RUNNING takes *)
(* the place of an analysis that a thread works on: newest first matters,  *)
(* because nothing ever removes such a row.  (One whose thread died of a   *)
(* failed transaction may be newer than a running one and does take it.)   *)
(***************************************************************************)
NothingSlipsThrough ==
    \A j \in seen.counted :
        \/ j \in seen.listed \cup Activity
        \/ Cardinality(seen.listed) = ListLimit

QueueShowsTheLiving ==
    LeftBehind \cap AnalysisQueue # {} => UnderWay \subseteq AnalysisQueue

DashboardMissesNothing ==
    /\ reading = "queue" => QueueShowsTheLiving
    /\ reading = "activity" =>
          /\ NothingSlipsThrough
          /\ seen.scored \cap seen.listed = {}
          /\ seen.total <= seen.segments
================================================================================
