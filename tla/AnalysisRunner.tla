--------------------------- MODULE AnalysisRunner ---------------------------
(***************************************************************************)
(* AnalysisRunner, the GUI thread's side of the workflow engine: it starts *)
(* jobs, polls the JobMonitor from a QTimer and tells the pages with the   *)
(* signal completed(job, status, risk, analysis).  The poll is not atomic: *)
(* it walks the active jobs one by one while the worker threads go on, and *)
(* for each finished job it reads the risk score from the database.        *)
(***************************************************************************)
EXTENDS WorkflowEngine

VARIABLES
    active,     \* _active_jobs
    timer,      \* whether the QTimer runs
    polling,    \* the GUI thread is inside _poll
    todo,       \* jobs this _poll has not looked at yet
    finished,   \* the local list finished_jobs
    completed,  \* job -> the completed signals emitted for it
    open        \* the window is open: the Qt event loop runs

runnerVars == <<active, timer, polling, todo, finished, completed, open>>
vars == <<engineVars, runnerVars>>

Init ==
    /\ EngineInit
    /\ active = {} /\ timer = FALSE
    /\ polling = FALSE /\ todo = {} /\ finished = {}
    /\ completed = [j \in Job |-> <<>>]
    /\ open = TRUE

\* The GUI thread returned to the event loop and may run a slot.
GuiIdle == open /\ ~polling

Start(j, w) ==
    /\ GuiIdle
    /\ Submit(j, w)
    /\ active' = active \cup {j}
    /\ timer' = TRUE
    /\ UNCHANGED <<polling, todo, finished, completed, open>>

\* timeout -> _poll: list(self._active_jobs)
PollBegin ==
    /\ GuiIdle /\ timer
    /\ polling' = TRUE
    /\ todo' = active
    /\ finished' = {}
    /\ UNCHANGED <<engineVars, active, timer, completed, open>>

\* Mutant: done at 100 percent.
JobDoneByPercent(j) == monitor[j] # None /\ monitor[j].completed_steps = Len(Steps(j))

JobDone(j) == monitor[j] # None /\ monitor[j].status \in Verdict

\* get() is None, or the job still runs: on to the next one.
PollUnfinished(j) ==
    /\ polling /\ j \in todo
    /\ ~JobDone(j)
    /\ todo' = todo \ {j}
    /\ UNCHANGED <<engineVars, active, timer, polling, finished, completed, open>>

\* _lookup_risk_score: the stored score; None, sent as 0.0, when there is none.
LookupRiskScore(j) == IF HasRow(j) THEN analyses[j].risk ELSE None

PollFinished(j) ==
    /\ polling /\ j \in todo
    /\ JobDone(j)
    /\ completed' = [completed EXCEPT
                       ![j] = Append(@, [status |-> monitor[j].status,
                                         risk |-> LookupRiskScore(j)])]
    /\ todo' = todo \ {j}
    /\ finished' = finished \cup {j}
    /\ UNCHANGED <<engineVars, active, timer, polling, open>>

\* The lookup's transaction fails: the exception leaves _poll, so the jobs this
\* tick already announced are not discarded and the next tick announces them again.
PollLookupFails(j) ==
    /\ polling /\ j \in todo
    /\ JobDone(j)
    /\ faults > 0
    /\ faults' = faults - 1
    /\ polling' = FALSE
    /\ todo' = {} /\ finished' = {}
    /\ UNCHANGED <<queue, worker, monitor, database, crashes, active, timer, completed, open>>

\* Mutant: announced jobs stay active.
PollEndKeepingJobs ==
    /\ polling /\ todo = {}
    /\ polling' = FALSE
    /\ finished' = {}
    /\ UNCHANGED <<engineVars, active, timer, todo, completed, open>>

\* Mutant: the timer stops as soon as some job has finished.
PollEndStoppingTimer ==
    /\ polling /\ todo = {}
    /\ active' = active \ finished
    /\ timer' = (finished = {})
    /\ polling' = FALSE
    /\ finished' = {}
    /\ UNCHANGED <<engineVars, todo, completed, open>>

PollEnd ==
    /\ polling /\ todo = {}
    /\ active' = active \ finished
    /\ timer' = (active' # {})
    /\ polling' = FALSE
    /\ finished' = {}
    /\ UNCHANGED <<engineVars, todo, completed, open>>

\* A page's toggle runs on the GUI thread too.
Toggle(p) == GuiIdle /\ SetEnabled(p) /\ UNCHANGED runnerVars

\* Mutant: leaving the application cancels what has not started.
CloseCancelling ==
    /\ GuiIdle
    /\ open' = FALSE
    /\ timer' = FALSE
    /\ queue' = <<>>
    /\ UNCHANGED <<worker, monitor, database, budget, active, polling, todo, finished, completed>>

\* The user closes the window: app.exec() returns.  The interpreter then joins
\* the pool's threads, which drain the queue; nobody polls any more.
Close ==
    /\ GuiIdle
    /\ open' = FALSE
    /\ timer' = FALSE
    /\ UNCHANGED <<engineVars, active, polling, todo, finished, completed>>

KillAndRestart ==
    /\ Kill
    /\ active' = {} /\ timer' = FALSE
    /\ polling' = FALSE /\ todo' = {} /\ finished' = {}
    /\ open' = TRUE
    /\ UNCHANGED completed

Work(j) == WorkerStep(j) /\ UNCHANGED runnerVars

PollJob(j) == PollUnfinished(j) \/ PollFinished(j) \/ PollLookupFails(j)
Poll == PollBegin \/ (\E j \in Job : PollJob(j)) \/ PollEnd

Next ==
    \/ \E j \in Job, w \in Workflow : Start(j, w)
    \/ \E j \in Job : Work(j)
    \/ Poll
    \/ \E p \in PluginId : Toggle(p)
    \/ Close
    \/ KillAndRestart

Spec == Init /\ [][Next]_vars

(***************************************************************************)
(* Fairness.  The operating system runs every worker thread, and a plugin  *)
(* run ends because ToolManager bounds each tool by a timeout.  QTimer     *)
(* keeps firing while it is active, and _poll has no blocking call.        *)
(* Nothing obliges the user to start, toggle or close anything.            *)
(***************************************************************************)
FairSpec ==
    /\ Spec
    /\ \A j \in Job : WF_vars(Work(j))
    /\ WF_vars(Poll)

-----------------------------------------------------------------------------
\* The promise of AnalysisLifecycle, read off the database and the signals.
Ledger == [j \in Job |-> IF HasRow(j) THEN analyses[j].status ELSE "none"]
Told == [j \in Job |-> {completed[j][i].status : i \in DOMAIN completed[j]}]
Lifecycle == INSTANCE AnalysisLifecycle WITH Analysis <- Job, ledger <- Ledger, told <- Told

(***************************************************************************)
(* The engine and the runner implement the life cycle of an analysis:      *)
(* opened once, settled once, and announced only with the verdict it was   *)
(* settled with.                                                           *)
(***************************************************************************)
ImplementsLifecycle == Lifecycle!Spec

-----------------------------------------------------------------------------
RunnerTypeOK ==
    /\ active \subseteq Job /\ todo \subseteq active /\ finished \subseteq active
    /\ timer \in BOOLEAN /\ polling \in BOOLEAN /\ open \in BOOLEAN
    /\ completed \in [Job -> Seq([status : Verdict, risk : (SUBSET FindingRow) \cup {None}])]

TypeOK == EngineTypeOK /\ RunnerTypeOK

(***************************************************************************)
(* Every completed signal carries the final status and the final score of  *)
(* the analysis row, also the second one when a failed lookup makes _poll  *)
(* announce a job again: pages that trust the payload are never wrong.     *)
(***************************************************************************)
SignalsAreFinal ==
    \A j \in Job : \A i \in DOMAIN completed[j] :
        /\ Finalized(j)
        /\ completed[j][i].status = analyses[j].status
        /\ completed[j][i].risk = analyses[j].risk

(***************************************************************************)
(* As long as no transaction has failed a job is announced at most once:   *)
(* the pages generate reports on that signal.                              *)
(***************************************************************************)
CompletedOnce == faults = DbFaults => \A j \in Job : Len(completed[j]) <= 1

(***************************************************************************)
(* No job is forgotten while the window is open: as long as a submitted    *)
(* job of this process is unannounced it is in _active_jobs with the timer *)
(* running, although _poll stops the timer when it sees none left.         *)
(***************************************************************************)
UnannouncedJobIsPolled ==
    open => \A j \in Job :
        pc[j] \notin {"idle", "lost"} /\ completed[j] = <<>>
            => j \in active /\ timer

(***************************************************************************)
(* Without database errors, kills and malformed plugins, every job that is *)
(* started is eventually announced or its window closed.                   *)
(***************************************************************************)
EveryJobAnnounced ==
    \A j \in Job : pc[j] = "queued" ~> (completed[j] # <<>> \/ ~open)

(***************************************************************************)
(* Closing the window does not orphan an analysis: the row of a job that   *)
(* was submitted still gets its verdict, because leaving the interpreter   *)
(* waits for the pool.                                                     *)
(***************************************************************************)
EveryRowSettles == \A j \in Job : pc[j] = "queued" ~> Finalized(j)
=============================================================================
