--------------------------- MODULE WorkflowEngine ---------------------------
(***************************************************************************)
(* The workflow orchestrator: WorkflowManager._execute running on the      *)
(* worker threads of TaskScheduler, with everything it drives --           *)
(* PluginManager.instantiate, Plugin.execute, ResultAggregator.persist,    *)
(* WorkflowErrorHandler, the Analysis row in SQLite and the JobMonitor.    *)
(*                                                                         *)
(* A job is one call of run_workflow_async (its uuid).  A job creates one  *)
(* Analysis row, so the rows of the analyses and findings tables are keyed *)
(* by the job that wrote them.  Every database transaction and every       *)
(* locked section of the monitor is one step; between two of them any      *)
(* other thread may run.                                                   *)
(***************************************************************************)
EXTENDS Naturals, Sequences, FiniteSets

CONSTANTS
    Job,               \* job ids
    Workflow,          \* the keys of WORKFLOW_REGISTRY
    WORKFLOW_REGISTRY, \* workflow -> its sequence of step definitions
    PluginId,          \* plugins discovered on disk
    StepName,          \* names of steps
    FindingKey,        \* the (title, file_path, line_number) of a finding
    Severity,
    PluginOutput,      \* what a plugin's run() may return
    PluginBehaviour,   \* ways a plugin of this installation may behave
    MaxWorkers,        \* size of the ThreadPoolExecutor
    DbFaults,          \* bound: how many transactions may fail
    MaxCrashes,        \* bound: how often the process is killed
    None               \* absent: no row, no monitor entry, no output

PluginRunStatus == {"success", "partial", "failed", "cancelled", "skipped"}
Finding == [key : FindingKey, severity : Severity]
StepDefinition == [name : StepName, plugin_id : PluginId, required : BOOLEAN]

ASSUME RegistryAssumption ==
    /\ WORKFLOW_REGISTRY \in [Workflow -> Seq(StepDefinition)]
    /\ \A w \in Workflow : \A i, k \in DOMAIN WORKFLOW_REGISTRY[w] :
           WORKFLOW_REGISTRY[w][i].name = WORKFLOW_REGISTRY[w][k].name => i = k

ASSUME PluginAssumption ==
    /\ PluginOutput \subseteq [status : PluginRunStatus, findings : Seq(Finding)]
    /\ PluginBehaviour \subseteq {"returns", "raises", "malformed", "unloadable"}

ASSUME BoundAssumption ==
    MaxWorkers \in Nat \ {0} /\ DbFaults \in Nat /\ MaxCrashes \in Nat

VARIABLES
    queue,        \* ThreadPoolExecutor's FIFO of submitted, not started jobs
    pc,           \* where the thread running _execute is
    workflow,     \* the job's workflow_name
    at,           \* position of the for loop over definition.steps
    step_outputs, \* context.step_outputs
    failure,      \* why the current step failed, until it is recorded
    aborted,      \* the local flag of _execute
    score,        \* the local risk_score, as the rows it was computed from
    monitor,      \* JobMonitor._jobs
    analyses,     \* table analyses
    findings,     \* table findings
    enabled,      \* plugins whose row has enabled = True
    faults,       \* failed transactions still allowed
    crashes       \* kills still allowed

worker == <<pc, workflow, at, step_outputs, failure, aborted, score>>
database == <<analyses, findings, enabled>>
budget == <<faults, crashes>>
engineVars == <<queue, worker, monitor, database, budget>>

Phase == {"idle", "queued", "create", "register", "load", "run", "persist",
          "note_failure", "note_skip", "advance", "score", "finalize", "finish",
          "returned", "raised", "lost"}
InPool == {"create", "register", "load", "run", "persist", "note_failure",
           "note_skip", "advance", "score", "finalize", "finish"}
Reason == {"disabled", "unloadable", "crashed", "reported"}
Verdict == {"completed", "failed"}

\* A line of analyses.error_message: its prefix, the step whose branch wrote it, and why.
Note == [kind : {"FAILED"}, step : StepName, why : Reason]
          \cup [kind : {"SKIPPED"}, step : StepName, why : {"skipped"}]
\* nth: which element of its step's output.findings the row was made from
FindingRow == [key : FindingKey, severity : Severity, step : StepName, nth : Nat]
AnalysisRow == [status : {"running"} \cup Verdict, notes : Seq(Note),
                risk : (SUBSET FindingRow) \cup {None}]
JobProgress == [completed_steps : Nat, status : {"running"} \cup Verdict]

ASSUME NoneAssumption ==
    None \notin Workflow /\ None \notin PluginOutput /\ None \notin Reason
      /\ None \notin AnalysisRow /\ None \notin JobProgress

Steps(j) == WORKFLOW_REGISTRY[workflow[j]]
Step(j) == Steps(j)[at[j]]
Output(j) == step_outputs[j][Step(j).name]

-----------------------------------------------------------------------------
EngineInit ==
    /\ queue = <<>>
    /\ pc = [j \in Job |-> "idle"]
    /\ workflow = [j \in Job |-> None]
    /\ at = [j \in Job |-> 1]
    /\ step_outputs = [j \in Job |-> [s \in StepName |-> None]]
    /\ failure = [j \in Job |-> None]
    /\ aborted = [j \in Job |-> FALSE]
    /\ score = [j \in Job |-> None]
    /\ monitor = [j \in Job |-> None]
    /\ analyses = [j \in Job |-> None]
    /\ findings = [j \in Job |-> {}]
    /\ enabled = PluginId
    /\ faults = DbFaults
    /\ crashes = MaxCrashes

GoTo(j, phase) == pc' = [pc EXCEPT ![j] = phase]

\* run_workflow_async and TaskScheduler.submit.  An unknown name raises before
\* anything is submitted and changes nothing.
Submit(j, w) ==
    /\ pc[j] = "idle"
    /\ GoTo(j, "queued")
    /\ workflow' = [workflow EXCEPT ![j] = w]
    /\ queue' = Append(queue, j)
    /\ UNCHANGED <<at, step_outputs, failure, aborted, score, monitor, database, budget>>

\* A free thread of the pool takes the oldest job.
PickUp(j) ==
    /\ queue # <<>>
    /\ Head(queue) = j
    /\ Cardinality({k \in Job : pc[k] \in InPool}) < MaxWorkers
    /\ queue' = Tail(queue)
    /\ GoTo(j, "create")
    /\ UNCHANGED <<workflow, at, step_outputs, failure, aborted, score, monitor,
                   database, budget>>

CreateAnalysisRow(j) ==
    /\ pc[j] = "create"
    /\ analyses' = [analyses EXCEPT
                      ![j] = [status |-> "running", notes |-> <<>>, risk |-> None]]
    /\ GoTo(j, "register")
    /\ UNCHANGED <<queue, workflow, at, step_outputs, failure, aborted, score, monitor,
                   findings, enabled, budget>>

NextStep(j, i) == IF i <= Len(Steps(j)) THEN "load" ELSE "score"

\* register, then mark_running: a poll between the two sees "pending", which the
\* poller treats exactly as "running".
Register(j) ==
    /\ pc[j] = "register"
    /\ monitor' = [monitor EXCEPT ![j] = [completed_steps |-> 0, status |-> "running"]]
    /\ GoTo(j, NextStep(j, 1))
    /\ UNCHANGED <<queue, workflow, at, step_outputs, failure, aborted, score,
                   database, budget>>

\* PluginManager.instantiate: refuses a disabled plugin, reports one that
\* cannot be imported, constructed or initialized.
Unavailable(j) ==
    CASE Step(j).plugin_id \notin enabled -> {"disabled"}
      [] OTHER -> PluginBehaviour \cap {"unloadable"}

Instantiate(j) ==
    /\ pc[j] = "load"
    /\ Step(j).plugin_id \in enabled
    /\ GoTo(j, "run")
    /\ UNCHANGED <<queue, workflow, at, step_outputs, failure, aborted, score, monitor,
                   database, budget>>

InstantiateFails(j) ==
    /\ pc[j] = "load"
    /\ \E why \in Unavailable(j) : failure' = [failure EXCEPT ![j] = why]
    /\ GoTo(j, "note_failure")
    /\ UNCHANGED <<queue, workflow, at, step_outputs, aborted, score, monitor,
                   database, budget>>

\* Plugin.execute returns: context.step_outputs[step.name] = output.
Execute(j) ==
    /\ pc[j] = "run"
    /\ "returns" \in PluginBehaviour
    /\ \E output \in PluginOutput :
           step_outputs' = [step_outputs EXCEPT ![j][Step(j).name] = output]
    /\ GoTo(j, "persist")
    /\ UNCHANGED <<queue, workflow, at, failure, aborted, score, monitor, database, budget>>

\* run() raises: execute() converts it to PluginExecutionError, which the loop handles.
ExecuteRaises(j) ==
    /\ pc[j] = "run"
    /\ "raises" \in PluginBehaviour
    /\ failure' = [failure EXCEPT ![j] = "crashed"]
    /\ GoTo(j, "note_failure")
    /\ UNCHANGED <<queue, workflow, at, step_outputs, aborted, score, monitor,
                   database, budget>>

\* A plugin whose code is wrong in a way no handler expects.  Importing it raises
\* neither ImportError nor AttributeError (a SyntaxError), or run() returns
\* something that is not a PluginOutput (a forgotten return) and
\* "output.duration = ..." stands outside execute()'s try: the exception escapes
\* instantiate() or execute(), the loop and _execute.
ExecuteMalformed(j) ==
    /\ pc[j] = "run" \/ (pc[j] = "load" /\ Step(j).plugin_id \in enabled)
    /\ "malformed" \in PluginBehaviour
    /\ GoTo(j, "raised")
    /\ UNCHANGED <<queue, workflow, at, step_outputs, failure, aborted, score, monitor,
                   database, budget>>

-----------------------------------------------------------------------------
KeysOf(rows) == {row.key : row \in rows}

\* Mutant: persist forgets to add the keys it has just stored.
NewRowsStaleKeys(rows, output, name) ==
    LET fs == output.findings
    IN  {[key |-> fs[i].key, severity |-> fs[i].severity, step |-> name, nth |-> i] :
           i \in {i \in DOMAIN fs : fs[i].key \notin KeysOf(rows)}}

\* ResultAggregator.persist: a finding becomes a row unless its key is already
\* there, from an earlier step or from earlier in the same output.
NewRows(rows, output, name) ==
    LET fs == output.findings
        kept == {i \in DOMAIN fs :
                   /\ fs[i].key \notin KeysOf(rows)
                   /\ \A k \in DOMAIN fs : k < i => fs[k].key # fs[i].key}
    IN  {[key |-> fs[i].key, severity |-> fs[i].severity, step |-> name, nth |-> i] :
           i \in kept}

\* Mutant: a skipped step leaves no trace.
AfterPersistSilentSkip(status) == IF status = "failed" THEN "note_failure" ELSE "advance"

AfterPersist(status) ==
    CASE status = "failed"  -> "note_failure"
      [] status = "skipped" -> "note_skip"
      [] OTHER              -> "advance"

Persist(j) ==
    /\ pc[j] = "persist"
    /\ findings' = [findings EXCEPT
                      ![j] = @ \cup NewRows(@, Output(j), Step(j).name)]
    /\ failure' = [failure EXCEPT
                     ![j] = IF Output(j).status = "failed" THEN "reported" ELSE @]
    /\ GoTo(j, AfterPersist(Output(j).status))
    /\ UNCHANGED <<queue, workflow, at, step_outputs, aborted, score, monitor,
                   analyses, enabled, budget>>

AddNote(j, note) ==
    analyses' = [analyses EXCEPT ![j].notes = Append(@, note)]

\* Mutant: leaves the loop but forgets aborted = True.
RecordStepFailureNotAborting(j) ==
    /\ pc[j] = "note_failure"
    /\ AddNote(j, [kind |-> "FAILED", step |-> Step(j).name, why |-> failure[j]])
    /\ failure' = [failure EXCEPT ![j] = None]
    /\ GoTo(j, IF Step(j).required THEN "score" ELSE "advance")
    /\ UNCHANGED <<queue, workflow, at, step_outputs, aborted, score, monitor, findings,
                   enabled, budget>>

\* handle_exception / handle_output_failure, then _record_step_failure.  A
\* failed required step leaves the loop.
RecordStepFailure(j) ==
    /\ pc[j] = "note_failure"
    /\ AddNote(j, [kind |-> "FAILED", step |-> Step(j).name, why |-> failure[j]])
    /\ failure' = [failure EXCEPT ![j] = None]
    /\ aborted' = [aborted EXCEPT ![j] = Step(j).required]
    /\ GoTo(j, IF Step(j).required THEN "score" ELSE "advance")
    /\ UNCHANGED <<queue, workflow, at, step_outputs, score, monitor, findings, enabled,
                   budget>>

RecordStepSkip(j) ==
    /\ pc[j] = "note_skip"
    /\ AddNote(j, [kind |-> "SKIPPED", step |-> Step(j).name, why |-> "skipped"])
    /\ GoTo(j, "advance")
    /\ UNCHANGED <<queue, workflow, at, step_outputs, failure, aborted, score, monitor,
                   findings, enabled, budget>>

\* JobMonitor.advance_step and the end of the loop body.
AdvanceStep(j) ==
    /\ pc[j] = "advance"
    /\ monitor' = [monitor EXCEPT ![j].completed_steps = @ + 1]
    /\ at' = [at EXCEPT ![j] = @ + 1]
    /\ GoTo(j, NextStep(j, at[j] + 1))
    /\ UNCHANGED <<queue, workflow, step_outputs, failure, aborted, score, database, budget>>

\* Mutant: the score of an aborted workflow is not computed.
ComputeRiskScoreUnlessAborted(j) ==
    /\ pc[j] = "score"
    /\ score' = [score EXCEPT ![j] = IF aborted[j] THEN {} ELSE findings[j]]
    /\ GoTo(j, "finalize")
    /\ UNCHANGED <<queue, workflow, at, step_outputs, failure, aborted, monitor,
                   database, budget>>

\* Mutant: finish() is called before _finalize_analysis.
ComputeRiskScoreAndFinish(j) ==
    /\ pc[j] = "score"
    /\ score' = [score EXCEPT ![j] = findings[j]]
    /\ monitor' = [monitor EXCEPT ![j].status = IF aborted[j] THEN "failed" ELSE "completed"]
    /\ GoTo(j, "finalize")
    /\ UNCHANGED <<queue, workflow, at, step_outputs, failure, aborted, database, budget>>

ComputeRiskScore(j) ==
    /\ pc[j] = "score"
    /\ score' = [score EXCEPT ![j] = findings[j]]
    /\ GoTo(j, "finalize")
    /\ UNCHANGED <<queue, workflow, at, step_outputs, failure, aborted, monitor,
                   database, budget>>

FinalStatus(j) == IF aborted[j] THEN "failed" ELSE "completed"

FinalizeAnalysis(j) ==
    /\ pc[j] = "finalize"
    /\ analyses' = [analyses EXCEPT ![j].status = FinalStatus(j), ![j].risk = score[j]]
    /\ GoTo(j, "finish")
    /\ UNCHANGED <<queue, workflow, at, step_outputs, failure, aborted, score, monitor,
                   findings, enabled, budget>>

Finish(j) ==
    /\ pc[j] = "finish"
    /\ monitor' = [monitor EXCEPT ![j].status = FinalStatus(j)]
    /\ GoTo(j, "returned")
    /\ UNCHANGED <<queue, workflow, at, step_outputs, failure, aborted, score,
                   database, budget>>

-----------------------------------------------------------------------------
\* Where _execute holds a session_scope: is_enabled while loading, and no
\* transaction at all for an output without findings.
InTransaction(j) ==
    \/ pc[j] \in {"create", "load", "note_failure", "note_skip", "score", "finalize"}
    \/ pc[j] = "persist" /\ Output(j).findings # <<>>

\* A transaction fails ("database is locked"): session_scope rolls back and
\* raises DatabaseError, which nothing in _execute catches.  The future keeps
\* the exception, TaskScheduler logs it, and the row and the monitor entry stay.
DatabaseError(j) ==
    /\ InTransaction(j)
    /\ faults > 0
    /\ faults' = faults - 1
    /\ GoTo(j, "raised")
    /\ UNCHANGED <<queue, workflow, at, step_outputs, failure, aborted, score, monitor,
                   database, crashes>>

\* The Plugin Center's toggle: PluginManager.set_enabled.
SetEnabled(p) ==
    /\ enabled' = IF p \in enabled THEN enabled \ {p} ELSE enabled \cup {p}
    /\ UNCHANGED <<queue, worker, monitor, analyses, findings, budget>>

\* Mutant: a startup sweep fails the analysis of every thread that was running.
KillThenSweep ==
    /\ crashes > 0
    /\ crashes' = crashes - 1
    /\ queue' = <<>>
    /\ pc' = [j \in Job |-> IF pc[j] = "idle" THEN "idle" ELSE "lost"]
    /\ monitor' = [j \in Job |-> None]
    /\ analyses' = [j \in Job |-> IF pc[j] \in InPool /\ analyses[j] # None
                                 THEN [analyses[j] EXCEPT !.status = "failed"]
                                 ELSE analyses[j]]
    /\ UNCHANGED <<workflow, at, step_outputs, failure, aborted, score, findings, enabled,
                   faults>>

\* The process is killed and started again: threads, queue and monitor are gone,
\* the database stays.  Nothing at startup looks for unfinished analyses.
Kill ==
    /\ crashes > 0
    /\ crashes' = crashes - 1
    /\ queue' = <<>>
    /\ pc' = [j \in Job |-> IF pc[j] = "idle" THEN "idle" ELSE "lost"]
    /\ monitor' = [j \in Job |-> None]
    /\ UNCHANGED <<workflow, at, step_outputs, failure, aborted, score, database, faults>>

\* One step of the thread that runs the job.
WorkerStep(j) ==
    \/ PickUp(j) \/ CreateAnalysisRow(j) \/ Register(j)
    \/ Instantiate(j) \/ InstantiateFails(j)
    \/ Execute(j) \/ ExecuteRaises(j) \/ ExecuteMalformed(j)
    \/ Persist(j) \/ RecordStepFailure(j) \/ RecordStepSkip(j) \/ AdvanceStep(j)
    \/ ComputeRiskScore(j) \/ FinalizeAnalysis(j) \/ Finish(j)
    \/ DatabaseError(j)

EngineNext ==
    \/ \E j \in Job : (\E w \in Workflow : Submit(j, w)) \/ WorkerStep(j)
    \/ \E p \in PluginId : SetEnabled(p)
    \/ Kill

EngineSpec == EngineInit /\ [][EngineNext]_engineVars

-----------------------------------------------------------------------------
EngineTypeOK ==
    /\ queue \in Seq(Job)
    /\ pc \in [Job -> Phase]
    /\ workflow \in [Job -> Workflow \cup {None}]
    /\ at \in [Job -> Nat \ {0}]
    /\ step_outputs \in [Job -> [StepName -> PluginOutput \cup {None}]]
    /\ failure \in [Job -> Reason \cup {None}]
    /\ aborted \in [Job -> BOOLEAN]
    /\ score \in [Job -> (SUBSET FindingRow) \cup {None}]
    /\ monitor \in [Job -> JobProgress \cup {None}]
    /\ analyses \in [Job -> AnalysisRow \cup {None}]
    /\ findings \in [Job -> SUBSET FindingRow]
    /\ enabled \subseteq PluginId
    /\ faults \in Nat /\ crashes \in Nat

HasRow(j) == analyses[j] # None
Finalized(j) == HasRow(j) /\ analyses[j].status \in Verdict
LinesOf(j, name) == {n \in DOMAIN analyses[j].notes : analyses[j].notes[n].step = name}

(***************************************************************************)
(* A row explains every step of its workflow that the loop has left        *)
(* behind, once and for its own reason: a step that returned an output has *)
(* exactly the line its status calls for, one that returned none exactly   *)
(* one line, which says why.  The step under way, or the one where an      *)
(* escaped exception or a kill left the row RUNNING, has this line or none *)
(* yet; a step the loop never reached has neither output nor line.  That a *)
(* plugin which is unloadable or crashed makes a FAILED line is part of    *)
(* it; of a disabled one the line only has to say so, because the code     *)
(* writes FAILED where plugins_page.py:10-12 speaks of a skipped step.     *)
(* About the note writing spread over the branches of _execute's loop.     *)
(***************************************************************************)
Quiet(output) == output # None /\ output.status \notin {"failed", "skipped"}

Explains(line, output) ==
    IF output = None
    THEN \/ line.why = "disabled"
         \/ line.kind = "FAILED" /\ line.why \in {"unloadable", "crashed"}
    ELSE \/ output.status = "failed" /\ line.kind = "FAILED" /\ line.why = "reported"
         \/ output.status = "skipped" /\ line.kind = "SKIPPED"

StepNameOf(j, i) == Steps(j)[i].name

\* The lines of the i-th step are those its outcome calls for.
Explained(j, i) ==
    LET output == step_outputs[j][StepNameOf(j, i)]
        lines == LinesOf(j, StepNameOf(j, i))
    IN  IF Quiet(output)
        THEN lines = {}
        ELSE \E n \in DOMAIN analyses[j].notes :
                lines = {n} /\ Explains(analyses[j].notes[n], output)

StepsAccountedFor ==
    \A j \in Job : HasRow(j) =>
        \A i \in DOMAIN Steps(j) :
            LET name == StepNameOf(j, i)
            IN  /\ i > at[j] => LinesOf(j, name) = {} /\ step_outputs[j][name] = None
                /\ i = at[j] => LinesOf(j, name) = {} \/ Explained(j, i)
                /\ i < at[j] \/ (i = at[j] /\ Finalized(j)) => Explained(j, i)

(***************************************************************************)
(* The verdict is the one the steps deserve.  "completed": the loop ran to *)
(* its end and no required step failed.  "failed": the step where the loop *)
(* stopped is required and has a FAILED line, no earlier required step     *)
(* has, and the progress the GUI reads stays below 100 percent.            *)
(***************************************************************************)
FailedRequired(j, i) ==
    Steps(j)[i].required
      /\ \E n \in LinesOf(j, Steps(j)[i].name) : analyses[j].notes[n].kind = "FAILED"

VerdictMatchesSteps ==
    \A j \in Job : Finalized(j) =>
        /\ \A i \in DOMAIN Steps(j) :
              FailedRequired(j, i) <=> analyses[j].status = "failed" /\ i = at[j]
        /\ analyses[j].status = "completed" <=> at[j] = Len(Steps(j)) + 1
        /\ monitor[j] # None =>
              (monitor[j].completed_steps = Len(Steps(j))
                 <=> analyses[j].status = "completed")

(***************************************************************************)
(* The stored risk score was computed from exactly the findings the        *)
(* analysis has: none is added after scoring, none is left out when the    *)
(* workflow aborts.  About persist / compute_risk_score / _finalize.       *)
(***************************************************************************)
ScoreCoversFindings ==
    \A j \in Job : Finalized(j) => analyses[j].risk = findings[j]

(***************************************************************************)
(* Deduplication loses no location and stores none twice: every key of     *)
(* every output that was persisted has exactly one row, and every row is   *)
(* an element of the output of the step it names.  About persist being     *)
(* called step after step on the same analysis.                            *)
(***************************************************************************)
PersistPending(j, name) == pc[j] = "persist" /\ Step(j).name = name

FindingsFaithful ==
    \A j \in Job :
        /\ \A r, q \in findings[j] : r.key = q.key => r = q
        /\ \A r \in findings[j] :
              LET output == step_outputs[j][r.step] IN
              /\ output # None
              /\ r.nth \in DOMAIN output.findings
              /\ output.findings[r.nth] = [key |-> r.key, severity |-> r.severity]
        /\ pc[j] \notin {"raised", "lost"} =>
              \A name \in StepName :
                 step_outputs[j][name] # None /\ ~PersistPending(j, name) =>
                    \A i \in DOMAIN step_outputs[j][name].findings :
                       step_outputs[j][name].findings[i].key \in KeysOf(findings[j])

(***************************************************************************)
(* Whoever sees a finished job in the JobMonitor finds a finished row of   *)
(* the same status in the database: _finalize_analysis commits before      *)
(* finish() is called.                                                     *)
(***************************************************************************)
MonitorNeverAhead ==
    \A j \in Job :
        monitor[j] # None /\ monitor[j].status \in Verdict =>
            Finalized(j) /\ analyses[j].status = monitor[j].status

(***************************************************************************)
(* A finished analysis is immutable: whatever runs next -- other jobs, a   *)
(* plugin toggle, a kill and restart -- changes neither its row nor its    *)
(* findings.                                                               *)
(***************************************************************************)
FinalRowFrozen ==
    [][\A j \in Job : Finalized(j) =>
           analyses'[j] = analyses[j] /\ findings'[j] = findings[j]]_engineVars
=============================================================================
