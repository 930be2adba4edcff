------------------------ MODULE WorkflowEngineProofs ------------------------
(***************************************************************************)
(* Proofs about WorkflowEngine, for every registry, every set of jobs and  *)
(* plugins and every number of workers, failed transactions and kills; and *)
(* about what is shown of a finished analysis: the card of ResultViews,    *)
(* its SARIF log, and the findings dialog and search of FindingsTriage.    *)
(***************************************************************************)
EXTENDS FindingsTriage, TLAPS, FiniteSetTheorems

\* Phases of _execute: before the row exists, inside the loop, with a monitor entry.
Fresh == {"idle", "queued", "create"}
Loop == {"load", "run", "persist", "note_failure", "note_skip", "advance"}
Monitored == Loop \cup {"score", "finalize", "finish", "returned"}
Unfinished == Loop \cup {"register", "score", "finalize"}

\* The row of the job is open exactly while _execute may still write it.
RowInv(j) ==
    /\ pc[j] = "idle" <=> workflow[j] = None
    /\ pc[j] \in Fresh => analyses[j] = None
    /\ pc[j] \in Unfinished => HasRow(j) /\ analyses[j].status = "running"
    /\ pc[j] \in {"finish", "returned"} => Finalized(j)
    /\ pc[j] = "finalize" => score[j] = findings[j]
    /\ Finalized(j) =>
         /\ pc[j] \in {"finish", "returned", "lost"}
         /\ analyses[j].status = FinalStatus(j)
         /\ analyses[j].risk = findings[j]

\* The monitor entry exists from register on and turns final last.
MonitorInv(j) ==
    /\ pc[j] \in Monitored => monitor[j] # None
    /\ monitor[j] # None =>
         /\ pc[j] \in Monitored \cup {"raised"}
         /\ monitor[j].status = IF pc[j] = "returned" THEN FinalStatus(j) ELSE "running"

\* What the loop body relies on: a current step, and its output or failure.
LoopInv(j) ==
    /\ pc[j] \in Fresh \cup {"register"} => at[j] = 1
    /\ pc[j] \in Loop => at[j] <= Len(Steps(j))
    /\ pc[j] \in {"persist", "note_skip"} => Output(j) # None
    /\ pc[j] = "note_failure" => failure[j] # None

\* Only queued jobs are in the pool's queue, each once.
QueueInv ==
    /\ \A i \in DOMAIN queue : pc[queue[i]] = "queued"
    /\ \A i, k \in DOMAIN queue : queue[i] = queue[k] => i = k

JobInv(j) == RowInv(j) /\ MonitorInv(j) /\ LoopInv(j)

EngineInv == EngineTypeOK /\ QueueInv /\ \A j \in Job : JobInv(j)

-----------------------------------------------------------------------------
(***************************************************************************)
(* Type correctness, one action at a time.  It needs the rest of EngineInv:*)
(* notes and progress are written into entries that must exist.            *)
(***************************************************************************)

\* The step a job is at is a step definition of its workflow.
LEMMA StepType ==
    ASSUME EngineTypeOK, NEW j \in Job, workflow[j] # None, at[j] <= Len(Steps(j))
    PROVE  Step(j) \in StepDefinition
<1>1. workflow[j] \in Workflow
  BY DEF EngineTypeOK
<1>2. Steps(j) \in Seq(StepDefinition)
  BY <1>1, RegistryAssumption DEF Steps
<1>3. at[j] \in 1..Len(Steps(j))
  BY <1>2 DEF EngineTypeOK
<1>. QED  BY <1>2, <1>3 DEF Step

\* persist adds rows of the right shape.
LEMMA NewRowsType ==
    ASSUME NEW rows, NEW output \in PluginOutput, NEW name \in StepName
    PROVE  NewRows(rows, output, name) \subseteq FindingRow
<1>1. output.findings \in Seq(Finding)
  BY PluginAssumption
<1>2. \A i \in DOMAIN output.findings : i \in Nat /\ output.findings[i] \in Finding
  BY <1>1
<1>. QED  BY <1>2 DEF NewRows, FindingRow, Finding

\* In the loop the job has a workflow and a current step.
LEMMA LoopStep ==
    ASSUME EngineInv, NEW j \in Job, pc[j] \in Loop
    PROVE  /\ workflow[j] \in Workflow
           /\ Step(j) \in StepDefinition
           /\ HasRow(j) /\ analyses[j] \in AnalysisRow /\ analyses[j].status = "running"
           /\ monitor[j] \in JobProgress
           /\ ~Finalized(j)
<1>1. workflow[j] # None /\ at[j] <= Len(Steps(j))
  BY DEF EngineInv, JobInv, RowInv, LoopInv, Loop
<1>2. Step(j) \in StepDefinition
  BY <1>1, StepType DEF EngineInv
<1>. QED
  BY <1>1, <1>2 DEF EngineInv, EngineTypeOK, JobInv, RowInv, MonitorInv, Unfinished, Monitored,
                    Loop, HasRow, Finalized, Verdict

\* Writing a note, a verdict or progress leaves an entry of its type.
LEMMA NoteWritten ==
    ASSUME EngineInv, NEW j \in Job, RecordStepFailure(j) \/ RecordStepSkip(j)
    PROVE  /\ analyses'[j] \in AnalysisRow /\ analyses'[j].status = "running"
           /\ analyses' \in [Job -> AnalysisRow \cup {None}]
<1>1. pc[j] \in Loop /\ failure[j] \in Reason \cup {None}
  BY DEF RecordStepFailure, RecordStepSkip, Loop, EngineInv, EngineTypeOK
<1>2. Step(j) \in StepDefinition /\ analyses[j] \in AnalysisRow
        /\ analyses[j].status = "running"
  BY <1>1, LoopStep
<1>3. PICK note \in Note : AddNote(j, note)
  <2>1. CASE RecordStepFailure(j)
    <3>1. [kind |-> "FAILED", step |-> Step(j).name, why |-> failure[j]] \in Note
      BY <1>1, <1>2, <2>1 DEF RecordStepFailure, EngineInv, JobInv, LoopInv, StepDefinition, Note
    <3>. QED  BY <2>1, <3>1 DEF RecordStepFailure
  <2>2. CASE RecordStepSkip(j)
    <3>1. [kind |-> "SKIPPED", step |-> Step(j).name, why |-> "skipped"] \in Note
      BY <1>2 DEF StepDefinition, Note
    <3>. QED  BY <2>2, <3>1 DEF RecordStepSkip
  <2>. QED  BY <2>1, <2>2
<1>4. [analyses[j] EXCEPT !.notes = Append(@, note)] \in AnalysisRow
  <2>1. analyses[j].notes \in Seq(Note)
    BY <1>2 DEF AnalysisRow
  <2>2. Append(analyses[j].notes, note) \in Seq(Note)
    BY <2>1
  <2>. QED  BY <1>2, <2>2 DEF AnalysisRow
<1>. QED  BY <1>2, <1>3, <1>4 DEF AddNote, EngineInv, EngineTypeOK, AnalysisRow

LEMMA VerdictWritten ==
    ASSUME EngineInv, NEW j \in Job, FinalizeAnalysis(j)
    PROVE  /\ analyses'[j] \in AnalysisRow
           /\ analyses'[j].status = FinalStatus(j) /\ analyses'[j].risk = score[j]
           /\ analyses' \in [Job -> AnalysisRow \cup {None}]
<1>1. analyses[j] \in AnalysisRow /\ score[j] \in (SUBSET FindingRow) \cup {None}
  BY DEF FinalizeAnalysis, EngineInv, EngineTypeOK, JobInv, RowInv, Unfinished, HasRow
<1>2. FinalStatus(j) \in Verdict
  BY DEF FinalStatus, Verdict
<1>3. [analyses[j] EXCEPT !.status = FinalStatus(j), !.risk = score[j]] \in AnalysisRow
  BY <1>1, <1>2 DEF AnalysisRow
<1>. QED
  BY <1>1, <1>3 DEF FinalizeAnalysis, EngineInv, EngineTypeOK, AnalysisRow

LEMMA ProgressWritten ==
    ASSUME EngineInv, NEW j \in Job, AdvanceStep(j) \/ Finish(j)
    PROVE  /\ monitor'[j] \in JobProgress
           /\ AdvanceStep(j) => monitor'[j].status = "running"
           /\ Finish(j) => monitor'[j].status = FinalStatus(j)
           /\ monitor' \in [Job -> JobProgress \cup {None}]
<1>1. monitor[j] \in JobProgress /\ monitor[j].status = "running"
  BY DEF AdvanceStep, Finish, EngineInv, EngineTypeOK, JobInv, MonitorInv, Monitored, Loop
<1>2. [monitor[j] EXCEPT !.completed_steps = @ + 1] \in JobProgress
  BY <1>1 DEF JobProgress
<1>3. [monitor[j] EXCEPT !.status = FinalStatus(j)] \in JobProgress
  BY <1>1 DEF JobProgress, FinalStatus, Verdict
<1>4. CASE AdvanceStep(j)
  <2>1. monitor' = [monitor EXCEPT ![j] = [monitor[j] EXCEPT !.completed_steps = @ + 1]]
          /\ pc[j] = "advance" /\ pc'[j] # "returned"
    BY <1>4 DEF AdvanceStep, GoTo, NextStep, EngineInv, EngineTypeOK
  <2>2. ~Finish(j)
    BY <2>1 DEF Finish
  <2>. QED  BY <1>1, <1>2, <2>1, <2>2 DEF EngineInv, EngineTypeOK, JobProgress
<1>5. CASE Finish(j)
  <2>1. monitor' = [monitor EXCEPT ![j] = [monitor[j] EXCEPT !.status = FinalStatus(j)]]
          /\ pc[j] = "finish"
    BY <1>5 DEF Finish
  <2>2. ~AdvanceStep(j)
    BY <2>1 DEF AdvanceStep
  <2>. QED  BY <1>1, <1>3, <2>1, <2>2 DEF EngineInv, EngineTypeOK, JobProgress
<1>. QED  BY <1>4, <1>5

LEMMA EngineTypeStep == EngineInv /\ [EngineNext]_engineVars => EngineTypeOK'
<1>. SUFFICES ASSUME EngineInv, [EngineNext]_engineVars
              PROVE  EngineTypeOK'
  OBVIOUS
<1>. USE DEF EngineTypeOK, worker, database, budget, GoTo
<1>0. EngineTypeOK
  BY DEF EngineInv
<1>1. ASSUME NEW j \in Job, NEW w \in Workflow, Submit(j, w)
      PROVE  EngineTypeOK'
  BY <1>0, <1>1 DEF Submit, Phase
<1>2. ASSUME NEW j \in Job, PickUp(j)
      PROVE  EngineTypeOK'
  BY <1>0, <1>2 DEF PickUp, Phase
<1>3. ASSUME NEW j \in Job, CreateAnalysisRow(j)
      PROVE  EngineTypeOK'
  <2>1. [status |-> "running", notes |-> <<>>, risk |-> None] \in AnalysisRow
    BY DEF AnalysisRow
  <2>. QED  BY <1>0, <1>3, <2>1 DEF CreateAnalysisRow, Phase
<1>4. ASSUME NEW j \in Job, Register(j)
      PROVE  EngineTypeOK'
  <2>1. [completed_steps |-> 0, status |-> "running"] \in JobProgress
    BY DEF JobProgress
  <2>. QED  BY <1>0, <1>4, <2>1 DEF Register, Phase, NextStep
<1>5. ASSUME NEW j \in Job, Instantiate(j)
      PROVE  EngineTypeOK'
  BY <1>0, <1>5 DEF Instantiate, Phase
<1>6. ASSUME NEW j \in Job, InstantiateFails(j)
      PROVE  EngineTypeOK'
  <2>1. pc' \in [Job -> Phase]
    BY <1>0, <1>6 DEF InstantiateFails, Phase
  <2>2. failure' \in [Job -> Reason \cup {None}]
    BY <1>0, <1>6 DEF InstantiateFails, Unavailable, Reason
  <2>. QED  BY <1>0, <1>6, <2>1, <2>2 DEF InstantiateFails
<1>7. ASSUME NEW j \in Job, Execute(j)
      PROVE  EngineTypeOK'
  <2>1. pc' \in [Job -> Phase]
    BY <1>0, <1>7 DEF Execute, Phase
  <2>2. PICK output \in PluginOutput :
            step_outputs' = [step_outputs EXCEPT ![j][Step(j).name] = output]
    BY <1>7 DEF Execute
  <2>3. step_outputs' \in [Job -> [StepName -> PluginOutput \cup {None}]]
    BY <1>0, <2>2
  <2>. QED  BY <1>0, <1>7, <2>1, <2>3 DEF Execute
<1>8. ASSUME NEW j \in Job, ExecuteRaises(j)
      PROVE  EngineTypeOK'
  <2>1. pc' \in [Job -> Phase]
    BY <1>0, <1>8 DEF ExecuteRaises, Phase
  <2>2. failure' \in [Job -> Reason \cup {None}]
    BY <1>0, <1>8 DEF ExecuteRaises, Reason
  <2>. QED  BY <1>0, <1>8, <2>1, <2>2 DEF ExecuteRaises
<1>9. ASSUME NEW j \in Job, ExecuteMalformed(j)
      PROVE  EngineTypeOK'
  BY <1>0, <1>9 DEF ExecuteMalformed, Phase
<1>10. ASSUME NEW j \in Job, Persist(j)
       PROVE  EngineTypeOK'
  <2>1. pc[j] \in Loop /\ Output(j) # None
    BY <1>10 DEF Persist, EngineInv, JobInv, LoopInv, Loop
  <2>2. Step(j).name \in StepName
    BY <2>1, LoopStep DEF StepDefinition
  <2>3. Output(j) \in PluginOutput
    BY <1>0, <2>1, <2>2 DEF Output
  <2>4. NewRows(findings[j], Output(j), Step(j).name) \subseteq FindingRow
    BY <2>2, <2>3, NewRowsType
  <2>5. findings' \in [Job -> SUBSET FindingRow]
    BY <1>0, <1>10, <2>4 DEF Persist
  <2>. QED  BY <1>0, <1>10, <2>5 DEF Persist, Phase, AfterPersist, Reason
<1>11. ASSUME NEW j \in Job, RecordStepFailure(j)
       PROVE  EngineTypeOK'
  <2>1. pc[j] \in Loop
    BY <1>11 DEF RecordStepFailure, Loop
  <2>2. Step(j).required \in BOOLEAN
    BY <2>1, LoopStep DEF StepDefinition
  <2>3. analyses' \in [Job -> AnalysisRow \cup {None}]
    BY <1>11, NoteWritten
  <2>. QED  BY <1>0, <1>11, <2>2, <2>3 DEF RecordStepFailure, Phase
<1>12. ASSUME NEW j \in Job, RecordStepSkip(j)
       PROVE  EngineTypeOK'
  <2>1. analyses' \in [Job -> AnalysisRow \cup {None}]
    BY <1>12, NoteWritten
  <2>. QED  BY <1>0, <1>12, <2>1 DEF RecordStepSkip, Phase
<1>13. ASSUME NEW j \in Job, AdvanceStep(j)
       PROVE  EngineTypeOK'
  <2>1. monitor' \in [Job -> JobProgress \cup {None}]
    BY <1>13, ProgressWritten
  <2>2. pc' \in [Job -> Phase]
    BY <1>0, <1>13 DEF AdvanceStep, NextStep, Phase
  <2>. QED  BY <1>0, <1>13, <2>1, <2>2 DEF AdvanceStep
<1>14. ASSUME NEW j \in Job, ComputeRiskScore(j)
       PROVE  EngineTypeOK'
  BY <1>0, <1>14 DEF ComputeRiskScore, Phase
<1>15. ASSUME NEW j \in Job, FinalizeAnalysis(j)
       PROVE  EngineTypeOK'
  <2>1. analyses' \in [Job -> AnalysisRow \cup {None}]
    BY <1>15, VerdictWritten
  <2>. QED  BY <1>0, <1>15, <2>1 DEF FinalizeAnalysis, Phase
<1>16. ASSUME NEW j \in Job, Finish(j)
       PROVE  EngineTypeOK'
  <2>1. monitor' \in [Job -> JobProgress \cup {None}]
    BY <1>16, ProgressWritten
  <2>. QED  BY <1>0, <1>16, <2>1 DEF Finish, Phase
<1>17. ASSUME NEW j \in Job, DatabaseError(j)
       PROVE  EngineTypeOK'
  BY <1>0, <1>17 DEF DatabaseError, Phase
<1>18. ASSUME NEW p \in PluginId, SetEnabled(p)
       PROVE  EngineTypeOK'
  BY <1>0, <1>18 DEF SetEnabled
<1>19. CASE Kill
  BY <1>0, <1>19 DEF Kill, Phase
<1>20. CASE UNCHANGED engineVars
  BY <1>0, <1>20 DEF engineVars
<1>. QED
  BY <1>1, <1>2, <1>3, <1>4, <1>5, <1>6, <1>7, <1>8, <1>9, <1>10, <1>11, <1>12, <1>13,
     <1>14, <1>15, <1>16, <1>17, <1>18, <1>19, <1>20 DEF EngineNext, WorkerStep

-----------------------------------------------------------------------------
(***************************************************************************)
(* The rest of EngineInv speaks of one job at a time, and the thread that  *)
(* runs a job writes the entries of no other job.                          *)
(***************************************************************************)
EntriesKept(k) ==
    /\ pc'[k] = pc[k] /\ workflow'[k] = workflow[k] /\ at'[k] = at[k]
    /\ step_outputs'[k] = step_outputs[k] /\ failure'[k] = failure[k]
    /\ aborted'[k] = aborted[k] /\ score'[k] = score[k]
    /\ monitor'[k] = monitor[k] /\ analyses'[k] = analyses[k] /\ findings'[k] = findings[k]

LEMMA JobInvKept ==
    ASSUME NEW k \in Job, JobInv(k), EntriesKept(k)
    PROVE  JobInv(k)'
BY DEF EntriesKept, JobInv, RowInv, MonitorInv, LoopInv, HasRow, Finalized, FinalStatus,
       Steps, Step, Output

LEMMA OthersKept ==
    ASSUME EngineTypeOK, NEW j \in Job, NEW k \in Job \ {j},
           WorkerStep(j) \/ \E w \in Workflow : Submit(j, w)
    PROVE  EntriesKept(k)
<1>. USE DEF EngineTypeOK, EntriesKept, GoTo, worker, database
<1>1. CASE \E w \in Workflow : Submit(j, w)
  BY <1>1 DEF Submit
<1>2. CASE PickUp(j) \/ CreateAnalysisRow(j) \/ Register(j)
  BY <1>2 DEF PickUp, CreateAnalysisRow, Register
<1>3. CASE Instantiate(j) \/ InstantiateFails(j)
  BY <1>3 DEF Instantiate, InstantiateFails
<1>4. CASE Execute(j) \/ ExecuteRaises(j) \/ ExecuteMalformed(j)
  BY <1>4 DEF Execute, ExecuteRaises, ExecuteMalformed
<1>5. CASE Persist(j)
  BY <1>5 DEF Persist
<1>6. CASE RecordStepFailure(j) \/ RecordStepSkip(j) \/ AdvanceStep(j)
  BY <1>6 DEF RecordStepFailure, RecordStepSkip, AdvanceStep, AddNote
<1>7. CASE ComputeRiskScore(j) \/ FinalizeAnalysis(j) \/ Finish(j) \/ DatabaseError(j)
  BY <1>7 DEF ComputeRiskScore, FinalizeAnalysis, Finish, DatabaseError
<1>. QED
  BY <1>1, <1>2, <1>3, <1>4, <1>5, <1>6, <1>7 DEF WorkerStep

\* The job a thread takes from the queue is a queued one.
LEMMA HeadIsQueued ==
    ASSUME EngineInv, NEW j \in Job, PickUp(j)
    PROVE  pc[j] = "queued"
<1>1. queue \in Seq(Job) /\ queue # <<>> /\ Head(queue) = j
  BY DEF EngineInv, EngineTypeOK, PickUp
<1>2. 1 \in DOMAIN queue /\ queue[1] = j
  BY <1>1
<1>. QED  BY <1>2 DEF EngineInv, QueueInv

LEMMA RowStep ==
    ASSUME EngineInv, NEW j \in Job,
           WorkerStep(j) \/ \E w \in Workflow : Submit(j, w)
    PROVE  RowInv(j)'
<1>. USE DEF EngineTypeOK, GoTo, worker, database,
             RowInv, HasRow, Finalized, FinalStatus, Verdict, Unfinished, Loop, Fresh
<1>0. EngineTypeOK /\ JobInv(j)
  BY DEF EngineInv
<1>1. CASE \E w \in Workflow : Submit(j, w)
  BY <1>0, <1>1, NoneAssumption DEF Submit, JobInv
<1>2. CASE PickUp(j)
  BY <1>0, <1>2, NoneAssumption, HeadIsQueued DEF PickUp, JobInv
<1>3. CASE CreateAnalysisRow(j)
  <2>1. [status |-> "running", notes |-> <<>>, risk |-> None] \in AnalysisRow
    BY DEF AnalysisRow
  <2>2. /\ pc[j] = "create" /\ pc'[j] = "register" /\ workflow' = workflow
        /\ analyses'[j] = [status |-> "running", notes |-> <<>>, risk |-> None]
    BY <1>0, <1>3 DEF CreateAnalysisRow
  <2>. QED  BY <1>0, <2>1, <2>2, NoneAssumption DEF JobInv
<1>4. CASE Register(j)
  BY <1>0, <1>4, NoneAssumption DEF Register, JobInv, NextStep, JobProgress
<1>5. CASE Instantiate(j)
  BY <1>0, <1>5, NoneAssumption DEF Instantiate, JobInv
<1>6. CASE InstantiateFails(j)
  BY <1>0, <1>6, NoneAssumption DEF InstantiateFails, JobInv, Unavailable, Reason
<1>7. CASE Execute(j)
  BY <1>0, <1>7, NoneAssumption DEF Execute, JobInv
<1>8. CASE ExecuteRaises(j)
  BY <1>0, <1>8, NoneAssumption DEF ExecuteRaises, JobInv
<1>9. CASE ExecuteMalformed(j)
  BY <1>0, <1>9, NoneAssumption DEF ExecuteMalformed, JobInv
<1>10. CASE Persist(j)
  BY <1>0, <1>10, NoneAssumption DEF Persist, JobInv, AfterPersist
<1>11. CASE RecordStepFailure(j)
  <2>1. analyses'[j] # None /\ analyses'[j].status = "running"
    BY <1>11, NoteWritten, NoneAssumption
  <2>2. pc[j] \in Loop /\ pc'[j] \in {"score", "advance"} /\ workflow' = workflow
    BY <1>0, <1>11 DEF RecordStepFailure
  <2>. QED  BY <1>0, <2>1, <2>2 DEF JobInv
<1>12. CASE RecordStepSkip(j)
  <2>1. analyses'[j] # None /\ analyses'[j].status = "running"
    BY <1>12, NoteWritten, NoneAssumption
  <2>2. pc[j] \in Loop /\ pc'[j] \in {"score", "advance"} /\ workflow' = workflow
    BY <1>0, <1>12 DEF RecordStepSkip
  <2>. QED  BY <1>0, <2>1, <2>2 DEF JobInv
<1>13. CASE AdvanceStep(j)
  BY <1>0, <1>13, NoneAssumption DEF AdvanceStep, JobInv, NextStep
<1>14. CASE ComputeRiskScore(j)
  BY <1>0, <1>14, NoneAssumption DEF ComputeRiskScore, JobInv
<1>15. CASE FinalizeAnalysis(j)
  <2>1. /\ analyses'[j] # None
        /\ analyses'[j].status = FinalStatus(j) /\ analyses'[j].risk = score[j]
    BY <1>15, VerdictWritten, NoneAssumption
  <2>2. /\ pc[j] = "finalize" /\ pc'[j] = "finish" /\ UNCHANGED <<workflow, findings, aborted>>
    BY <1>0, <1>15 DEF FinalizeAnalysis
  <2>. QED  BY <1>0, <2>1, <2>2 DEF JobInv
<1>16. CASE Finish(j)
  BY <1>0, <1>16, NoneAssumption DEF Finish, JobInv
<1>17. CASE DatabaseError(j)
  BY <1>0, <1>17, NoneAssumption DEF DatabaseError, JobInv, InTransaction
<1>. QED
  BY <1>1, <1>2, <1>3, <1>4, <1>5, <1>6, <1>7, <1>8, <1>9, <1>10, <1>11, <1>12, <1>13, <1>14,
     <1>15, <1>16, <1>17
     DEF WorkerStep

LEMMA MonitorStep ==
    ASSUME EngineInv, NEW j \in Job,
           WorkerStep(j) \/ \E w \in Workflow : Submit(j, w)
    PROVE  MonitorInv(j)'
<1>. USE DEF EngineTypeOK, GoTo, worker, database,
             MonitorInv, FinalStatus, Monitored, Loop, Verdict
<1>0. EngineTypeOK /\ JobInv(j)
  BY DEF EngineInv
<1>1. CASE \E w \in Workflow : Submit(j, w)
  BY <1>0, <1>1, NoneAssumption DEF Submit, JobInv
<1>2. CASE PickUp(j)
  BY <1>0, <1>2, NoneAssumption, HeadIsQueued DEF PickUp, JobInv
<1>3. CASE CreateAnalysisRow(j)
  BY <1>0, <1>3, NoneAssumption DEF CreateAnalysisRow, JobInv, AnalysisRow
<1>4. CASE Register(j)
  BY <1>0, <1>4, NoneAssumption DEF Register, JobInv, NextStep, JobProgress
<1>5. CASE Instantiate(j)
  BY <1>0, <1>5, NoneAssumption DEF Instantiate, JobInv
<1>6. CASE InstantiateFails(j)
  BY <1>0, <1>6, NoneAssumption DEF InstantiateFails, JobInv, Unavailable, Reason
<1>7. CASE Execute(j)
  BY <1>0, <1>7, NoneAssumption DEF Execute, JobInv
<1>8. CASE ExecuteRaises(j)
  BY <1>0, <1>8, NoneAssumption DEF ExecuteRaises, JobInv
<1>9. CASE ExecuteMalformed(j)
  BY <1>0, <1>9, NoneAssumption DEF ExecuteMalformed, JobInv
<1>10. CASE Persist(j)
  BY <1>0, <1>10, NoneAssumption DEF Persist, JobInv, AfterPersist
<1>11. CASE RecordStepFailure(j)
  BY <1>0, <1>11, NoneAssumption DEF RecordStepFailure, JobInv, AddNote
<1>12. CASE RecordStepSkip(j)
  BY <1>0, <1>12, NoneAssumption DEF RecordStepSkip, JobInv, AddNote
<1>13. CASE AdvanceStep(j)
  <2>1. monitor'[j] # None /\ monitor'[j].status = "running"
    BY <1>13, ProgressWritten, NoneAssumption
  <2>2. pc'[j] \in {"load", "score"}
    BY <1>0, <1>13 DEF AdvanceStep, NextStep
  <2>. QED  BY <2>1, <2>2
<1>14. CASE ComputeRiskScore(j)
  BY <1>0, <1>14, NoneAssumption DEF ComputeRiskScore, JobInv
<1>15. CASE FinalizeAnalysis(j)
  BY <1>0, <1>15, NoneAssumption DEF FinalizeAnalysis, JobInv
<1>16. CASE Finish(j)
  <2>1. monitor'[j] # None /\ monitor'[j].status = FinalStatus(j)
    BY <1>16, ProgressWritten, NoneAssumption
  <2>2. pc'[j] = "returned" /\ aborted' = aborted
    BY <1>0, <1>16 DEF Finish
  <2>. QED  BY <2>1, <2>2
<1>17. CASE DatabaseError(j)
  BY <1>0, <1>17, NoneAssumption DEF DatabaseError, JobInv, InTransaction
<1>. QED
  BY <1>1, <1>2, <1>3, <1>4, <1>5, <1>6, <1>7, <1>8, <1>9, <1>10, <1>11, <1>12, <1>13, <1>14,
     <1>15, <1>16, <1>17
     DEF WorkerStep

LEMMA LoopStepKept ==
    ASSUME EngineInv, NEW j \in Job,
           WorkerStep(j) \/ \E w \in Workflow : Submit(j, w)
    PROVE  LoopInv(j)'
<1>. USE DEF EngineTypeOK, GoTo, worker, database,
             LoopInv, Loop, Fresh, Steps, Step, Output
<1>0. EngineTypeOK /\ JobInv(j)
  BY DEF EngineInv
<1>1. CASE \E w \in Workflow : Submit(j, w)
  BY <1>0, <1>1, NoneAssumption DEF Submit, JobInv
<1>2. CASE PickUp(j)
  BY <1>0, <1>2, NoneAssumption, HeadIsQueued DEF PickUp, JobInv
<1>3. CASE CreateAnalysisRow(j)
  BY <1>0, <1>3, NoneAssumption DEF CreateAnalysisRow, JobInv, AnalysisRow
<1>4. CASE Register(j)
  BY <1>0, <1>4 DEF Register, JobInv, NextStep
<1>5. CASE Instantiate(j)
  BY <1>0, <1>5, NoneAssumption DEF Instantiate, JobInv
<1>6. CASE InstantiateFails(j)
  BY <1>0, <1>6, NoneAssumption DEF InstantiateFails, JobInv, Unavailable, Reason
<1>7. CASE Execute(j)
  <2>1. Step(j).name \in StepName
    BY <1>7, LoopStep DEF Execute, StepDefinition
  <2>2. PICK output \in PluginOutput :
            step_outputs' = [step_outputs EXCEPT ![j][Step(j).name] = output]
    BY <1>7 DEF Execute
  <2>3. step_outputs'[j][Step(j).name] # None
    BY <1>0, <2>1, <2>2, NoneAssumption
  <2>4. pc[j] = "run" /\ pc'[j] = "persist" /\ UNCHANGED <<workflow, at>>
    BY <1>0, <1>7 DEF Execute
  <2>. QED  BY <1>0, <2>3, <2>4 DEF JobInv
<1>8. CASE ExecuteRaises(j)
  <2>1. failure'[j] # None
    BY <1>0, <1>8, NoneAssumption DEF ExecuteRaises, Reason
  <2>2. pc[j] = "run" /\ pc'[j] = "note_failure" /\ UNCHANGED <<workflow, at>>
    BY <1>0, <1>8 DEF ExecuteRaises
  <2>. QED  BY <1>0, <2>1, <2>2 DEF JobInv
<1>9. CASE ExecuteMalformed(j)
  BY <1>0, <1>9, NoneAssumption DEF ExecuteMalformed, JobInv
<1>10. CASE Persist(j)
  <2>1. Output(j).status = "failed" => failure'[j] # None
    BY <1>0, <1>10, NoneAssumption DEF Persist, Reason
  <2>2. /\ pc[j] = "persist" /\ pc'[j] = AfterPersist(Output(j).status)
        /\ UNCHANGED <<workflow, at, step_outputs>>
    BY <1>0, <1>10 DEF Persist
  <2>. QED  BY <1>0, <2>1, <2>2 DEF JobInv, AfterPersist
<1>11. CASE RecordStepFailure(j)
  BY <1>0, <1>11, NoneAssumption DEF RecordStepFailure, JobInv, AddNote
<1>12. CASE RecordStepSkip(j)
  BY <1>0, <1>12, NoneAssumption DEF RecordStepSkip, JobInv, AddNote
<1>13. CASE AdvanceStep(j)
  BY <1>0, <1>13, NoneAssumption DEF AdvanceStep, JobInv, NextStep
<1>14. CASE ComputeRiskScore(j)
  BY <1>0, <1>14, NoneAssumption DEF ComputeRiskScore, JobInv
<1>15. CASE FinalizeAnalysis(j)
  BY <1>0, <1>15, NoneAssumption DEF FinalizeAnalysis, JobInv
<1>16. CASE Finish(j)
  BY <1>0, <1>16, NoneAssumption DEF Finish, JobInv
<1>17. CASE DatabaseError(j)
  BY <1>0, <1>17, NoneAssumption DEF DatabaseError, JobInv, InTransaction
<1>. QED
  BY <1>1, <1>2, <1>3, <1>4, <1>5, <1>6, <1>7, <1>8, <1>9, <1>10, <1>11, <1>12, <1>13, <1>14,
     <1>15, <1>16, <1>17
     DEF WorkerStep

-----------------------------------------------------------------------------
\* Submit appends an idle job, PickUp removes the head, and a thread that moves
\* its own job otherwise moves one that has left the queue.
LEMMA QueueStep == EngineInv /\ [EngineNext]_engineVars => QueueInv'
<1>. SUFFICES ASSUME EngineInv, [EngineNext]_engineVars
              PROVE  QueueInv'
  OBVIOUS
<1>. USE DEF QueueInv
<1>0. queue \in Seq(Job) /\ pc \in [Job -> Phase] /\ QueueInv
  BY DEF EngineInv, EngineTypeOK
<1>1. ASSUME NEW j \in Job, NEW w \in Workflow, Submit(j, w)
      PROVE  QueueInv'
  <2>1. pc[j] = "idle" /\ pc' = [pc EXCEPT ![j] = "queued"] /\ queue' = Append(queue, j)
    BY <1>1 DEF Submit, GoTo
  <2>2. \A i \in DOMAIN queue : queue[i] # j
    BY <1>0, <2>1
  <2>. QED  BY <1>0, <2>1, <2>2
<1>2. ASSUME NEW j \in Job, PickUp(j)
      PROVE  QueueInv'
  <2>1. queue # <<>> /\ queue[1] = j /\ queue' = Tail(queue) /\ pc' = [pc EXCEPT ![j] = "create"]
    BY <1>0, <1>2 DEF PickUp, GoTo
  <2>2. \A i \in DOMAIN queue' : /\ i + 1 \in DOMAIN queue /\ i + 1 # 1
                                 /\ queue'[i] = queue[i + 1]
    BY <1>0, <2>1
  <2>3. 1 \in DOMAIN queue
    BY <1>0, <2>1
  <2>4. \A i \in DOMAIN queue' : queue'[i] # j /\ queue'[i] \in Job
    BY <1>0, <2>1, <2>2, <2>3
  <2>5. \A i \in DOMAIN queue' : pc'[queue'[i]] = "queued"
    BY <1>0, <2>1, <2>2, <2>4
  <2>6. ASSUME NEW i \in DOMAIN queue', NEW k \in DOMAIN queue', queue'[i] = queue'[k]
        PROVE  i = k
    <3>1. i + 1 = k + 1
      BY <1>0, <2>2, <2>6
    <3>2. i \in Nat /\ k \in Nat
      BY <1>0, <2>1
    <3>. QED  BY <3>1, <3>2
  <2>. QED  BY <2>5, <2>6
<1>3. ASSUME NEW j \in Job, WorkerStep(j), ~PickUp(j)
      PROVE  QueueInv'
  <2>1. pc[j] # "queued" /\ queue' = queue
    BY <1>3 DEF WorkerStep, CreateAnalysisRow, Register, Instantiate, InstantiateFails,
       Execute, ExecuteRaises, ExecuteMalformed, Persist, RecordStepFailure, RecordStepSkip,
       AdvanceStep, ComputeRiskScore, FinalizeAnalysis, Finish, DatabaseError, InTransaction
  <2>2. \A i \in DOMAIN queue : queue[i] \in Job \ {j}
    BY <1>0, <2>1
  <2>3. \A k \in Job \ {j} : pc'[k] = pc[k]
    BY <1>3, OthersKept DEF EngineInv, EntriesKept
  <2>. QED  BY <1>0, <2>1, <2>2, <2>3
<1>4. CASE Kill
  BY <1>4 DEF Kill
<1>5. CASE (\E p \in PluginId : SetEnabled(p)) \/ UNCHANGED engineVars
  BY <1>0, <1>5 DEF SetEnabled, engineVars, worker
<1>. QED  BY <1>1, <1>2, <1>3, <1>4, <1>5 DEF EngineNext

LEMMA EngineInvInit == EngineInit => EngineInv
<1>. SUFFICES ASSUME EngineInit PROVE EngineInv
  OBVIOUS
<1>1. EngineTypeOK
  BY BoundAssumption DEF EngineInit, EngineTypeOK, Phase
<1>2. QueueInv
  BY DEF EngineInit, QueueInv
<1>3. ASSUME NEW j \in Job PROVE JobInv(j)
  BY DEF EngineInit, JobInv, RowInv, MonitorInv, LoopInv, HasRow, Finalized, Fresh, Loop,
         Unfinished, Monitored
<1>. QED  BY <1>1, <1>2, <1>3 DEF EngineInv

LEMMA EngineInvStep == EngineInv /\ [EngineNext]_engineVars => EngineInv'
<1>. SUFFICES ASSUME EngineInv, [EngineNext]_engineVars
              PROVE  \A k \in Job : JobInv(k)'
  BY EngineTypeStep, QueueStep DEF EngineInv
<1>. SUFFICES ASSUME NEW k \in Job PROVE JobInv(k)'
  OBVIOUS
<1>0. EngineTypeOK /\ JobInv(k)
  BY DEF EngineInv
<1>1. ASSUME NEW j \in Job, WorkerStep(j) \/ \E w \in Workflow : Submit(j, w)
      PROVE  JobInv(k)'
  <2>1. CASE j = k
    BY <1>1, <2>1, RowStep, MonitorStep, LoopStepKept DEF JobInv
  <2>2. CASE j # k
    BY <1>0, <1>1, <2>2, OthersKept, JobInvKept
  <2>. QED  BY <2>1, <2>2
<1>2. ASSUME NEW p \in PluginId, SetEnabled(p)
      PROVE  JobInv(k)'
  BY <1>0, <1>2, JobInvKept DEF SetEnabled, worker, EntriesKept
<1>3. CASE Kill
  <2>1. /\ monitor'[k] = None /\ pc'[k] = IF pc[k] = "idle" THEN "idle" ELSE "lost"
        /\ UNCHANGED <<workflow, at, step_outputs, failure, aborted, score, analyses, findings>>
    BY <1>0, <1>3 DEF Kill, EngineTypeOK, database
  <2>. QED
    BY <1>0, <2>1 DEF JobInv, RowInv, MonitorInv, LoopInv, HasRow, Finalized, FinalStatus,
       Fresh, Loop, Unfinished, Monitored
<1>4. CASE UNCHANGED engineVars
  BY <1>0, <1>4, JobInvKept DEF engineVars, worker, database, EntriesKept
<1>. QED  BY <1>1, <1>2, <1>3, <1>4 DEF EngineNext

LEMMA EngineInvariance == EngineSpec => []EngineInv
BY EngineInvInit, EngineInvStep, PTL DEF EngineSpec

(***************************************************************************)
(* Every variable of the orchestrator keeps its type: no branch of         *)
(* _execute writes a note or progress into a row or entry that is missing. *)
(***************************************************************************)
THEOREM EngineTypeCorrect == EngineSpec => []EngineTypeOK
<1>1. EngineInv => EngineTypeOK
  BY DEF EngineInv
<1>. QED  BY <1>1, EngineInvariance, PTL

(***************************************************************************)
(* The risk score of a finished analysis is the score of its findings.     *)
(***************************************************************************)
THEOREM ScoreCorrect == EngineSpec => []ScoreCoversFindings
<1>1. EngineInv => ScoreCoversFindings
  BY DEF EngineInv, JobInv, RowInv, ScoreCoversFindings
<1>. QED  BY <1>1, EngineInvariance, PTL

(***************************************************************************)
(* A job the JobMonitor calls finished has a row with the same verdict.    *)
(***************************************************************************)
THEOREM MonitorCorrect == EngineSpec => []MonitorNeverAhead
<1>1. EngineInv => MonitorNeverAhead
  BY DEF EngineInv, JobInv, RowInv, MonitorInv, MonitorNeverAhead, FinalStatus, Verdict, Finalized
<1>. QED  BY <1>1, EngineInvariance, PTL

(***************************************************************************)
(* No step of any thread, and no kill, changes a finished analysis.        *)
(***************************************************************************)
LEMMA FrozenStep ==
    ASSUME EngineInv, [EngineNext]_engineVars, NEW k \in Job, Finalized(k)
    PROVE  analyses'[k] = analyses[k] /\ findings'[k] = findings[k]
<1>0. EngineTypeOK /\ pc[k] \in {"finish", "returned", "lost"}
  BY DEF EngineInv, JobInv, RowInv
<1>1. ASSUME NEW j \in Job, WorkerStep(j) \/ \E w \in Workflow : Submit(j, w)
      PROVE  analyses'[k] = analyses[k] /\ findings'[k] = findings[k]
  <2>1. CASE j # k
    BY <1>0, <1>1, <2>1, OthersKept DEF EntriesKept
  <2>2. CASE j = k /\ Finish(j)
    BY <2>2 DEF Finish, database
  <2>3. CASE j = k /\ ~Finish(j)
    BY <1>0, <1>1, <2>3, HeadIsQueued DEF Submit, WorkerStep, CreateAnalysisRow, Register,
       Instantiate, InstantiateFails, Execute, ExecuteRaises, ExecuteMalformed, Persist,
       RecordStepFailure, RecordStepSkip, AdvanceStep, ComputeRiskScore, FinalizeAnalysis,
       DatabaseError, InTransaction
  <2>. QED  BY <2>1, <2>2, <2>3
<1>2. CASE (\E p \in PluginId : SetEnabled(p)) \/ Kill \/ UNCHANGED engineVars
  BY <1>2 DEF SetEnabled, Kill, engineVars, database
<1>. QED  BY <1>1, <1>2 DEF EngineNext

THEOREM FinalRowsFrozen == EngineSpec => FinalRowFrozen
<1>1. EngineInv /\ [EngineNext]_engineVars
        => [\A j \in Job : Finalized(j) =>
               analyses'[j] = analyses[j] /\ findings'[j] = findings[j]]_engineVars
  BY FrozenStep
<1>. QED  BY <1>1, EngineInvariance, PTL DEF EngineSpec, FinalRowFrozen
-----------------------------------------------------------------------------
(***************************************************************************)
(* What the notes say.  A row that is being written, or is finished, tells *)
(* of every step behind the loop's position, of none in front of it, and   *)
(* of the current one from the moment its branch has written the note.     *)
(***************************************************************************)
Narrated(j) == HasRow(j) /\ (pc[j] \notin {"raised", "lost"} \/ Finalized(j))
BeforeNote == {"register", "load", "run", "persist", "note_failure", "note_skip"}

Untouched(j, i) ==
    LinesOf(j, StepNameOf(j, i)) = {} /\ step_outputs[j][StepNameOf(j, i)] = None

\* The current step, until its note is written.
Unrecorded(j) ==
    /\ LinesOf(j, Step(j).name) = {}
    /\ pc[j] \in {"register", "load", "run"} => Output(j) = None
    /\ pc[j] = "note_skip" => Output(j).status = "skipped"
    /\ pc[j] = "note_failure" =>
          IF Output(j) = None
          THEN failure[j] \in {"disabled", "unloadable", "crashed"}
          ELSE Output(j).status = "failed" /\ failure[j] = "reported"

NotesInv(j) ==
    /\ pc[j] \in Fresh => \A name \in StepName : step_outputs[j][name] = None
    /\ Narrated(j) => \A i \in DOMAIN Steps(j) :
          /\ i < at[j] => Explained(j, i)
          /\ i > at[j] => Untouched(j, i)
          /\ i = at[j] => IF pc[j] \in BeforeNote THEN Unrecorded(j) ELSE Explained(j, i)

\* What the verdict says: the flag, the position and the progress agree.
VerdictInv(j) ==
    /\ pc[j] \in Fresh \cup {"register"} \cup Loop => ~aborted[j]
    /\ monitor[j] # None => monitor[j].completed_steps = at[j] - 1
    /\ Narrated(j) =>
          /\ \A i \in DOMAIN Steps(j) : FailedRequired(j, i) <=> aborted[j] /\ i = at[j]
          /\ pc[j] \in {"score", "finalize", "finish", "returned", "lost"} =>
                IF aborted[j] THEN at[j] <= Len(Steps(j)) ELSE at[j] = Len(Steps(j)) + 1

\* What the findings say.
RowsUnique(j) == \A r, q \in findings[j] : r.key = q.key => r = q

RowsFromOutputs(j) ==
    \A r \in findings[j] :
        LET output == step_outputs[j][r.step] IN
        /\ output # None
        /\ r.nth \in DOMAIN output.findings
        /\ output.findings[r.nth] = [key |-> r.key, severity |-> r.severity]

KeysStored(j) ==
    pc[j] \notin {"raised", "lost"} =>
        \A name \in StepName :
            step_outputs[j][name] # None /\ ~PersistPending(j, name) =>
                \A i \in DOMAIN step_outputs[j][name].findings :
                    step_outputs[j][name].findings[i].key \in KeysOf(findings[j])

FindingsInv(j) ==
    /\ pc[j] \in Fresh => findings[j] = {}
    /\ RowsUnique(j) /\ RowsFromOutputs(j) /\ KeysStored(j)


-----------------------------------------------------------------------------
\* The steps of a workflow are step definitions with names of their own.
LEMMA StepNames ==
    ASSUME EngineTypeOK, NEW j \in Job, workflow[j] # None
    PROVE  /\ Steps(j) \in Seq(StepDefinition)
           /\ \A i \in DOMAIN Steps(j) :
                 i \in Nat /\ Steps(j)[i] \in StepDefinition /\ StepNameOf(j, i) \in StepName
           /\ \A i, k \in DOMAIN Steps(j) : StepNameOf(j, i) = StepNameOf(j, k) => i = k
<1>1. workflow[j] \in Workflow
  BY DEF EngineTypeOK
<1>2. Steps(j) \in Seq(StepDefinition)
  BY <1>1, RegistryAssumption DEF Steps
<1>3. \A i \in DOMAIN Steps(j) : i \in Nat /\ Steps(j)[i] \in StepDefinition
  BY <1>2
<1>4. \A i, k \in DOMAIN Steps(j) : StepNameOf(j, i) = StepNameOf(j, k) => i = k
  BY <1>1, RegistryAssumption DEF Steps, StepNameOf
<1>. QED  BY <1>2, <1>3, <1>4 DEF StepNameOf, StepDefinition

\* A step that writes neither notes nor outputs changes nothing of the story.
LEMMA SameStory ==
    ASSUME NEW j \in Job, workflow'[j] = workflow[j], step_outputs'[j] = step_outputs[j],
           analyses'[j].notes = analyses[j].notes
    PROVE  /\ Steps(j)' = Steps(j)
           /\ \A i : Explained(j, i)' <=> Explained(j, i)
           /\ \A i : Untouched(j, i)' <=> Untouched(j, i)
           /\ \A i : FailedRequired(j, i)' <=> FailedRequired(j, i)
           /\ \A name : LinesOf(j, name)' = LinesOf(j, name)
<1>1. Steps(j)' = Steps(j) /\ \A i : StepNameOf(j, i)' = StepNameOf(j, i)
  BY DEF Steps, StepNameOf
<1>2. \A name : LinesOf(j, name)' = LinesOf(j, name)
  BY DEF LinesOf
<1>. QED  BY <1>1, <1>2 DEF Explained, Untouched, FailedRequired

\* A note is a new last line of its step and of no other.
LEMMA NoteAdded ==
    ASSUME EngineInv, NEW j \in Job, HasRow(j), NEW note \in Note, AddNote(j, note),
           NEW n, n = Len(analyses[j].notes) + 1
    PROVE  /\ n \in DOMAIN analyses'[j].notes /\ analyses'[j].notes[n] = note
           /\ LinesOf(j, note.step)' = LinesOf(j, note.step) \cup {n}
           /\ \A name : name # note.step => LinesOf(j, name)' = LinesOf(j, name)
           /\ \A k \in DOMAIN analyses[j].notes :
                 /\ k \in DOMAIN analyses'[j].notes
                 /\ analyses'[j].notes[k] = analyses[j].notes[k]
<1>1. analyses[j].notes \in Seq(Note)
  BY DEF EngineInv, EngineTypeOK, HasRow, AnalysisRow
<1>2. analyses'[j].notes = Append(analyses[j].notes, note)
  <2>1. analyses \in [Job -> AnalysisRow \cup {None}] /\ analyses[j] \in AnalysisRow
    BY DEF EngineInv, EngineTypeOK, HasRow
  <2>. QED  BY <2>1 DEF AddNote, AnalysisRow
<1>3. /\ DOMAIN analyses'[j].notes = DOMAIN analyses[j].notes \cup {n}
      /\ n \notin DOMAIN analyses[j].notes
      /\ analyses'[j].notes[n] = note
      /\ \A k \in DOMAIN analyses[j].notes : analyses'[j].notes[k] = analyses[j].notes[k]
  BY <1>1, <1>2
<1>. QED  BY <1>3 DEF LinesOf

\* Writing the note of the current step leaves the other steps' story alone.
LEMMA OtherStepsKept ==
    ASSUME EngineInv, NEW j \in Job, HasRow(j), workflow[j] # None, at[j] \in DOMAIN Steps(j),
           NEW note \in Note, note.step = Step(j).name, AddNote(j, note),
           workflow'[j] = workflow[j], step_outputs'[j] = step_outputs[j],
           NEW i \in DOMAIN Steps(j), i # at[j]
    PROVE  /\ Explained(j, i) => Explained(j, i)'
           /\ Untouched(j, i) => Untouched(j, i)'
           /\ FailedRequired(j, i)' <=> FailedRequired(j, i)
<1>1. /\ Steps(j)' = Steps(j)
      /\ StepNameOf(j, i)' = StepNameOf(j, i) /\ StepNameOf(j, i) # note.step
  BY StepNames DEF EngineInv, Steps, StepNameOf, Step
<1>2. /\ LinesOf(j, StepNameOf(j, i))' = LinesOf(j, StepNameOf(j, i))
      /\ \A k \in DOMAIN analyses[j].notes :
            k \in DOMAIN analyses'[j].notes /\ analyses'[j].notes[k] = analyses[j].notes[k]
  BY <1>1, NoteAdded
<1>3. LinesOf(j, StepNameOf(j, i)) \subseteq DOMAIN analyses[j].notes
  BY DEF LinesOf
<1>. QED
  BY <1>1, <1>2, <1>3 DEF Explained, Explains, Untouched, FailedRequired, StepNameOf

\* Both branches that write a note write it of the current step.
LEMMA NoteOfStep ==
    ASSUME EngineInv, NEW j \in Job, RecordStepFailure(j) \/ RecordStepSkip(j)
    PROVE  /\ HasRow(j) /\ workflow[j] # None /\ at[j] \in DOMAIN Steps(j)
           /\ UNCHANGED <<workflow, step_outputs, at>>
           /\ \E note \in Note :
                 /\ note.step = Step(j).name /\ AddNote(j, note)
                 /\ RecordStepFailure(j) => note.kind = "FAILED" /\ note.why = failure[j]
                 /\ RecordStepSkip(j) => note.kind = "SKIPPED"
<1>1. pc[j] \in Loop /\ failure[j] \in Reason \cup {None} /\ at[j] \in Nat \ {0}
  BY DEF RecordStepFailure, RecordStepSkip, Loop, EngineInv, EngineTypeOK
<1>2. Step(j) \in StepDefinition /\ HasRow(j) /\ workflow[j] # None
  BY <1>1, LoopStep, NoneAssumption
<1>3. at[j] \in DOMAIN Steps(j)
  <2>1. at[j] <= Len(Steps(j)) /\ Steps(j) \in Seq(StepDefinition)
    BY <1>1, <1>2, StepNames DEF EngineInv, JobInv, LoopInv
  <2>. QED  BY <1>1, <2>1
<1>4. CASE RecordStepFailure(j)
  <2>. DEFINE note == [kind |-> "FAILED", step |-> Step(j).name, why |-> failure[j]]
  <2>1. note \in Note
    BY <1>1, <1>2, <1>4 DEF RecordStepFailure, EngineInv, JobInv, LoopInv, StepDefinition, Note
  <2>2. ~RecordStepSkip(j)
    BY <1>4 DEF RecordStepFailure, RecordStepSkip
  <2>. QED  BY <1>2, <1>3, <1>4, <2>1, <2>2 DEF RecordStepFailure
<1>5. CASE RecordStepSkip(j)
  <2>. DEFINE note == [kind |-> "SKIPPED", step |-> Step(j).name, why |-> "skipped"]
  <2>1. note \in Note
    BY <1>2 DEF StepDefinition, Note
  <2>2. ~RecordStepFailure(j)
    BY <1>5 DEF RecordStepFailure, RecordStepSkip
  <2>. QED  BY <1>2, <1>3, <1>5, <2>1, <2>2 DEF RecordStepSkip
<1>. QED  BY <1>4, <1>5

\* The position and the story stay, the phase changes on one side of the note.
LEMMA NotesCarried ==
    ASSUME NEW j \in Job, NotesInv(j), Narrated(j), pc'[j] \notin Fresh,
           workflow'[j] = workflow[j], step_outputs'[j] = step_outputs[j], at'[j] = at[j],
           analyses'[j].notes = analyses[j].notes,
           \/ pc[j] \notin BeforeNote /\ pc'[j] \notin BeforeNote
           \/ /\ pc[j] \in BeforeNote /\ pc'[j] \in BeforeNote
              /\ at[j] \in DOMAIN Steps(j) /\ Unrecorded(j) => Unrecorded(j)'
    PROVE  NotesInv(j)'
<1>1. /\ Steps(j)' = Steps(j)
      /\ \A i : Explained(j, i)' <=> Explained(j, i)
      /\ \A i : Untouched(j, i)' <=> Untouched(j, i)
  BY SameStory
<1>2. ASSUME NEW i \in DOMAIN Steps(j)
      PROVE  /\ i < at[j] => Explained(j, i)'
             /\ i > at[j] => Untouched(j, i)'
             /\ i = at[j] => IF pc'[j] \in BeforeNote THEN Unrecorded(j)' ELSE Explained(j, i)'
  BY <1>1, <1>2 DEF NotesInv
<1>. QED  BY <1>1, <1>2 DEF NotesInv

\* The note of the current step is the one its output or failure calls for.
LEMMA NoteExplains ==
    ASSUME EngineInv, NEW j \in Job, NotesInv(j), RecordStepFailure(j) \/ RecordStepSkip(j)
    PROVE  Explained(j, at[j])'
<1>1. /\ HasRow(j) /\ workflow[j] # None /\ at[j] \in DOMAIN Steps(j)
      /\ UNCHANGED <<workflow, step_outputs, at>>
  BY NoteOfStep
<1>2. PICK note \in Note :
        /\ note.step = Step(j).name /\ AddNote(j, note)
        /\ RecordStepFailure(j) => note.kind = "FAILED" /\ note.why = failure[j]
        /\ RecordStepSkip(j) => note.kind = "SKIPPED"
  BY NoteOfStep
<1>3. Unrecorded(j)
  BY <1>1 DEF NotesInv, Narrated, BeforeNote, RecordStepFailure, RecordStepSkip
<1>4. PICK n : n = Len(analyses[j].notes) + 1
  OBVIOUS
<1>5. /\ n \in DOMAIN analyses'[j].notes /\ analyses'[j].notes[n] = note
      /\ LinesOf(j, Step(j).name)' = {n}
  <2>1. LinesOf(j, Step(j).name) = {} /\ Step(j).name' = Step(j).name
    BY <1>1, <1>3 DEF Unrecorded, Step, Steps
  <2>. QED  BY <1>1, <1>2, <1>4, <2>1, NoteAdded DEF LinesOf
<1>6. StepNameOf(j, at[j])' = Step(j).name /\ Output(j) = step_outputs'[j][Step(j).name]
        /\ Step(j).name' = Step(j).name
  BY <1>1 DEF StepNameOf, Step, Steps, Output
<1>7. ~Quiet(Output(j)) /\ Explains(note, Output(j))
  <2>1. CASE RecordStepFailure(j)
    BY <1>2, <1>3, <2>1 DEF RecordStepFailure, Unrecorded, Quiet, Explains
  <2>2. CASE RecordStepSkip(j)
    <3>1. Output(j) # None
      BY <2>2 DEF RecordStepSkip, EngineInv, JobInv, LoopInv
    <3>. QED  BY <1>2, <1>3, <2>2, <3>1 DEF RecordStepSkip, Unrecorded, Quiet, Explains
  <2>. QED  BY <2>1, <2>2
<1>. QED  BY <1>5, <1>6, <1>7 DEF Explained

LEMMA NotesStep ==
    ASSUME EngineInv, NEW j \in Job, NotesInv(j),
           WorkerStep(j) \/ \E w \in Workflow : Submit(j, w)
    PROVE  NotesInv(j)'
<1>0. EngineTypeOK /\ JobInv(j) /\ RowInv(j)'
  BY RowStep DEF EngineInv
<1>. USE DEF EngineTypeOK, GoTo, worker, database
<1>1. CASE pc[j] \in {"idle", "queued"}
  <2>1. /\ analyses' = analyses /\ step_outputs' = step_outputs /\ analyses[j] = None
    BY <1>0, <1>1, HeadIsQueued DEF JobInv, RowInv, Fresh, Submit, WorkerStep, PickUp, CreateAnalysisRow,
       Register, Instantiate, InstantiateFails, Execute, ExecuteRaises, ExecuteMalformed, Persist,
       RecordStepFailure, RecordStepSkip, AdvanceStep, ComputeRiskScore, FinalizeAnalysis,
       Finish, DatabaseError, InTransaction
  <2>. QED  BY <1>1, <2>1 DEF NotesInv, Narrated, HasRow, Fresh
<1>2. CASE CreateAnalysisRow(j)
  <2>1. /\ pc[j] = "create" /\ pc'[j] = "register" /\ at[j] = 1
        /\ UNCHANGED <<workflow, at, step_outputs>>
        /\ workflow[j] # None
        /\ \A name \in StepName : step_outputs[j][name] = None
    BY <1>0, <1>2 DEF CreateAnalysisRow, JobInv, RowInv, LoopInv, NotesInv, Fresh
  <2>2. analyses'[j].notes = <<>>
    BY <1>0, <1>2 DEF CreateAnalysisRow
  <2>3. \A name : LinesOf(j, name)' = {}
    BY <2>2 DEF LinesOf
  <2>4. \A i \in DOMAIN Steps(j) : StepNameOf(j, i) \in StepName /\ i \in Nat \ {0}
    BY <1>0, <2>1, StepNames
  <2>5. Steps(j)' = Steps(j) /\ \A i : StepNameOf(j, i)' = StepNameOf(j, i)
    BY <2>1 DEF Steps, StepNameOf
  <2>6. \A i \in DOMAIN Steps(j) : Untouched(j, i)'
    BY <2>1, <2>3, <2>4, <2>5 DEF Untouched
  <2>7. 1 \in DOMAIN Steps(j) => Unrecorded(j)'
    BY <2>1, <2>3, <2>4, <2>5 DEF Unrecorded, Output, Step, StepNameOf
  <2>. QED  BY <2>1, <2>4, <2>5, <2>6, <2>7 DEF NotesInv, Fresh, BeforeNote
<1>3. CASE Register(j)
  <2>1. /\ pc[j] = "register" /\ pc'[j] = NextStep(j, 1) /\ at[j] = 1
        /\ UNCHANGED <<workflow, at, step_outputs, analyses>>
        /\ workflow[j] # None /\ HasRow(j)
    BY <1>0, <1>3 DEF Register, JobInv, RowInv, LoopInv, Unfinished, Fresh
  <2>2. CASE 1 <= Len(Steps(j))
    BY <2>1, <2>2, NotesCarried
       DEF NextStep, BeforeNote, Fresh, Narrated, Unrecorded, Output, Step, Steps, LinesOf
  <2>3. CASE ~(1 <= Len(Steps(j)))
    <3>1. DOMAIN Steps(j) = {}
      BY <1>0, <2>1, <2>3, StepNames
    <3>. QED  BY <2>1, <2>3, <3>1 DEF NextStep, NotesInv, Fresh, Steps
  <2>. QED  BY <2>2, <2>3
<1>4. CASE Instantiate(j) \/ InstantiateFails(j) \/ ExecuteRaises(j)
  <2>1. /\ pc[j] \in {"load", "run"} /\ pc'[j] \in {"run", "note_failure"}
        /\ pc'[j] = "note_failure" => failure'[j] \in {"disabled", "unloadable", "crashed"}
        /\ UNCHANGED <<workflow, at, step_outputs, analyses>>
        /\ HasRow(j)
    BY <1>0, <1>4 DEF Instantiate, InstantiateFails, ExecuteRaises, Unavailable, JobInv, RowInv,
       Unfinished, Loop
  <2>. QED
    BY <2>1, NotesCarried
       DEF BeforeNote, Fresh, Narrated, Unrecorded, Output, Step, Steps, LinesOf
<1>5. CASE Execute(j)
  <2>1. /\ pc[j] = "run" /\ pc'[j] = "persist" /\ HasRow(j)
        /\ UNCHANGED <<workflow, at, analyses>>
    BY <1>0, <1>5 DEF Execute, JobInv, RowInv, Unfinished, Loop
  <2>2. workflow[j] # None /\ Step(j) \in StepDefinition
    BY <2>1, LoopStep, NoneAssumption DEF Loop
  <2>3. \A name \in StepName \ {Step(j).name} : step_outputs'[j][name] = step_outputs[j][name]
    BY <1>0, <1>5, <2>2 DEF Execute, StepDefinition
  <2>4. Steps(j)' = Steps(j) /\ \A i : StepNameOf(j, i)' = StepNameOf(j, i)
          /\ \A name : LinesOf(j, name)' = LinesOf(j, name)
    BY <2>1 DEF Steps, StepNameOf, LinesOf
  <2>5. ASSUME NEW i \in DOMAIN Steps(j), i # at[j]
        PROVE  (Explained(j, i) => Explained(j, i)') /\ (Untouched(j, i) => Untouched(j, i)')
    <3>1. at[j] \in DOMAIN Steps(j)
      BY <1>0, <2>1, <2>2, StepNames DEF JobInv, LoopInv, Loop
    <3>2. StepNameOf(j, i) \in StepName \ {Step(j).name}
      BY <1>0, <2>2, <2>5, <3>1, StepNames DEF Step, StepNameOf
    <3>3. step_outputs'[j][StepNameOf(j, i)'] = step_outputs[j][StepNameOf(j, i)]
      BY <2>3, <2>4, <3>2
    <3>. QED  BY <2>1, <2>4, <3>3 DEF Explained, Untouched
  <2>6. at[j] \in DOMAIN Steps(j) /\ Unrecorded(j) => Unrecorded(j)'
    BY <2>1, <2>4 DEF Unrecorded, Step, Steps
  <2>7. \A i \in DOMAIN Steps(j) :
           /\ i < at[j] => Explained(j, i)
           /\ i > at[j] => Untouched(j, i)
           /\ i = at[j] => Unrecorded(j)
           /\ i \in Nat /\ at[j] \in Nat
    BY <1>0, <2>1, <2>2, StepNames DEF NotesInv, Narrated, BeforeNote
  <2>8. pc'[j] \in BeforeNote \ Fresh
    BY <2>1 DEF BeforeNote, Fresh
  <2>. QED  BY <2>1, <2>4, <2>5, <2>6, <2>7, <2>8 DEF NotesInv
<1>6. CASE Persist(j)
  <2>1. /\ pc[j] = "persist" /\ pc'[j] = AfterPersist(Output(j).status) /\ HasRow(j)
        /\ UNCHANGED <<workflow, at, step_outputs, analyses>>
        /\ Output(j) # None /\ workflow[j] # None
        /\ Output(j).status = "failed" => failure'[j] = "reported"
    BY <1>0, <1>6 DEF Persist, JobInv, RowInv, LoopInv, Unfinished, Loop
  <2>2. Output(j)' = Output(j) /\ \A name : LinesOf(j, name)' = LinesOf(j, name)
    BY <2>1 DEF Output, Step, Steps, LinesOf
  <2>3. CASE Output(j).status \in {"failed", "skipped"}
    <3>1. /\ pc'[j] \in {"note_failure", "note_skip"}
          /\ pc'[j] = "note_skip" <=> Output(j).status = "skipped"
      BY <2>1, <2>3 DEF AfterPersist
    <3>2. Unrecorded(j) => Unrecorded(j)'
      BY <2>1, <2>2, <2>3, <3>1 DEF Unrecorded, AfterPersist, Step, Steps
    <3>. QED
      BY <2>1, <3>1, <3>2, NotesCarried DEF BeforeNote, Fresh, Narrated
  <2>4. CASE Output(j).status \notin {"failed", "skipped"}
    <3>1. pc'[j] = "advance" /\ Quiet(Output(j))
      BY <2>1, <2>4 DEF AfterPersist, Quiet
    <3>2. at[j] \in DOMAIN Steps(j) /\ Unrecorded(j) => Explained(j, at[j])'
      BY <2>1, <2>2, <3>1 DEF Unrecorded, Explained, StepNameOf, Step, Steps, Output
    <3>. QED  BY <2>1, <3>1, <3>2, SameStory DEF NotesInv, BeforeNote, Fresh, Narrated
  <2>. QED  BY <2>3, <2>4
<1>7. CASE RecordStepFailure(j) \/ RecordStepSkip(j)
  <2>1. /\ pc[j] \in {"note_failure", "note_skip"} /\ pc'[j] \in {"score", "advance"}
        /\ UNCHANGED <<workflow, at, step_outputs>>
    BY <1>0, <1>7 DEF RecordStepFailure, RecordStepSkip
  <2>2. HasRow(j) /\ workflow[j] # None /\ at[j] \in DOMAIN Steps(j)
    BY <1>7, NoteOfStep
  <2>3. \A i \in DOMAIN Steps(j) : i # at[j] =>
           (Explained(j, i) => Explained(j, i)') /\ (Untouched(j, i) => Untouched(j, i)')
    BY <1>7, <2>1, NoteOfStep, OtherStepsKept
  <2>4. Explained(j, at[j])'
    BY <1>7, NoteExplains
  <2>5. \A i \in DOMAIN Steps(j) :
           /\ i < at[j] => Explained(j, i)
           /\ i > at[j] => Untouched(j, i)
           /\ at[j] \in Nat
    BY <1>0, <2>1, <2>2 DEF NotesInv, Narrated
  <2>6. Steps(j)' = Steps(j) /\ pc'[j] \notin Fresh \cup BeforeNote
    BY <2>1 DEF Steps, Fresh, BeforeNote
  <2>7. \A i \in DOMAIN Steps(j) : i \in Nat
    BY <1>0, <2>2, StepNames
  <2>. QED  BY <2>1, <2>3, <2>4, <2>5, <2>6, <2>7 DEF NotesInv
<1>8. CASE AdvanceStep(j)
  <2>1. /\ pc[j] = "advance" /\ pc'[j] = NextStep(j, at[j] + 1) /\ at'[j] = at[j] + 1
        /\ UNCHANGED <<workflow, step_outputs, analyses>> /\ HasRow(j) /\ workflow[j] # None
        /\ at[j] \in Nat
    BY <1>0, <1>8 DEF AdvanceStep, JobInv, RowInv, Unfinished, Loop
  <2>2. \A i \in DOMAIN Steps(j) :
           /\ i \in Nat
           /\ i <= at[j] => Explained(j, i)
           /\ i > at[j] => Untouched(j, i)
    BY <1>0, <2>1, StepNames DEF NotesInv, Narrated, BeforeNote
  <2>3. at[j] + 1 \in DOMAIN Steps(j) => pc'[j] = "load" /\ Unrecorded(j)'
    <3>. SUFFICES ASSUME at[j] + 1 \in DOMAIN Steps(j)
                  PROVE  pc'[j] = "load" /\ Unrecorded(j)'
      OBVIOUS
    <3>1. pc'[j] = "load"
      BY <1>0, <2>1, StepNames DEF NextStep
    <3>2. Untouched(j, at[j] + 1)
      BY <2>1, <2>2
    <3>. QED  BY <2>1, <3>1, <3>2 DEF Untouched, Unrecorded, Output, Step, StepNameOf, Steps, LinesOf
  <2>4. pc'[j] \in {"load", "score"}
    BY <2>1 DEF NextStep
  <2>. QED  BY <2>1, <2>2, <2>3, <2>4, SameStory DEF NotesInv, BeforeNote, Fresh
<1>9. CASE ComputeRiskScore(j) \/ FinalizeAnalysis(j) \/ Finish(j)
  <2>1. /\ pc[j] \in {"score", "finalize", "finish"}
        /\ pc'[j] \in {"finalize", "finish", "returned"}
        /\ UNCHANGED <<workflow, at, step_outputs>> /\ HasRow(j)
    BY <1>0, <1>9 DEF ComputeRiskScore, FinalizeAnalysis, Finish, JobInv, RowInv, Unfinished, Finalized
  <2>2. analyses'[j].notes = analyses[j].notes
    <3>1. analyses[j] \in AnalysisRow
      BY <1>0, <2>1 DEF HasRow
    <3>. QED  BY <1>0, <1>9, <3>1 DEF ComputeRiskScore, FinalizeAnalysis, Finish, AnalysisRow
  <2>. QED  BY <2>1, <2>2, NotesCarried DEF BeforeNote, Fresh, Narrated
<1>10. CASE ExecuteMalformed(j) \/ DatabaseError(j)
  <2>1. pc'[j] = "raised"
    BY <1>0, <1>10 DEF ExecuteMalformed, DatabaseError, Phase
  <2>. QED  BY <1>0, <2>1 DEF NotesInv, Narrated, RowInv, Fresh
<1>. QED
  BY <1>1, <1>2, <1>3, <1>4, <1>5, <1>6, <1>7, <1>8, <1>9, <1>10, HeadIsQueued DEF WorkerStep, Submit

LEMMA VerdictStep ==
    ASSUME EngineInv, NEW j \in Job, NotesInv(j), VerdictInv(j),
           WorkerStep(j) \/ \E w \in Workflow : Submit(j, w)
    PROVE  VerdictInv(j)'
<1>0. EngineTypeOK /\ JobInv(j) /\ RowInv(j)'
  BY RowStep DEF EngineInv
<1>. USE DEF EngineTypeOK, GoTo, worker, database
<1>1. CASE pc[j] \in {"idle", "queued"}
  <2>1. /\ UNCHANGED <<analyses, aborted, monitor, at>> /\ analyses[j] = None
        /\ pc'[j] \in {"queued", "create"}
    BY <1>0, <1>1, HeadIsQueued DEF JobInv, RowInv, Fresh, Submit, WorkerStep, PickUp,
       CreateAnalysisRow, Register, Instantiate, InstantiateFails, Execute, ExecuteRaises,
       ExecuteMalformed, Persist, RecordStepFailure, RecordStepSkip, AdvanceStep,
       ComputeRiskScore, FinalizeAnalysis, Finish, DatabaseError, InTransaction
  <2>. QED  BY <1>1, <2>1 DEF VerdictInv, Narrated, HasRow, Fresh
<1>2. CASE CreateAnalysisRow(j)
  <2>1. /\ pc[j] = "create" /\ pc'[j] = "register" /\ ~aborted[j]
        /\ UNCHANGED <<at, aborted, monitor>>
    BY <1>0, <1>2 DEF CreateAnalysisRow, VerdictInv, Fresh
  <2>2. analyses'[j].notes = <<>>
    BY <1>0, <1>2 DEF CreateAnalysisRow
  <2>3. \A i : ~FailedRequired(j, i)'
    BY <2>2 DEF FailedRequired, LinesOf
  <2>. QED  BY <2>1, <2>3 DEF VerdictInv
<1>3. CASE Register(j)
  <2>1. /\ pc[j] = "register" /\ pc'[j] = NextStep(j, 1) /\ at[j] = 1 /\ ~aborted[j]
        /\ UNCHANGED <<workflow, at, step_outputs, analyses, aborted>>
        /\ workflow[j] # None /\ HasRow(j)
        /\ monitor'[j] = [completed_steps |-> 0, status |-> "running"]
    BY <1>0, <1>3 DEF Register, JobInv, RowInv, LoopInv, VerdictInv, Unfinished, Fresh
  <2>2. pc'[j] = "score" => at[j] = Len(Steps(j)) + 1
    <3>1. Len(Steps(j)) \in Nat
      BY <1>0, <2>1, StepNames
    <3>. QED  BY <2>1, <3>1 DEF NextStep
  <2>3. pc'[j] \in {"load", "score"}
    BY <2>1 DEF NextStep
  <2>. QED  BY <2>1, <2>2, <2>3, SameStory DEF VerdictInv, Narrated
<1>4. CASE Instantiate(j) \/ InstantiateFails(j) \/ ExecuteRaises(j) \/ Persist(j)
  <2>1. /\ pc[j] \in {"load", "run", "persist"}
        /\ pc'[j] \in {"run", "note_failure", "note_skip", "advance"}
        /\ UNCHANGED <<workflow, at, step_outputs, analyses, aborted, monitor>>
        /\ HasRow(j)
    BY <1>0, <1>4 DEF Instantiate, InstantiateFails, ExecuteRaises, Persist, AfterPersist,
       JobInv, RowInv, Unfinished, Loop
  <2>. QED  BY <2>1, SameStory DEF VerdictInv, Narrated, Loop
<1>5. CASE Execute(j)
  <2>1. /\ pc[j] = "run" /\ pc'[j] = "persist" /\ HasRow(j)
        /\ UNCHANGED <<workflow, at, analyses, aborted, monitor>>
    BY <1>0, <1>5 DEF Execute, JobInv, RowInv, Unfinished, Loop
  <2>2. Steps(j)' = Steps(j) /\ \A i : FailedRequired(j, i)' <=> FailedRequired(j, i)
    BY <2>1 DEF Steps, LinesOf, FailedRequired
  <2>. QED  BY <2>1, <2>2 DEF VerdictInv, Narrated, Loop
<1>6. CASE RecordStepFailure(j) \/ RecordStepSkip(j)
  <2>1. /\ pc[j] \in {"note_failure", "note_skip"} /\ UNCHANGED <<at, workflow, monitor>>
        /\ RecordStepFailure(j) => /\ aborted'[j] = Step(j).required
                                   /\ pc'[j] = IF Step(j).required THEN "score" ELSE "advance"
        /\ RecordStepSkip(j) => ~aborted'[j] /\ pc'[j] = "advance"
    BY <1>0, <1>6 DEF RecordStepFailure, RecordStepSkip, VerdictInv, Loop
  <2>2. /\ HasRow(j) /\ workflow[j] # None /\ at[j] \in DOMAIN Steps(j)
        /\ UNCHANGED <<workflow, step_outputs>> /\ at[j] <= Len(Steps(j))
        /\ ~aborted[j] /\ Step(j).required \in BOOLEAN
    <3>1. Step(j) \in StepDefinition
      BY <1>0, <2>1, LoopStep DEF Loop
    <3>. QED
      BY <1>0, <1>6, <2>1, <3>1, NoteOfStep DEF JobInv, LoopInv, VerdictInv, Loop, StepDefinition
  <2>3. \A i \in DOMAIN Steps(j) : i # at[j] => ~FailedRequired(j, i)'
    <3>1. \A i \in DOMAIN Steps(j) : ~FailedRequired(j, i)
      BY <2>1, <2>2 DEF VerdictInv, Narrated
    <3>. QED  BY <1>6, <2>2, <3>1, NoteOfStep, OtherStepsKept
  <2>4. FailedRequired(j, at[j])' <=> RecordStepFailure(j) /\ Step(j).required
    <3>1. PICK note \in Note :
            /\ note.step = Step(j).name /\ AddNote(j, note)
            /\ RecordStepFailure(j) => note.kind = "FAILED"
            /\ RecordStepSkip(j) => note.kind = "SKIPPED"
      BY <1>6, NoteOfStep
    <3>2. PICK n : n = Len(analyses[j].notes) + 1
      OBVIOUS
    <3>3. LinesOf(j, Step(j).name) = {}
      BY <2>1, <2>2 DEF NotesInv, Narrated, BeforeNote, Unrecorded
    <3>4. Step(j).name' = Step(j).name /\ Steps(j)' = Steps(j)
      BY <2>1 DEF Step, Steps
    <3>5. analyses'[j].notes[n] = note /\ LinesOf(j, Step(j).name)' = {n}
      BY <2>2, <3>1, <3>2, <3>3, <3>4, NoteAdded DEF LinesOf
    <3>6. ~(RecordStepFailure(j) /\ RecordStepSkip(j))
      BY DEF RecordStepFailure, RecordStepSkip
    <3>. QED
      BY <1>6, <2>1, <2>2, <3>1, <3>4, <3>5, <3>6 DEF FailedRequired, Step
  <2>5. Steps(j)' = Steps(j)
    BY <2>1 DEF Steps
  <2>6. monitor[j] # None => monitor[j].completed_steps = at[j] - 1
    BY DEF VerdictInv
  <2>7. ~RecordStepFailure(j) => RecordStepSkip(j)
    BY <1>6
  <2>8. \A i \in DOMAIN Steps(j) : FailedRequired(j, i)' <=> aborted'[j] /\ i = at[j]
    BY <2>1, <2>3, <2>4, <2>7
  <2>9. pc'[j] \in {"score", "finalize", "finish", "returned", "lost"} => aborted'[j]
    BY <2>1, <2>7
  <2>10. pc'[j] \in Fresh \cup {"register"} \cup Loop => ~aborted'[j]
    BY <2>1, <2>2, <2>7 DEF Fresh, Loop
  <2>. QED  BY <2>1, <2>2, <2>5, <2>6, <2>8, <2>9, <2>10 DEF VerdictInv
<1>7. CASE AdvanceStep(j)
  <2>1. /\ pc[j] = "advance" /\ pc'[j] = NextStep(j, at[j] + 1) /\ at'[j] = at[j] + 1
        /\ UNCHANGED <<workflow, step_outputs, analyses, aborted>>
        /\ HasRow(j) /\ workflow[j] # None /\ ~aborted[j]
        /\ at[j] \in Nat /\ at[j] <= Len(Steps(j))
    BY <1>0, <1>7 DEF AdvanceStep, JobInv, RowInv, LoopInv, VerdictInv, Unfinished, Loop
  <2>2. monitor'[j].completed_steps = monitor[j].completed_steps + 1
          /\ monitor[j] # None /\ monitor[j] \in JobProgress
    <3>1. monitor[j] # None /\ monitor[j] \in JobProgress
      BY <1>0, <2>1 DEF JobInv, MonitorInv, Monitored, Loop
    <3>. QED  BY <1>0, <1>7, <3>1 DEF AdvanceStep, JobProgress
  <2>3. monitor'[j].completed_steps = at'[j] - 1
    BY <2>1, <2>2 DEF VerdictInv, JobProgress
  <2>4. pc'[j] = "score" => at'[j] = Len(Steps(j)) + 1
    <3>1. Len(Steps(j)) \in Nat
      BY <1>0, <2>1, StepNames
    <3>. QED  BY <2>1, <3>1 DEF NextStep
  <2>5. pc'[j] \in {"load", "score"}
    BY <2>1 DEF NextStep
  <2>6. \A i \in DOMAIN Steps(j) : ~FailedRequired(j, i)
    BY <2>1 DEF VerdictInv, Narrated
  <2>. QED  BY <2>1, <2>3, <2>4, <2>5, <2>6, SameStory DEF VerdictInv
<1>8. CASE ComputeRiskScore(j) \/ FinalizeAnalysis(j) \/ Finish(j)
  <2>1. /\ pc[j] \in {"score", "finalize", "finish"}
        /\ pc'[j] \in {"finalize", "finish", "returned"}
        /\ UNCHANGED <<workflow, at, step_outputs, aborted>> /\ HasRow(j)
    BY <1>0, <1>8 DEF ComputeRiskScore, FinalizeAnalysis, Finish, JobInv, RowInv, Unfinished, Finalized
  <2>2. analyses'[j].notes = analyses[j].notes
    <3>1. analyses[j] \in AnalysisRow
      BY <1>0, <2>1 DEF HasRow
    <3>. QED  BY <1>0, <1>8, <3>1 DEF ComputeRiskScore, FinalizeAnalysis, Finish, AnalysisRow
  <2>3. monitor'[j] # None => monitor'[j].completed_steps = at[j] - 1
    <3>1. monitor[j] # None /\ monitor[j] \in JobProgress
      BY <1>0, <2>1 DEF JobInv, MonitorInv, Monitored
    <3>2. monitor'[j].completed_steps = monitor[j].completed_steps
      BY <1>0, <1>8, <3>1 DEF ComputeRiskScore, FinalizeAnalysis, Finish, JobProgress
    <3>. QED  BY <3>1, <3>2 DEF VerdictInv
  <2>4. /\ Steps(j)' = Steps(j)
        /\ \A i : FailedRequired(j, i)' <=> FailedRequired(j, i)
    BY <2>1, <2>2, SameStory
  <2>. QED  BY <2>1, <2>3, <2>4 DEF VerdictInv, Narrated, Fresh, Loop
<1>9. CASE ExecuteMalformed(j) \/ DatabaseError(j)
  <2>1. pc'[j] = "raised" /\ UNCHANGED <<monitor, at>>
    BY <1>0, <1>9 DEF ExecuteMalformed, DatabaseError, Phase
  <2>. QED  BY <1>0, <2>1 DEF VerdictInv, Narrated, RowInv, Fresh, Loop
<1>. QED
  BY <1>1, <1>2, <1>3, <1>4, <1>5, <1>6, <1>7, <1>8, <1>9, HeadIsQueued DEF WorkerStep, Submit

-----------------------------------------------------------------------------
\* Sets of naturals have a least member; the smallest counterexample is one.
LEMMA LeastOf ==
    ASSUME NEW T, T \subseteq Nat, T # {}
    PROVE  \E m \in T : \A k \in T : m <= k
<1>. DEFINE R == OpToRel(<, Nat)
<1>1. IsWellFoundedOn(R, Nat)
  BY NatLessThanWellFounded
<1>2. \A x, y \in Nat : <<y, x>> \in R <=> y < x
  BY DEF OpToRel
<1>. HIDE DEF R
<1>3. PICK m \in T : \A y \in T : ~(<<y, m>> \in R)
  BY <1>1, WFMin
<1>4. \A k \in T : ~(k < m)
  BY <1>2, <1>3
<1>. QED  BY <1>4

\* Among the findings with one key there is a first one.
LEMMA FirstOccurrence ==
    ASSUME NEW fs \in Seq(Finding), NEW i \in DOMAIN fs
    PROVE  \E m \in DOMAIN fs :
              fs[m].key = fs[i].key /\ \A k \in DOMAIN fs : k < m => fs[k].key # fs[i].key
<1>. DEFINE T == {k \in DOMAIN fs : fs[k].key = fs[i].key}
<1>1. T \subseteq Nat /\ T # {}
  OBVIOUS
<1>2. PICK m \in T : \A k \in T : m <= k
  <2>. HIDE DEF T
  <2>. QED  BY <1>1, LeastOf
<1>. QED  BY <1>1, <1>2

\* persist stores every key of the output, each in one row.
LEMMA KeysOfNewRows ==
    ASSUME NEW rows, NEW output \in PluginOutput, NEW name
    PROVE  /\ \A i \in DOMAIN output.findings :
                 output.findings[i].key \in KeysOf(rows \cup NewRows(rows, output, name))
           /\ \A r \in NewRows(rows, output, name) :
                 /\ r.key \notin KeysOf(rows) /\ r.step = name
                 /\ r.nth \in DOMAIN output.findings
                 /\ output.findings[r.nth] = [key |-> r.key, severity |-> r.severity]
           /\ \A r, q \in NewRows(rows, output, name) : r.key = q.key => r = q
<1>. DEFINE fs == output.findings
            kept == {i \in DOMAIN fs :
                        /\ fs[i].key \notin KeysOf(rows)
                        /\ \A k \in DOMAIN fs : k < i => fs[k].key # fs[i].key}
            Row(i) == [key |-> fs[i].key, severity |-> fs[i].severity, step |-> name, nth |-> i]
<1>1. fs \in Seq(Finding)
  BY PluginAssumption
<1>2. NewRows(rows, output, name) = {Row(i) : i \in kept}
  BY DEF NewRows
<1>3. \A i \in DOMAIN fs : i \in Nat /\ fs[i] = [key |-> fs[i].key, severity |-> fs[i].severity]
  <2>1. \A i \in DOMAIN fs : i \in Nat /\ fs[i] \in Finding
    BY <1>1
  <2>2. \A f \in Finding : f = [key |-> f.key, severity |-> f.severity]
    BY DEF Finding
  <2>. QED  BY <2>1, <2>2
<1>4. ASSUME NEW i \in DOMAIN fs
      PROVE  fs[i].key \in KeysOf(rows \cup NewRows(rows, output, name))
  <2>1. PICK m \in DOMAIN fs :
            fs[m].key = fs[i].key /\ \A k \in DOMAIN fs : k < m => fs[k].key # fs[i].key
    BY <1>1, FirstOccurrence
  <2>2. CASE fs[i].key \in KeysOf(rows)
    BY <2>2 DEF KeysOf
  <2>3. CASE fs[i].key \notin KeysOf(rows)
    <3>1. m \in kept
      BY <2>1, <2>3
    <3>2. Row(m) \in NewRows(rows, output, name) /\ Row(m).key = fs[i].key
      BY <1>2, <2>1, <3>1
    <3>. QED  BY <3>2 DEF KeysOf
  <2>. QED  BY <2>2, <2>3
<1>5. ASSUME NEW i \in kept, NEW k \in kept, fs[i].key = fs[k].key
      PROVE  i = k
  <2>1. i \in Nat /\ k \in Nat /\ ~(i < k) /\ ~(k < i)
    BY <1>3, <1>5
  <2>. QED  BY <2>1
<1>6. \A r \in NewRows(rows, output, name) : \E i \in kept : r = Row(i)
  BY <1>2
<1>. HIDE DEF kept
<1>7. \A i \in kept : i \in DOMAIN fs /\ fs[i].key \notin KeysOf(rows)
  BY DEF kept
<1>8. ASSUME NEW r \in NewRows(rows, output, name)
      PROVE  /\ r.key \notin KeysOf(rows) /\ r.step = name
             /\ r.nth \in DOMAIN fs /\ fs[r.nth] = [key |-> r.key, severity |-> r.severity]
  BY <1>3, <1>6, <1>7
<1>9. ASSUME NEW r \in NewRows(rows, output, name), NEW q \in NewRows(rows, output, name),
             r.key = q.key
      PROVE  r = q
  BY <1>5, <1>6, <1>9
<1>. QED  BY <1>4, <1>8, <1>9

LEMMA FindingsStep ==
    ASSUME EngineInv, NEW j \in Job, NotesInv(j), FindingsInv(j),
           WorkerStep(j) \/ \E w \in Workflow : Submit(j, w)
    PROVE  FindingsInv(j)'
<1>0. EngineTypeOK /\ JobInv(j)
  BY DEF EngineInv
<1>. USE DEF EngineTypeOK, GoTo, worker, database
<1>1. CASE Execute(j)
  <2>1. /\ pc[j] = "run" /\ pc'[j] = "persist" /\ HasRow(j) /\ UNCHANGED <<workflow, at, findings>>
    BY <1>0, <1>1 DEF Execute, JobInv, RowInv, Unfinished, Loop
  <2>2. workflow[j] # None /\ Step(j) \in StepDefinition /\ at[j] \in DOMAIN Steps(j)
    BY <1>0, <2>1, LoopStep, NoneAssumption, StepNames DEF JobInv, LoopInv, Loop
  <2>3. Output(j) = None
    BY <2>1, <2>2 DEF NotesInv, Narrated, BeforeNote, Unrecorded
  <2>4. \A name \in StepName \ {Step(j).name} : step_outputs'[j][name] = step_outputs[j][name]
    BY <1>0, <1>1, <2>2 DEF Execute, StepDefinition
  <2>5. RowsFromOutputs(j)'
    <3>. SUFFICES ASSUME NEW r \in findings[j]
                  PROVE  step_outputs'[j][r.step] = step_outputs[j][r.step]
      BY <2>1 DEF FindingsInv, RowsFromOutputs
    <3>1. r.step \in StepName /\ step_outputs[j][r.step] # None
      <4>1. r \in FindingRow
        BY <1>0
      <4>. QED  BY <4>1 DEF FindingRow, FindingsInv, RowsFromOutputs
    <3>. QED  BY <2>3, <2>4, <3>1 DEF Output
  <2>6. KeysStored(j)'
    <3>. SUFFICES ASSUME NEW name \in StepName \ {Step(j).name}, step_outputs[j][name] # None,
                         NEW i \in DOMAIN step_outputs[j][name].findings
                  PROVE  step_outputs[j][name].findings[i].key \in KeysOf(findings[j])
      BY <2>1, <2>4 DEF KeysStored, PersistPending, Step, Steps
    <3>. QED  BY <2>1 DEF FindingsInv, KeysStored, PersistPending
  <2>. QED  BY <2>1, <2>5, <2>6 DEF FindingsInv, RowsUnique, Fresh
<1>2. CASE Persist(j)
  <2>. DEFINE new == NewRows(findings[j], Output(j), Step(j).name)
  <2>1. /\ pc[j] = "persist" /\ pc'[j] = AfterPersist(Output(j).status)
        /\ UNCHANGED <<workflow, at, step_outputs>>
        /\ findings'[j] = findings[j] \cup new
        /\ Output(j) # None
    BY <1>0, <1>2 DEF Persist, JobInv, LoopInv
  <2>2. Step(j).name \in StepName /\ Output(j) \in PluginOutput
    BY <1>0, <2>1, LoopStep DEF StepDefinition, Output, Loop
  <2>3. /\ \A i \in DOMAIN Output(j).findings : Output(j).findings[i].key \in KeysOf(findings'[j])
        /\ \A r \in new :
                 /\ r.key \notin KeysOf(findings[j]) /\ r.step = Step(j).name
                 /\ r.nth \in DOMAIN Output(j).findings
                 /\ Output(j).findings[r.nth] = [key |-> r.key, severity |-> r.severity]
        /\ \A r, q \in new : r.key = q.key => r = q
    BY <2>1, <2>2, KeysOfNewRows
  <2>. HIDE DEF new
  <2>4. RowsUnique(j)'
    <3>1. \A r \in findings[j], q \in new : r.key # q.key
      <4>1. \A r \in findings[j] : r.key \in KeysOf(findings[j])
        BY DEF KeysOf
      <4>. QED  BY <2>3, <4>1
    <3>2. RowsUnique(j)
      BY DEF FindingsInv
    <3>. QED  BY <2>1, <2>3, <3>1, <3>2 DEF RowsUnique
  <2>5. RowsFromOutputs(j)'
    BY <2>1, <2>3 DEF FindingsInv, RowsFromOutputs, Output
  <2>6. KeysStored(j)'
    <3>1. \A key \in KeysOf(findings[j]) : key \in KeysOf(findings'[j])
      BY <2>1 DEF KeysOf
    <3>. SUFFICES ASSUME NEW name \in StepName, step_outputs[j][name] # None,
                         NEW i \in DOMAIN step_outputs[j][name].findings
                  PROVE  step_outputs[j][name].findings[i].key \in KeysOf(findings'[j])
      BY <2>1 DEF KeysStored
    <3>2. CASE name = Step(j).name
      BY <2>3, <3>2 DEF Output
    <3>3. CASE name # Step(j).name
      BY <2>1, <3>1, <3>3 DEF FindingsInv, KeysStored, PersistPending
    <3>. QED  BY <3>2, <3>3
  <2>. QED  BY <2>1, <2>4, <2>5, <2>6 DEF FindingsInv, Fresh, AfterPersist
<1>3. CASE ~Execute(j) /\ ~Persist(j)
  <2>1. /\ step_outputs'[j] = step_outputs[j] /\ findings'[j] = findings[j]
        /\ pc'[j] \in Fresh => pc[j] \in Fresh
        /\ pc'[j] # "persist"
        /\ pc[j] = "persist" \/ pc[j] \in {"raised", "lost"} => pc'[j] \in {"raised", "lost"}
    BY <1>0, <1>3, HeadIsQueued DEF Fresh, NextStep, Submit, WorkerStep, PickUp,
       CreateAnalysisRow, Register, Instantiate, InstantiateFails, ExecuteRaises,
       ExecuteMalformed, RecordStepFailure, RecordStepSkip, AdvanceStep, ComputeRiskScore,
       FinalizeAnalysis, Finish, DatabaseError, InTransaction
  <2>. QED
    BY <2>1 DEF FindingsInv, RowsUnique, RowsFromOutputs, KeysStored, PersistPending
<1>. QED  BY <1>1, <1>2, <1>3

-----------------------------------------------------------------------------
StoryOf(j) == NotesInv(j) /\ VerdictInv(j) /\ FindingsInv(j)

LEMMA StoryKept ==
    ASSUME NEW k \in Job, StoryOf(k), EntriesKept(k)
    PROVE  StoryOf(k)'
<1>1. /\ Steps(k)' = Steps(k) /\ Step(k)' = Step(k) /\ Output(k)' = Output(k)
      /\ \A name : LinesOf(k, name)' = LinesOf(k, name)
      /\ Narrated(k)' <=> Narrated(k)
  BY DEF EntriesKept, Steps, Step, Output, LinesOf, Narrated, HasRow, Finalized
<1>2. /\ \A i : Explained(k, i)' <=> Explained(k, i)
      /\ \A i : Untouched(k, i)' <=> Untouched(k, i)
      /\ \A i : FailedRequired(k, i)' <=> FailedRequired(k, i)
  BY SameStory DEF EntriesKept
<1>3. NotesInv(k)'
  BY <1>1, <1>2 DEF EntriesKept, StoryOf, NotesInv, Unrecorded
<1>4. VerdictInv(k)'
  BY <1>1, <1>2 DEF EntriesKept, StoryOf, VerdictInv
<1>5. FindingsInv(k)'
  BY <1>1 DEF EntriesKept, StoryOf, FindingsInv, RowsUnique, RowsFromOutputs, KeysStored, PersistPending
<1>. QED  BY <1>3, <1>4, <1>5 DEF StoryOf

\* A kill ends the threads where they are; finished rows keep their story.
LEMMA StoryOutlivesKill ==
    ASSUME EngineInv, NEW k \in Job, StoryOf(k), Kill
    PROVE  StoryOf(k)'
<1>1. /\ monitor'[k] = None /\ pc'[k] = IF pc[k] = "idle" THEN "idle" ELSE "lost"
      /\ UNCHANGED <<workflow, at, step_outputs, failure, aborted, score, analyses, findings>>
  BY DEF Kill, EngineInv, EngineTypeOK, database
<1>2. JobInv(k)
  BY DEF EngineInv
<1>3. CASE pc[k] = "idle"
  <2>1. analyses[k] = None
    BY <1>2, <1>3 DEF JobInv, RowInv, Fresh
  <2>. QED
    BY <1>1, <1>3, <2>1 DEF StoryOf, NotesInv, VerdictInv, FindingsInv, RowsUnique, RowsFromOutputs,
       KeysStored, PersistPending, Narrated, HasRow, Fresh, Step, Steps
<1>4. CASE pc[k] # "idle"
  <2>1. Narrated(k)' => Narrated(k) /\ pc[k] \in {"finish", "returned", "lost"}
    BY <1>1, <1>2, <1>4 DEF Narrated, Finalized, HasRow, JobInv, RowInv
  <2>2. /\ Steps(k)' = Steps(k)
        /\ \A i : Explained(k, i)' <=> Explained(k, i)
        /\ \A i : Untouched(k, i)' <=> Untouched(k, i)
        /\ \A i : FailedRequired(k, i)' <=> FailedRequired(k, i)
    BY <1>1, SameStory
  <2>3. NotesInv(k)'
    BY <1>1, <1>4, <2>1, <2>2 DEF StoryOf, NotesInv, Fresh, BeforeNote
  <2>4. VerdictInv(k)'
    BY <1>1, <1>4, <2>1, <2>2 DEF StoryOf, VerdictInv, Fresh, Loop
  <2>5. FindingsInv(k)'
    BY <1>1, <1>4 DEF StoryOf, FindingsInv, RowsUnique, RowsFromOutputs, KeysStored, Fresh
  <2>. QED  BY <2>3, <2>4, <2>5 DEF StoryOf
<1>. QED  BY <1>3, <1>4

LEMMA StoryInit == EngineInit => \A j \in Job : StoryOf(j)
<1>. SUFFICES ASSUME EngineInit, NEW j \in Job PROVE StoryOf(j)
  OBVIOUS
<1>1. /\ pc[j] = "idle" /\ analyses[j] = None /\ monitor[j] = None /\ findings[j] = {}
      /\ ~aborted[j] /\ \A name \in StepName : step_outputs[j][name] = None
  BY DEF EngineInit
<1>. QED
  BY <1>1 DEF StoryOf, NotesInv, VerdictInv, FindingsInv, RowsUnique, RowsFromOutputs, KeysStored,
              Narrated, HasRow

LEMMA StoryStep ==
    ASSUME EngineInv, [EngineNext]_engineVars, NEW k \in Job, StoryOf(k)
    PROVE  StoryOf(k)'
<1>1. ASSUME NEW j \in Job, WorkerStep(j) \/ \E w \in Workflow : Submit(j, w)
      PROVE  StoryOf(k)'
  <2>1. CASE j = k
    BY <1>1, <2>1, NotesStep, VerdictStep, FindingsStep DEF StoryOf
  <2>2. CASE j # k
    BY <1>1, <2>2, OthersKept, StoryKept DEF EngineInv
  <2>. QED  BY <2>1, <2>2
<1>2. CASE \E p \in PluginId : SetEnabled(p)
  BY <1>2, StoryKept DEF SetEnabled, worker, EntriesKept
<1>3. CASE UNCHANGED engineVars
  BY <1>3, StoryKept DEF engineVars, worker, database, EntriesKept
<1>. QED  BY <1>1, <1>2, <1>3, StoryOutlivesKill DEF EngineNext

StoryInv == EngineInv /\ \A j \in Job : StoryOf(j)

LEMMA StoryInvariance == EngineSpec => []StoryInv
<1>1. EngineInit => StoryInv
  BY EngineInvInit, StoryInit DEF StoryInv
<1>2. StoryInv /\ [EngineNext]_engineVars => StoryInv'
  BY EngineInvStep, StoryStep DEF StoryInv
<1>. QED  BY <1>1, <1>2, PTL DEF EngineSpec

\* The story of a row that was left RUNNING, where the thread dropped it.
LeftBehind(j) ==
    HasRow(j) /\ ~Narrated(j) =>
        \A i \in DOMAIN Steps(j) :
            /\ i < at[j] => Explained(j, i)
            /\ i > at[j] => Untouched(j, i)
            /\ i = at[j] => LinesOf(j, StepNameOf(j, i)) = {} \/ Explained(j, i)

LeftInv == StoryInv /\ \A j \in Job : LeftBehind(j)

\* A narrated row is no worse than one left behind.
LEMMA NarratedIsLeft ==
    ASSUME StoryInv, NEW j \in Job, Narrated(j), NEW i \in DOMAIN Steps(j)
    PROVE  /\ i < at[j] => Explained(j, i)
           /\ i > at[j] => Untouched(j, i)
           /\ i = at[j] => LinesOf(j, StepNameOf(j, i)) = {} \/ Explained(j, i)
<1>1. NotesInv(j)
  BY DEF StoryInv, StoryOf
<1>2. i = at[j] => Step(j).name = StepNameOf(j, i)
  BY DEF Step, StepNameOf
<1>. QED  BY <1>1, <1>2 DEF NotesInv, Unrecorded

LEMMA LeftStep ==
    ASSUME LeftInv, [EngineNext]_engineVars, NEW k \in Job
    PROVE  LeftBehind(k)'
<1>0. StoryInv /\ EngineInv /\ LeftBehind(k)
  BY DEF LeftInv, StoryInv
<1>1. ASSUME UNCHANGED <<workflow[k], at[k], step_outputs[k], analyses[k]>>
      PROVE  LeftBehind(k)'
  <2>1. /\ Steps(k)' = Steps(k) /\ HasRow(k)' = HasRow(k)
        /\ \A i : /\ StepNameOf(k, i)' = StepNameOf(k, i)
                  /\ Explained(k, i)' = Explained(k, i)
                  /\ Untouched(k, i)' = Untouched(k, i)
        /\ \A name : LinesOf(k, name)' = LinesOf(k, name)
    BY <1>1 DEF Steps, HasRow, StepNameOf, Explained, Untouched, LinesOf
  <2>. QED  BY <1>0, <1>1, <2>1, NarratedIsLeft DEF LeftBehind
<1>2. ASSUME NEW j \in Job, j # k, WorkerStep(j) \/ \E w \in Workflow : Submit(j, w)
      PROVE  LeftBehind(k)'
  BY <1>0, <1>1, <1>2, OthersKept DEF EntriesKept, EngineInv
<1>3. CASE WorkerStep(k) \/ \E w \in Workflow : Submit(k, w)
  <2>1. CASE ExecuteMalformed(k) \/ DatabaseError(k)
    BY <1>1, <2>1 DEF ExecuteMalformed, DatabaseError, database
  <2>2. CASE ~(ExecuteMalformed(k) \/ DatabaseError(k))
    <3>1. pc'[k] \notin {"raised", "lost"}
      BY <1>0, <1>3, <2>2, HeadIsQueued DEF EngineInv, EngineTypeOK, GoTo, WorkerStep, Submit, PickUp,
         CreateAnalysisRow, Register, NextStep, Instantiate, InstantiateFails, Execute, ExecuteRaises,
         Persist, AfterPersist, RecordStepFailure, RecordStepSkip, AdvanceStep, ComputeRiskScore,
         FinalizeAnalysis, Finish
    <3>. QED  BY <3>1 DEF LeftBehind, Narrated
  <2>. QED  BY <2>1, <2>2
<1>4. CASE Kill \/ (\E p \in PluginId : SetEnabled(p)) \/ UNCHANGED engineVars
  BY <1>1, <1>4 DEF Kill, SetEnabled, engineVars, worker, database
<1>. QED  BY <1>2, <1>3, <1>4 DEF EngineNext

LEMMA LeftInvariance == EngineSpec => []LeftInv
<1>1. EngineInit => \A j \in Job : LeftBehind(j)
  BY DEF EngineInit, LeftBehind, HasRow
<1>2. LeftInv /\ [EngineNext]_engineVars => (\A j \in Job : LeftBehind(j))'
  BY LeftStep
<1>. QED  BY <1>1, <1>2, StoryInvariance, PTL DEF EngineSpec, LeftInv

(***************************************************************************)
(* A row, finished, under way or left RUNNING, explains every step of its  *)
(* workflow, whatever the plugins did and wherever the loop was left.      *)
(***************************************************************************)
THEOREM StepsExplained == EngineSpec => []StepsAccountedFor
<1>1. LeftInv => StepsAccountedFor
  <2>. SUFFICES ASSUME LeftInv, NEW j \in Job, HasRow(j), NEW i \in DOMAIN Steps(j)
                PROVE  /\ i > at[j] => Untouched(j, i)
                       /\ i = at[j] => LinesOf(j, StepNameOf(j, i)) = {} \/ Explained(j, i)
                       /\ i < at[j] \/ (i = at[j] /\ Finalized(j)) => Explained(j, i)
    BY DEF StepsAccountedFor, Untouched, StepNameOf
  <2>1. CASE ~Narrated(j)
    BY <2>1 DEF LeftInv, LeftBehind, Narrated
  <2>2. CASE Narrated(j)
    <3>1. Finalized(j) => pc[j] \notin BeforeNote
      BY DEF LeftInv, StoryInv, EngineInv, JobInv, RowInv, Finalized, BeforeNote, Fresh
    <3>2. NotesInv(j)
      BY DEF LeftInv, StoryInv, StoryOf
    <3>. QED  BY <2>2, <3>1, <3>2, NarratedIsLeft DEF LeftInv, NotesInv
  <2>. QED  BY <2>1, <2>2
<1>. QED  BY <1>1, LeftInvariance, PTL

(***************************************************************************)
(* An analysis is "completed" exactly when the loop ran to its end and no  *)
(* required step failed, and the progress reaches 100 percent only then.   *)
(***************************************************************************)
THEOREM VerdictCorrect == EngineSpec => []VerdictMatchesSteps
<1>1. StoryInv => VerdictMatchesSteps
  <2>. SUFFICES ASSUME StoryInv, NEW j \in Job, Finalized(j)
                PROVE  /\ \A i \in DOMAIN Steps(j) :
                             FailedRequired(j, i) <=> analyses[j].status = "failed" /\ i = at[j]
                       /\ analyses[j].status = "completed" <=> at[j] = Len(Steps(j)) + 1
                       /\ monitor[j] # None =>
                             (monitor[j].completed_steps = Len(Steps(j))
                                <=> analyses[j].status = "completed")
    BY DEF VerdictMatchesSteps
  <2>1. /\ Narrated(j) /\ pc[j] \in {"finish", "returned", "lost"} /\ workflow[j] # None
        /\ analyses[j].status = FinalStatus(j) /\ VerdictInv(j)
    BY DEF StoryInv, StoryOf, EngineInv, JobInv, RowInv, Narrated, Finalized, Fresh
  <2>2. Len(Steps(j)) \in Nat /\ at[j] \in Nat /\ aborted[j] \in BOOLEAN
    BY <2>1, StepNames DEF StoryInv, EngineInv, EngineTypeOK
  <2>3. IF aborted[j] THEN at[j] <= Len(Steps(j)) ELSE at[j] = Len(Steps(j)) + 1
    BY <2>1 DEF VerdictInv
  <2>4. analyses[j].status = "completed" <=> at[j] = Len(Steps(j)) + 1
    BY <2>1, <2>2, <2>3 DEF FinalStatus
  <2>5. \A i \in DOMAIN Steps(j) :
            FailedRequired(j, i) <=> analyses[j].status = "failed" /\ i = at[j]
    BY <2>1, <2>2 DEF FinalStatus, VerdictInv
  <2>6. monitor[j] # None => monitor[j].completed_steps = at[j] - 1
    BY <2>1 DEF VerdictInv
  <2>. QED  BY <2>2, <2>4, <2>5, <2>6
<1>. QED  BY <1>1, StoryInvariance, PTL

(***************************************************************************)
(* Deduplication loses no location and stores none twice, across steps and *)
(* within one output.                                                      *)
(***************************************************************************)
THEOREM FindingsCorrect == EngineSpec => []FindingsFaithful
<1>1. StoryInv => FindingsFaithful
  BY DEF StoryInv, StoryOf, FindingsInv, RowsUnique, RowsFromOutputs, KeysStored, FindingsFaithful
<1>. QED  BY <1>1, StoryInvariance, PTL

-----------------------------------------------------------------------------
(***************************************************************************)
(* What the LAST RUN card makes of the notes.  For that they may name no   *)
(* step but those of the workflow, and a count of no rows must mean that   *)
(* there is none.                                                          *)
(***************************************************************************)
CountedInv(j) ==
    /\ IsFiniteSet(findings[j])
    /\ \A r \in findings[j] : \E i \in DOMAIN Steps(j) : StepNameOf(j, i) = r.step
    /\ HasRow(j) => \A n \in DOMAIN analyses[j].notes :
          \E i \in DOMAIN Steps(j) : StepNameOf(j, i) = analyses[j].notes[n].step

LEMMA NewRowsFinite ==
    ASSUME NEW output \in PluginOutput, NEW rows, NEW name
    PROVE  IsFiniteSet(NewRows(rows, output, name))
<1>. DEFINE fs == output.findings
            kept == {i \in DOMAIN fs :
                       /\ fs[i].key \notin KeysOf(rows)
                       /\ \A k \in DOMAIN fs : k < i => fs[k].key # fs[i].key}
            row == [i \in kept |-> [key |-> fs[i].key, severity |-> fs[i].severity,
                                    step |-> name, nth |-> i]]
<1>1. DOMAIN fs = 1..Len(fs) /\ Len(fs) \in Int
  BY PluginAssumption
<1>2. IsFiniteSet(kept)
  <2>1. IsFiniteSet(1..Len(fs)) /\ kept \in SUBSET (1..Len(fs))
    BY <1>1, FS_Interval
  <2>. QED  BY <2>1, FS_Subset
<1>3. NewRows(rows, output, name) = {row[i] : i \in kept} /\ row \in [kept -> {row[i] : i \in kept}]
  BY DEF NewRows
<1>. HIDE DEF kept, row
<1>4. row \in Surjection(kept, {row[i] : i \in kept})
  BY <1>3 DEF Surjection
<1>. QED  BY <1>2, <1>3, <1>4, FS_Surjection

LEMMA CountedStep ==
    ASSUME EngineInv, NEW j \in Job, FindingsInv(j), CountedInv(j),
           WorkerStep(j) \/ \E w \in Workflow : Submit(j, w)
    PROVE  CountedInv(j)'
<1>0. EngineTypeOK /\ JobInv(j)
  BY DEF EngineInv
<1>. USE DEF EngineTypeOK, GoTo, worker, database
<1>1. CASE \E w \in Workflow : Submit(j, w)
  <2>1. analyses[j] = None /\ findings[j] = {} /\ UNCHANGED <<analyses, findings>>
    BY <1>0, <1>1 DEF Submit, JobInv, RowInv, FindingsInv, Fresh
  <2>. QED  BY <2>1 DEF CountedInv, HasRow
<1>2. CASE CreateAnalysisRow(j)
  <2>1. analyses'[j].notes = <<>> /\ UNCHANGED <<workflow, findings>>
    BY <1>0, <1>2 DEF CreateAnalysisRow
  <2>. QED  BY <2>1 DEF CountedInv, Steps, StepNameOf
<1>3. CASE Persist(j)
  <2>1. /\ findings'[j] = findings[j] \cup NewRows(findings[j], Output(j), Step(j).name)
        /\ UNCHANGED <<workflow, analyses>>
    BY <1>0, <1>3 DEF Persist
  <2>2. IsFiniteSet(NewRows(findings[j], Output(j), Step(j).name))
    <3>1. Output(j) \in PluginOutput
      BY <1>0, <1>3, LoopStep DEF Persist, JobInv, LoopInv, Loop, Output, StepDefinition
    <3>. QED  BY <3>1, NewRowsFinite
  <2>3. IsFiniteSet(findings'[j])
    <3>1. IsFiniteSet(findings[j])
      BY DEF CountedInv
    <3>. QED  BY <2>1, <2>2, <3>1, FS_Union
  <2>4. \A r \in NewRows(findings[j], Output(j), Step(j).name) : r.step = StepNameOf(j, at[j])
    BY DEF NewRows, StepNameOf, Step
  <2>5. at[j] \in DOMAIN Steps(j)
    <3>1. at[j] <= Len(Steps(j)) /\ workflow[j] # None
      BY <1>0, <1>3, LoopStep, NoneAssumption DEF Persist, JobInv, LoopInv, Loop
    <3>2. Steps(j) \in Seq(StepDefinition)
      BY <1>0, <3>1, StepNames
    <3>. QED  BY <1>0, <3>1, <3>2
  <2>. QED  BY <2>1, <2>3, <2>4, <2>5 DEF CountedInv, HasRow, Steps, StepNameOf
<1>4. CASE RecordStepFailure(j) \/ RecordStepSkip(j)
  <2>1. /\ HasRow(j) /\ at[j] \in DOMAIN Steps(j) /\ UNCHANGED <<workflow, at, findings>>
    BY <1>4, NoteOfStep DEF RecordStepFailure, RecordStepSkip
  <2>2. PICK note \in Note : note.step = Step(j).name /\ AddNote(j, note)
    BY <1>4, NoteOfStep
  <2>3. \A n \in DOMAIN analyses'[j].notes :
            \/ analyses'[j].notes[n].step = StepNameOf(j, at[j])
            \/ n \in DOMAIN analyses[j].notes /\ analyses'[j].notes[n] = analyses[j].notes[n]
    <3>1. analyses[j] \in AnalysisRow /\ analyses[j].notes \in Seq(Note)
      BY <1>0, <2>1 DEF HasRow, AnalysisRow
    <3>2. analyses'[j].notes = Append(analyses[j].notes, note)
      BY <1>0, <2>2, <3>1 DEF AddNote, AnalysisRow
    <3>. QED  BY <2>2, <3>1, <3>2 DEF StepNameOf, Step
  <2>. QED  BY <2>1, <2>3 DEF CountedInv, Steps, StepNameOf
<1>5. CASE /\ ~CreateAnalysisRow(j) /\ ~Persist(j)
           /\ ~RecordStepFailure(j) /\ ~RecordStepSkip(j)
           /\ WorkerStep(j)
  <2>1. CASE FinalizeAnalysis(j)
    <3>1. HasRow(j) /\ analyses[j] \in AnalysisRow /\ UNCHANGED <<workflow, findings>>
      BY <1>0, <2>1 DEF FinalizeAnalysis, JobInv, RowInv, Unfinished, HasRow
    <3>2. analyses'[j].notes = analyses[j].notes
      BY <1>0, <2>1, <3>1 DEF FinalizeAnalysis, AnalysisRow
    <3>. QED  BY <3>1, <3>2 DEF CountedInv, Steps, StepNameOf
  <2>2. CASE ~FinalizeAnalysis(j)
    <3>1. UNCHANGED <<workflow, analyses, findings>>
      BY <1>5, <2>2 DEF WorkerStep, PickUp, Register, Instantiate, InstantiateFails,
         Execute, ExecuteRaises, ExecuteMalformed, AdvanceStep, ComputeRiskScore, Finish,
         DatabaseError
    <3>. QED  BY <3>1 DEF CountedInv, HasRow, Steps, StepNameOf
  <2>. QED  BY <2>1, <2>2
<1>. QED  BY <1>1, <1>2, <1>3, <1>4, <1>5
CountedStoryInv == StoryInv /\ \A j \in Job : CountedInv(j)

LEMMA CountedStoryInvariance == EngineSpec => []CountedStoryInv
<1>1. EngineInit => CountedStoryInv
  BY FS_EmptySet, EngineInvInit, StoryInit DEF CountedStoryInv, StoryInv, EngineInit, CountedInv, HasRow
<1>2. ASSUME EngineInv, [EngineNext]_engineVars, NEW k \in Job, FindingsInv(k), CountedInv(k)
      PROVE  CountedInv(k)'
  <2>1. ASSUME NEW j \in Job, WorkerStep(j) \/ \E w \in Workflow : Submit(j, w)
        PROVE  CountedInv(k)'
    <3>1. CASE j = k
      BY <1>2, <2>1, <3>1, CountedStep
    <3>2. CASE j # k
      <4>1. EntriesKept(k)
        BY <1>2, <2>1, <3>2, OthersKept DEF EngineInv
      <4>. QED  BY <1>2, <4>1 DEF EntriesKept, CountedInv, HasRow, Steps, StepNameOf
    <3>. QED  BY <3>1, <3>2
  <2>2. CASE (\E p \in PluginId : SetEnabled(p)) \/ Kill \/ UNCHANGED engineVars
    <3>1. UNCHANGED <<workflow, analyses, findings>>
      BY <2>2 DEF SetEnabled, Kill, engineVars, worker, database
    <3>. QED  BY <1>2, <3>1 DEF CountedInv, HasRow, Steps, StepNameOf
  <2>. QED  BY <1>2, <2>1, <2>2 DEF EngineNext
<1>3. CountedStoryInv /\ [EngineNext]_engineVars => CountedStoryInv'
  BY <1>2, EngineInvStep, StoryStep DEF CountedStoryInv, StoryInv, StoryOf
<1>. QED  BY <1>1, <1>3, PTL DEF EngineSpec

LEMMA NoElements ==
    ASSUME NEW S, NEW fs \in Seq(S), \A i \in DOMAIN fs : FALSE
    PROVE  fs = <<>>
<1>1. Len(fs) \in Nat /\ DOMAIN fs = 1..Len(fs)
  OBVIOUS
<1>2. Len(fs) = 0
  <2>1. 1 \notin 1..Len(fs)
    BY <1>1
  <2>. QED  BY <1>1, <2>1
<1>. QED  BY <1>2

\* A step is noted under a prefix exactly when its output calls for it.
LEMMA NotedSteps ==
    ASSUME CountedStoryInv, NEW j \in Job, JustFinalized(j), NEW kind \in {"SKIPPED", "FAILED"}
    PROVE  /\ Named(StepsNoted(j, kind)) =
                {StepNameOf(j, i) : i \in {i \in DOMAIN Steps(j) :
                    /\ i <= at[j] /\ ~Quiet(step_outputs[j][StepNameOf(j, i)])
                    /\ Skipped(step_outputs[j][StepNameOf(j, i)]) <=> kind = "SKIPPED"}}
           /\ IsInjective(StepsNoted(j, kind))
<1>. DEFINE noted == StepsNoted(j, kind)
            notes == analyses[j].notes
            Returned(i) == step_outputs[j][StepNameOf(j, i)]
<1>1. /\ HasRow(j) /\ workflow[j] # None /\ EngineTypeOK
      /\ \A i \in DOMAIN Steps(j) : IF i > at[j] THEN Untouched(j, i) ELSE Explained(j, i)
  <2>1. StoryInv /\ pc[j] = "finish"
    BY DEF CountedStoryInv, JustFinalized
  <2>2. HasRow(j) /\ Narrated(j) /\ workflow[j] # None /\ EngineTypeOK
    BY <2>1 DEF StoryInv, EngineInv, JobInv, RowInv, Narrated, Finalized
  <2>3. \A i \in DOMAIN Steps(j) : i \in Nat /\ at[j] \in Nat
    BY <2>2, StepNames DEF EngineTypeOK
  <2>. QED  BY <2>1, <2>2, <2>3 DEF StoryInv, StoryOf, NotesInv, BeforeNote
<1>2. noted = [n \in {n \in DOMAIN notes : notes[n].kind = kind} |-> notes[n].step]
  BY DEF StepsNoted
<1>3. ASSUME NEW n \in DOMAIN notes
      PROVE  \E i \in DOMAIN Steps(j) :
                /\ StepNameOf(j, i) = notes[n].step /\ i <= at[j] /\ ~Quiet(Returned(i))
                /\ LinesOf(j, StepNameOf(j, i)) = {n} /\ Explains(notes[n], Returned(i))
  <2>1. PICK i \in DOMAIN Steps(j) : StepNameOf(j, i) = notes[n].step
    BY <1>1 DEF CountedStoryInv, CountedInv
  <2>2. n \in LinesOf(j, StepNameOf(j, i))
    BY <2>1 DEF LinesOf
  <2>3. i \in Nat /\ at[j] \in Nat
    BY <1>1, StepNames DEF EngineTypeOK
  <2>. QED  BY <1>1, <2>1, <2>2, <2>3 DEF Untouched, Explained
<1>4. ASSUME NEW n \in DOMAIN notes, NEW i \in DOMAIN Steps(j), Explains(notes[n], Returned(i))
      PROVE  notes[n].kind = kind <=> (Skipped(Returned(i)) <=> kind = "SKIPPED")
  BY <1>1, <1>4 DEF Explains, Skipped, EngineTypeOK, AnalysisRow, Note, HasRow
<1>5. Named(noted) \subseteq {StepNameOf(j, i) : i \in {i \in DOMAIN Steps(j) :
                    /\ i <= at[j] /\ ~Quiet(Returned(i))
                    /\ Skipped(Returned(i)) <=> kind = "SKIPPED"}}
  BY <1>2, <1>3, <1>4 DEF Named
<1>6. ASSUME NEW i \in DOMAIN Steps(j), i <= at[j], ~Quiet(Returned(i)),
             Skipped(Returned(i)) <=> kind = "SKIPPED"
      PROVE  StepNameOf(j, i) \in Named(noted)
  <2>1. PICK n \in DOMAIN notes : LinesOf(j, StepNameOf(j, i)) = {n} /\ Explains(notes[n], Returned(i))
    <3>1. ~(i > at[j])
      BY <1>1, <1>6, StepNames DEF EngineTypeOK
    <3>. QED  BY <1>1, <1>6, <3>1 DEF Explained
  <2>2. notes[n].step = StepNameOf(j, i) /\ notes[n].kind = kind
    BY <1>4, <1>6, <2>1 DEF LinesOf
  <2>. QED  BY <1>2, <2>2 DEF Named
<1>7. IsInjective(noted)
  <2>. SUFFICES ASSUME NEW m \in DOMAIN notes, NEW n \in DOMAIN notes, notes[m].step = notes[n].step
                PROVE  m = n
    BY <1>2 DEF IsInjective
  <2>1. m \in LinesOf(j, notes[n].step) /\ n \in LinesOf(j, notes[n].step)
    BY DEF LinesOf
  <2>. QED  BY <1>3, <2>1
<1>. QED  BY <1>5, <1>6, <1>7
(***************************************************************************)
(* For any workflows and plugins: the card of an analysis that has just    *)
(* got its verdict lists the steps that were skipped and those that failed,*)
(* each once, and calls the result clean only if every step returned an    *)
(* output that is neither, without findings.                               *)
(***************************************************************************)
THEOREM CardTellsTheSteps == EngineSpec => []CardIsHonest
<1>1. CountedStoryInv => CardIsHonest
  <2>. SUFFICES ASSUME CountedStoryInv, NEW j \in Job, JustFinalized(j)
                PROVE  LET card == Card(j)
                           skipped == StepsWhere(j, Skipped)
                           quiet == StepsWhere(j, Quiet)
                       IN  /\ Named(card.skipped) = skipped /\ IsInjective(card.skipped)
                           /\ Named(card.failed) = StepsReached(j) \ (skipped \cup quiet)
                           /\ IsInjective(card.failed)
                           /\ card.clean =>
                                 /\ quiet = {Steps(j)[i].name : i \in DOMAIN Steps(j)}
                                 /\ \A name \in quiet : step_outputs[j][name].findings = <<>>
                           /\ card.status = "completed" /\ findings[j] = {} /\ skipped # {}
                                 => Line(j).detail = skipped
                           /\ Line(j).details <=>
                                 \E name \in StepsReached(j) : Troubled(step_outputs[j][name])
    BY DEF CardIsHonest
  <2>. DEFINE Returned(i) == step_outputs[j][StepNameOf(j, i)]
              skipped == {name \in {StepNameOf(j, i) : i \in DOMAIN Steps(j)} :
                             Skipped(step_outputs[j][name])}
              quiet == {name \in {StepNameOf(j, i) : i \in DOMAIN Steps(j)} :
                             Quiet(step_outputs[j][name])}
  <2>1. /\ StoryInv /\ pc[j] = "finish" /\ HasRow(j) /\ Narrated(j) /\ workflow[j] # None
        /\ EngineTypeOK /\ analyses[j] \in AnalysisRow /\ analyses[j].status = FinalStatus(j)
    BY DEF CountedStoryInv, StoryInv, EngineInv, EngineTypeOK, JobInv, RowInv, JustFinalized,
           Narrated, Finalized, HasRow
  <2>2. /\ Steps(j) \in Seq(StepDefinition) /\ DOMAIN Steps(j) = 1..Len(Steps(j))
        /\ at[j] \in Nat /\ \A i \in DOMAIN Steps(j) : i \in Nat /\ StepNameOf(j, i) \in StepName
        /\ \A i, k \in DOMAIN Steps(j) : StepNameOf(j, i) = StepNameOf(j, k) => i = k
    BY <2>1, StepNames DEF EngineTypeOK
  <2>3. StepsWhere(j, Skipped) = skipped /\ StepsWhere(j, Quiet) = quiet
    BY <2>2 DEF StepsWhere, StepNameOf
  <2>4. \A i \in DOMAIN Steps(j) : i > at[j] => Returned(i) = None
    BY <2>1 DEF StoryInv, StoryOf, NotesInv, Untouched
  <2>5. \A i \in DOMAIN Steps(j) :
            Skipped(Returned(i)) => i <= at[j] /\ ~Quiet(Returned(i))
    BY <2>2, <2>4 DEF Skipped, Quiet
  <2>6. /\ Named(StepsNoted(j, "SKIPPED")) = skipped /\ IsInjective(StepsNoted(j, "SKIPPED"))
    BY <2>5, NotedSteps
  <2>7. /\ Named(StepsNoted(j, "FAILED")) = StepsReached(j) \ (skipped \cup quiet)
        /\ IsInjective(StepsNoted(j, "FAILED"))
    <3>1. StepsReached(j) = {StepNameOf(j, i) : i \in {i \in DOMAIN Steps(j) : i <= at[j]}}
      BY DEF StepsReached, StepNameOf
    <3>. QED  BY <2>2, <3>1, NotedSteps
  <2>8. ASSUME Cardinality(findings[j]) = 0, Named(StepsNoted(j, "SKIPPED")) = {},
               Named(StepsNoted(j, "FAILED")) = {}
        PROVE  /\ quiet = {Steps(j)[i].name : i \in DOMAIN Steps(j)}
               /\ \A name \in quiet : step_outputs[j][name].findings = <<>>
    <3>1. \A i \in DOMAIN Steps(j) : i <= at[j] => Quiet(Returned(i))
      BY <2>2, <2>6, <2>7, <2>8 DEF StepsReached, StepNameOf
    <3>2. ~aborted[j]
      <4>. SUFFICES ASSUME aborted[j] PROVE FALSE
        OBVIOUS
      <4>1. at[j] \in DOMAIN Steps(j)
        BY <2>1, <2>2 DEF StoryInv, StoryOf, VerdictInv, EngineTypeOK
      <4>2. PICK n \in LinesOf(j, StepNameOf(j, at[j])) : analyses[j].notes[n].kind = "FAILED"
        BY <2>1, <4>1 DEF StoryInv, StoryOf, VerdictInv, FailedRequired, StepNameOf
      <4>. QED  BY <2>8, <4>2 DEF LinesOf, StepsNoted, Named
    <3>3. at[j] = Len(Steps(j)) + 1
      BY <2>1, <3>2 DEF StoryInv, StoryOf, VerdictInv
    <3>4. \A i \in DOMAIN Steps(j) : Quiet(Returned(i))
      BY <2>2, <3>1, <3>3
    <3>5. quiet = {Steps(j)[i].name : i \in DOMAIN Steps(j)}
      BY <3>4 DEF StepNameOf
    <3>6. findings[j] = {}
      BY <2>8, FS_EmptySet DEF CountedStoryInv, CountedInv
    <3>7. ASSUME NEW name \in quiet PROVE step_outputs[j][name].findings = <<>>
      <4>1. name \in StepName /\ step_outputs[j][name] # None
        BY <2>2 DEF Quiet
      <4>2. step_outputs[j][name].findings \in Seq(Finding)
        BY <2>1, <4>1, PluginAssumption DEF EngineTypeOK
      <4>3. \A i \in DOMAIN step_outputs[j][name].findings : FALSE
        BY <2>1, <3>6, <4>1 DEF StoryInv, StoryOf, FindingsInv, KeysStored, PersistPending, KeysOf
      <4>. QED  BY <4>2, <4>3, NoElements
    <3>. QED  BY <3>5, <3>7
  <2>9. ASSUME analyses[j].status = "completed", findings[j] = {}, skipped # {}
        PROVE  Line(j).detail = skipped
    BY <2>6, <2>9, FS_EmptySet DEF Detail, Line
  <2>10. /\ Card(j).skipped = StepsNoted(j, "SKIPPED") /\ Card(j).failed = StepsNoted(j, "FAILED")
         /\ Card(j).status = analyses[j].status
         /\ Card(j).clean <=> /\ Cardinality(findings[j]) = 0
                              /\ Named(StepsNoted(j, "SKIPPED")) = {}
                              /\ Named(StepsNoted(j, "FAILED")) = {}
    BY DEF Card
  <2>11. Line(j).details <=> \E name \in StepsReached(j) : Troubled(step_outputs[j][name])
    <3>1. Line(j).details <=> analyses[j].notes # <<>>
      BY DEF Line
    <3>2. analyses[j].notes \in Seq(Note)
      BY <2>1 DEF AnalysisRow
    <3>3. analyses[j].notes # <<>> <=> \E n \in DOMAIN analyses[j].notes : TRUE
      <4>1. analyses[j].notes = <<>> => DOMAIN analyses[j].notes = {}
        OBVIOUS
      <4>2. (\A n \in DOMAIN analyses[j].notes : FALSE) => analyses[j].notes = <<>>
        BY <3>2, NoElements
      <4>. QED  BY <4>1, <4>2
    <3>4. \A n \in DOMAIN analyses[j].notes : analyses[j].notes[n].kind \in {"FAILED", "SKIPPED"}
      BY <3>2 DEF Note
    <3>5. analyses[j].notes # <<>> <=>
             Named(StepsNoted(j, "SKIPPED")) \cup Named(StepsNoted(j, "FAILED")) # {}
      BY <3>3, <3>4 DEF Named, StepsNoted
    <3>6. skipped \subseteq StepsReached(j) /\ skipped \cap quiet = {}
      BY <2>2, <2>5 DEF StepsReached, StepNameOf
    <3>7. StepsReached(j) \subseteq {StepNameOf(j, i) : i \in DOMAIN Steps(j)}
      BY DEF StepsReached, StepNameOf
    <3>8. \A name \in StepsReached(j) : Troubled(step_outputs[j][name]) <=> name \notin quiet
      BY <3>7 DEF Troubled, Skipped, Quiet
    <3>. HIDE DEF skipped, quiet
    <3>. QED  BY <2>6, <2>7, <3>1, <3>5, <3>6, <3>8
  <2>. HIDE DEF skipped, quiet
  <2>. QED  BY <2>3, <2>6, <2>7, <2>8, <2>9, <2>10, <2>11
<1>. QED  BY <1>1, CountedStoryInvariance, PTL
-----------------------------------------------------------------------------
(***************************************************************************)
(* Sorting.  A strict total order puts a finite set in order: each member  *)
(* goes to the place that as many others as are before it leave free.      *)
(***************************************************************************)
Orders(before, S) ==
    /\ \A a \in S : <<a, a>> \notin before
    /\ \A a, b, c \in S : <<a, b>> \in before /\ <<b, c>> \in before => <<a, c>> \in before
    /\ \A a, b \in S : a = b \/ <<a, b>> \in before \/ <<b, a>> \in before

LEMMA InOrderSorts ==
    ASSUME NEW S, IsFiniteSet(S), NEW before, Orders(before, S)
    PROVE  LET sorted == InOrder(S, before) IN
           /\ sorted \in [1..Cardinality(S) -> S]
           /\ \A i, k \in 1..Cardinality(S) : i < k => <<sorted[i], sorted[k]>> \in before
           /\ \A a \in S : \E i \in 1..Cardinality(S) : sorted[i] = a
<1>. DEFINE n == Cardinality(S)
            below(a) == {b \in S : <<b, a>> \in before}
            place == [a \in S |-> Cardinality(below(a)) + 1]
            Sorts(s) == \A i, k \in DOMAIN s : i < k => <<s[i], s[k]>> \in before
<1>1. n \in Nat /\ IsFiniteSet(1..n) /\ Cardinality(1..n) = n
  BY FS_CardinalityType, FS_Interval
<1>2. ASSUME NEW a \in S
      PROVE  IsFiniteSet(below(a)) /\ Cardinality(below(a)) \in 0..n - 1
  <2>1. below(a) \in SUBSET S /\ a \notin below(a)
    BY DEF Orders
  <2>2. IsFiniteSet(below(a)) /\ Cardinality(below(a)) <= n /\ Cardinality(below(a)) # n
    BY <2>1, FS_Subset
  <2>3. Cardinality(below(a)) \in Nat
    BY <2>2, FS_CardinalityType
  <2>. QED  BY <1>1, <2>2, <2>3
<1>3. ASSUME NEW a \in S, NEW b \in S, <<a, b>> \in before
      PROVE  Cardinality(below(a)) < Cardinality(below(b))
  <2>1. below(a) \in SUBSET below(b) /\ a \in below(b) /\ a \notin below(a)
    BY <1>3 DEF Orders
  <2>2. /\ Cardinality(below(a)) <= Cardinality(below(b))
        /\ Cardinality(below(a)) # Cardinality(below(b))
    BY <1>2, <2>1, FS_Subset
  <2>3. Cardinality(below(a)) \in Nat /\ Cardinality(below(b)) \in Nat
    BY <1>2
  <2>. QED  BY <2>2, <2>3
<1>. HIDE DEF n, below
<1>4. place \in Surjection(S, 1..n)
  <2>1. place \in [S -> 1..n]
    BY <1>1, <1>2
  <2>2. \A a, b \in S : place[a] = place[b] => a = b
    <3>1. ASSUME NEW a \in S, NEW b \in S, a # b PROVE place[a] # place[b]
      <4>1. <<a, b>> \in before \/ <<b, a>> \in before
        BY <3>1 DEF Orders
      <4>. QED  BY <1>2, <1>3, <4>1
    <3>. QED  BY <3>1
  <2>3. place \in Injection(S, 1..n)
    BY <2>1, <2>2 DEF Injection, IsInjective
  <2>. QED  BY <1>1, <2>3, FS_Injection DEF n
<1>5. \E s \in [1..n -> S] : Sorts(s)
  <2>. DEFINE s == [i \in 1..n |-> CHOOSE a \in S : place[a] = i]
  <2>1. \A i \in 1..n : s[i] \in S /\ place[s[i]] = i
    BY <1>4 DEF Surjection
  <2>2. s \in [1..n -> S]
    BY <2>1
  <2>3. ASSUME NEW i \in 1..n, NEW k \in 1..n, i < k
        PROVE  <<s[i], s[k]>> \in before
    <3>1. s[i] \in S /\ s[k] \in S /\ place[s[i]] = i /\ place[s[k]] = k
      BY <2>1
    <3>. HIDE DEF s
    <3>2. Cardinality(below(s[i])) < Cardinality(below(s[k]))
      BY <1>1, <1>2, <2>3, <3>1
    <3>3. s[i] # s[k] /\ ~(<<s[k], s[i]>> \in before)
      BY <1>2, <1>3, <3>1, <3>2
    <3>. QED  BY <3>1, <3>3 DEF Orders
  <2>. QED  BY <2>2, <2>3
<1>. DEFINE sorted == InOrder(S, before)
<1>6. sorted \in [1..n -> S] /\ Sorts(sorted)
  BY <1>5 DEF InOrder, n
<1>. HIDE DEF sorted
<1>7. sorted \in Surjection(1..n, S)
  <2>1. ASSUME NEW i \in 1..n, NEW k \in 1..n, sorted[i] = sorted[k]
        PROVE  i = k
    <3>1. \A a, b \in 1..n : a < b => sorted[a] # sorted[b]
      BY <1>6 DEF Orders
    <3>. QED  BY <1>1, <2>1, <3>1
  <2>2. sorted \in Injection(1..n, S)
    BY <1>6, <2>1 DEF Injection, IsInjective
  <2>. QED  BY <1>1, <2>2, FS_Injection DEF n
<1>. QED  BY <1>6, <1>7 DEF Surjection, n, sorted

\* The severities, worst first.
LEMMA RankOf ==
    /\ Rank("critical") = 1 /\ Rank("high") = 2 /\ Rank("medium") = 3
    /\ Rank("low") = 4 /\ Rank("info") = 5
BY DEF Rank, WorstFirst

LEMMA Ranks ==
    /\ \A s \in Severity : Rank(s) \in 1..5 /\ Level[s] \in 1..3
    /\ \A s, t \in Severity :
          /\ Rank(s) = Rank(t) => s = t
          /\ Rank(s) <= Rank(t) => Level[s] >= Level[t]
<1>1. Severity \subseteq {"critical", "high", "medium", "low", "info"}
  BY SeverityAssumption DEF Weight
<1>2. /\ Level["critical"] = 3 /\ Level["high"] = 3 /\ Level["medium"] = 2
      /\ Level["low"] = 1 /\ Level["info"] = 1
  BY DEF Level
<1>. QED  BY <1>1, <1>2, RankOf

LEMMA NameRanks == \A s \in Severity : NameRank(s) \in 1..5
<1>1. Severity \subseteq {"critical", "high", "medium", "low", "info"}
  BY SeverityAssumption DEF Weight
<1>2. /\ NameRank("critical") = 1 /\ NameRank("high") = 2 /\ NameRank("info") = 3
      /\ NameRank("low") = 4 /\ NameRank("medium") = 5
  BY DEF NameRank, ByName
<1>. QED  BY <1>1, <1>2

\* The report's sort keeps the rows and puts the worst of them first.
LEMMA SortedWorstFirst ==
    ASSUME NEW n \in Nat, NEW rows \in [1..n -> FindingRow]
    PROVE  /\ Sorted(rows) \in [1..n -> FindingRow]
           /\ \A i \in 1..n : \E m \in 1..n : Sorted(rows)[m] = rows[i]
           /\ \A i, k \in 1..n : i < k =>
                 Rank(Sorted(rows)[i].severity) <= Rank(Sorted(rows)[k].severity)
<1>. DEFINE worse == {p \in (DOMAIN rows) \X (DOMAIN rows) :
                         \/ Rank(rows[p[1]].severity) < Rank(rows[p[2]].severity)
                         \/ rows[p[1]].severity = rows[p[2]].severity /\ p[1] < p[2]}
            order == InOrder(DOMAIN rows, worse)
<1>1. DOMAIN rows = 1..n /\ IsFiniteSet(DOMAIN rows) /\ Cardinality(DOMAIN rows) = n
  BY FS_Interval
<1>2. \A i \in 1..n : rows[i].severity \in Severity
  BY DEF FindingRow
<1>. DEFINE rank(i) == Rank(rows[i].severity)
<1>3. \A i, k \in 1..n : <<i, k>> \in worse <=>
          \/ rank(i) < rank(k)
          \/ rows[i].severity = rows[k].severity /\ i < k
  BY <1>1
<1>4. \A i \in 1..n : rank(i) \in 1..5
  BY <1>2, Ranks
<1>5. \A i, k \in 1..n : rank(i) = rank(k) <=> rows[i].severity = rows[k].severity
  <2>1. \A s, t \in Severity : Rank(s) = Rank(t) => s = t
    BY Ranks
  <2>. QED  BY <1>2, <2>1, Zenon
<1>. HIDE DEF worse, rank
<1>6. Orders(worse, DOMAIN rows)
  <2>1. \A a \in 1..n : <<a, a>> \notin worse
    BY <1>3, <1>4
  <2>2. ASSUME NEW a \in 1..n, NEW b \in 1..n, NEW c \in 1..n,
               <<a, b>> \in worse, <<b, c>> \in worse
        PROVE  <<a, c>> \in worse
    <3>1. rank(a) \in 1..5 /\ rank(b) \in 1..5 /\ rank(c) \in 1..5
      BY <1>4
    <3>2. /\ rank(a) < rank(b) \/ (rank(a) = rank(b) /\ a < b)
          /\ rank(b) < rank(c) \/ (rank(b) = rank(c) /\ b < c)
      BY <1>3, <1>5, <2>2
    <3>3. rank(a) < rank(c) \/ (rank(a) = rank(c) /\ a < c)
      BY <3>1, <3>2
    <3>. QED  BY <1>3, <1>5, <3>3
  <2>3. \A a, b \in 1..n : a = b \/ <<a, b>> \in worse \/ <<b, a>> \in worse
    <3>. SUFFICES ASSUME NEW a \in 1..n, NEW b \in 1..n, a # b
                  PROVE  <<a, b>> \in worse \/ <<b, a>> \in worse
      OBVIOUS
    <3>1. rank(a) \in 1..5 /\ rank(b) \in 1..5
      BY <1>4
    <3>2. rank(a) < rank(b) \/ rank(b) < rank(a) \/ rank(a) = rank(b)
      BY <3>1
    <3>3. a < b \/ b < a
      OBVIOUS
    <3>. QED  BY <1>3, <1>5, <3>2, <3>3
  <2>. QED  BY <1>1, <2>1, <2>2, <2>3 DEF Orders
<1>7. /\ order \in [1..n -> 1..n]
      /\ \A i, k \in 1..n : i < k => <<order[i], order[k]>> \in worse
      /\ \A i \in 1..n : \E m \in 1..n : order[m] = i
  <2>. DEFINE size == Cardinality(DOMAIN rows)
  <2>1. /\ order \in [1..size -> DOMAIN rows]
        /\ \A i, k \in 1..size : i < k => <<order[i], order[k]>> \in worse
        /\ \A a \in DOMAIN rows : \E i \in 1..size : order[i] = a
    BY <1>1, <1>6, InOrderSorts
  <2>. HIDE DEF order
  <2>. QED  BY <1>1, <2>1
<1>8. Sorted(rows) = [i \in 1..n |-> rows[order[i]]]
  BY <1>1 DEF Sorted, worse
<1>. HIDE DEF order
<1>9. \A i, k \in 1..n : i < k => Rank(rows[order[i]].severity) <= Rank(rows[order[k]].severity)
  <2>. SUFFICES ASSUME NEW i \in 1..n, NEW k \in 1..n, i < k
                PROVE  rank(order[i]) <= rank(order[k])
    BY DEF rank
  <2>1. order[i] \in 1..n /\ order[k] \in 1..n /\ <<order[i], order[k]>> \in worse
    BY <1>7
  <2>2. rank(order[i]) < rank(order[k]) \/ rank(order[i]) = rank(order[k])
    BY <1>3, <1>5, <2>1
  <2>3. rank(order[i]) \in 1..5 /\ rank(order[k]) \in 1..5
    BY <1>4, <2>1
  <2>. QED  BY <2>2, <2>3
<1>10. ASSUME NEW i \in 1..n PROVE \E m \in 1..n : Sorted(rows)[m] = rows[i]
  <2>1. PICK m \in 1..n : order[m] = i
    BY <1>7
  <2>. QED  BY <1>8, <2>1
<1>. QED  BY <1>7, <1>8, <1>9, <1>10

\* The rows of an analysis in the order in which the report reads them.
LEMMA QueriedRows ==
    ASSUME CountedStoryInv, NEW j \in Job, workflow[j] # None
    PROVE  /\ Cardinality(findings[j]) \in Nat
           /\ Queried(j) \in [1..Cardinality(findings[j]) -> FindingRow]
           /\ \A r \in findings[j] : \E i \in DOMAIN Queried(j) : Queried(j)[i] = r
<1>. DEFINE name(r) == NameRank(r.severity)
            position(r) == CHOOSE i \in DOMAIN Steps(j) : Steps(j)[i].name = r.step
            later(r, q) == \/ position(r) < position(q)
                           \/ position(r) = position(q) /\ r.nth < q.nth
            earlier == {p \in findings[j] \X findings[j] :
                           \/ name(p[1]) < name(p[2])
                           \/ /\ name(p[1]) = name(p[2])
                              /\ \/ position(p[1]) < position(p[2])
                                 \/ position(p[1]) = position(p[2]) /\ p[1].nth < p[2].nth}
<1>1. /\ EngineTypeOK /\ IsFiniteSet(findings[j]) /\ findings[j] \subseteq FindingRow
      /\ RowsUnique(j) /\ RowsFromOutputs(j)
  BY DEF CountedStoryInv, CountedInv, StoryInv, StoryOf, FindingsInv, EngineInv, EngineTypeOK
<1>2. \A r \in findings[j] :
          position(r) \in DOMAIN Steps(j) /\ StepNameOf(j, position(r)) = r.step
  BY DEF CountedStoryInv, CountedInv, StepNameOf
<1>3. \A r \in findings[j] : name(r) \in Nat /\ position(r) \in Nat /\ r.nth \in Nat
  <2>1. \A r \in findings[j] : position(r) \in Nat /\ r.nth \in Nat
    BY <1>1, <1>2, StepNames DEF FindingRow
  <2>2. \A r \in findings[j] : r.severity \in Severity
    BY <1>1 DEF FindingRow
  <2>. QED  BY <2>1, <2>2, NameRanks
<1>4. \A r, q \in findings[j] : position(r) = position(q) /\ r.nth = q.nth => r = q
  <2>. SUFFICES ASSUME NEW r \in findings[j], NEW q \in findings[j],
                       position(r) = position(q), r.nth = q.nth
                PROVE  r = q
    OBVIOUS
  <2>1. r.step = q.step
    BY <1>2
  <2>2. [key |-> r.key, severity |-> r.severity] = [key |-> q.key, severity |-> q.severity]
    BY <1>1, <2>1 DEF RowsFromOutputs
  <2>3. r.key = q.key
    BY <2>2
  <2>. QED  BY <1>1, <2>3 DEF RowsUnique
<1>5. \A r, q \in findings[j] : <<r, q>> \in earlier <=>
          name(r) < name(q) \/ (name(r) = name(q) /\ later(r, q))
  <2>. SUFFICES ASSUME NEW r \in findings[j], NEW q \in findings[j]
                PROVE  <<r, q>> \in earlier <=>
                          name(r) < name(q) \/ (name(r) = name(q) /\ later(r, q))
    OBVIOUS
  <2>1. <<r, q>> \in findings[j] \X findings[j] /\ <<r, q>>[1] = r /\ <<r, q>>[2] = q
    OBVIOUS
  <2>. HIDE DEF name, position
  <2>. QED  BY <2>1
<1>6. Queried(j) = InOrder(findings[j], earlier)
  BY DEF Queried
<1>. HIDE DEF name, position, earlier
<1>7. Orders(earlier, findings[j])
  BY <1>3, <1>4, <1>5 DEF Orders
<1>8. /\ Queried(j) \in [1..Cardinality(findings[j]) -> findings[j]]
      /\ \A r \in findings[j] : \E i \in 1..Cardinality(findings[j]) : Queried(j)[i] = r
  BY <1>1, <1>6, <1>7, InOrderSorts
<1>. QED  BY <1>1, <1>8, FS_CardinalityType

\* Each finding has a rule; a rule is made from the first finding of it; no two share an id.
LEMMA RulesOfRows ==
    ASSUME NEW n \in Nat, NEW rows \in [1..n -> FindingRow]
    PROVE  LET rules == Rules(rows) IN
           /\ \A i, k \in DOMAIN rules : rules[i].id = rules[k].id => i = k
           /\ \A i \in 1..n : \E m \in DOMAIN rules : rules[m].id = rows[i].step
           /\ \A m \in DOMAIN rules : \E first \in 1..n :
                 /\ rules[m] = BuildRule(rows[first])
                 /\ \A k \in 1..n : rows[k].step = rules[m].id => first <= k
<1>. DEFINE S == FirstOfRule(rows)
            ascending == {p \in S \X S : p[1] < p[2]}
            order == InOrder(S, ascending)
            size == Cardinality(S)
            rules == Rules(rows)
<1>1. /\ S \in SUBSET (1..n)
      /\ \A i \in 1..n : i \in S <=> \A k \in 1..n : k < i => rows[k].step # rows[i].step
  BY DEF FirstOfRule, RuleId
<1>2. IsFiniteSet(S)
  BY <1>1, FS_Interval, FS_Subset
<1>3. \A i, k \in S : <<i, k>> \in ascending <=> i < k
  OBVIOUS
<1>. HIDE DEF S, ascending
<1>4. Orders(ascending, S)
  BY <1>1, <1>3 DEF Orders
<1>5. /\ order \in [1..size -> S]
      /\ \A i, k \in 1..size : i < k => <<order[i], order[k]>> \in ascending
      /\ \A a \in S : \E i \in 1..size : order[i] = a
  BY <1>2, <1>4, InOrderSorts
<1>6. rules = [m \in 1..size |-> BuildRule(rows[order[m]])]
  BY DEF Rules, S, ascending
<1>7. size \in Nat
  BY <1>2, FS_CardinalityType
<1>. HIDE DEF order, size, rules
<1>8. /\ DOMAIN rules = 1..size
      /\ \A m \in 1..size : rules[m] = BuildRule(rows[order[m]])
  BY <1>6
<1>9. \A m \in 1..size : rules[m].id = rows[order[m]].step
  BY <1>8 DEF BuildRule, RuleId
<1>10. ASSUME NEW i \in 1..size, NEW k \in 1..size, i < k
       PROVE  rules[i].id # rules[k].id
  <2>1. order[i] \in S /\ order[k] \in S /\ order[i] < order[k]
    BY <1>3, <1>5, <1>10
  <2>2. rows[order[i]].step # rows[order[k]].step
    BY <1>1, <2>1
  <2>. QED  BY <1>9, <2>2
<1>11. ASSUME NEW i \in 1..n
       PROVE  \E m \in DOMAIN rules : rules[m].id = rows[i].step
  <2>. DEFINE T == {k \in 1..n : rows[k].step = rows[i].step}
  <2>1. T \subseteq Nat /\ T # {}
    OBVIOUS
  <2>2. PICK first \in T : \A k \in T : first <= k
    <3>. HIDE DEF T
    <3>. QED  BY <2>1, LeastOf
  <2>3. first \in 1..n /\ rows[first].step = rows[i].step
    OBVIOUS
  <2>4. \A k \in 1..n : k < first => rows[k].step # rows[i].step
    BY <2>2, <2>3
  <2>5. first \in S
    BY <1>1, <2>3, <2>4
  <2>. QED  BY <1>5, <1>8, <1>9, <2>3, <2>5
<1>12. ASSUME NEW m \in DOMAIN rules
       PROVE  \E first \in 1..n :
                 /\ rules[m] = BuildRule(rows[first])
                 /\ \A k \in 1..n : rows[k].step = rules[m].id => first <= k
  <2>1. /\ order[m] \in S /\ order[m] \in 1..n
        /\ rules[m] = BuildRule(rows[order[m]]) /\ rules[m].id = rows[order[m]].step
    BY <1>1, <1>5, <1>8, <1>9, <1>12
  <2>2. \A k \in 1..n : rows[k].step = rules[m].id => ~(k < order[m])
    BY <1>1, <2>1
  <2>3. \A k \in 1..n : ~(k < order[m]) => order[m] <= k
    BY <2>1
  <2>. QED  BY <2>1, <2>2, <2>3
<1>13. \A i, k \in 1..size : rules[i].id = rules[k].id => i = k
  <2>. SUFFICES ASSUME NEW i \in 1..size, NEW k \in 1..size, i # k
                PROVE  rules[i].id # rules[k].id
    OBVIOUS
  <2>1. i < k \/ k < i
    BY <1>7
  <2>. QED  BY <1>10, <2>1
<1>. QED  BY <1>8, <1>11, <1>12, <1>13 DEF rules

(***************************************************************************)
(* For any workflows, plugins and severities that have a rank and a level: *)
(* the SARIF log of an analysis that has just got its verdict has no two   *)
(* rules of one id, each of its results points at the rule of its id, and  *)
(* no result is more severe than that rule.  The report's sort is what     *)
(* makes the first finding of a category its worst.                        *)
(***************************************************************************)
THEOREM RulesCoverResults == EngineSpec => []SarifPointsAtRules
<1>1. CountedStoryInv => SarifPointsAtRules
  <2>. SUFFICES ASSUME CountedStoryInv, NEW j \in Job, JustFinalized(j)
                PROVE  LET sarif == BuildSarif(LoadAnalysisData(j)) IN
                       /\ IsInjective([i \in DOMAIN sarif.rules |-> sarif.rules[i].id])
                       /\ \A i \in DOMAIN sarif.results :
                             LET result == sarif.results[i]
                                 rule == sarif.rules[result.ruleIndex + 1]
                             IN  rule.id = result.ruleId /\ rule.level >= result.level
    BY DEF SarifPointsAtRules
  <2>. DEFINE n == Cardinality(findings[j])
              queried == Queried(j)
              rows == Sorted(queried)
              rules == Rules(rows)
              results == Results(rows)
  <2>1. workflow[j] # None
    BY DEF JustFinalized, CountedStoryInv, StoryInv, EngineInv, JobInv, RowInv
  <2>2. n \in Nat /\ queried \in [1..n -> FindingRow]
    BY <2>1, QueriedRows
  <2>. HIDE DEF n, queried
  <2>3. /\ rows \in [1..n -> FindingRow]
        /\ \A i, k \in 1..n : i < k => Rank(rows[i].severity) <= Rank(rows[k].severity)
    BY <2>2, SortedWorstFirst
  <2>4. /\ BuildSarif(LoadAnalysisData(j)).rules = rules
        /\ BuildSarif(LoadAnalysisData(j)).results = results
    BY DEF BuildSarif, LoadAnalysisData, queried
  <2>. HIDE DEF rows
  <2>5. /\ \A i, k \in DOMAIN rules : rules[i].id = rules[k].id => i = k
        /\ \A i \in 1..n : \E m \in DOMAIN rules : rules[m].id = rows[i].step
        /\ \A m \in DOMAIN rules : \E first \in 1..n :
              /\ rules[m] = BuildRule(rows[first])
              /\ \A k \in 1..n : rows[k].step = rules[m].id => first <= k
    BY <2>2, <2>3, RulesOfRows
  <2>6. /\ DOMAIN results = 1..n
        /\ \A i \in 1..n :
              /\ results[i].ruleId = rows[i].step
              /\ results[i].ruleIndex = RuleAt(rules, rows[i].step) - 1
              /\ results[i].level = Level[rows[i].severity]
    BY <2>3 DEF Results, RuleId
  <2>7. DOMAIN rules \subseteq Int
    BY DEF Rules
  <2>. HIDE DEF rules, results
  <2>8. IsInjective([i \in DOMAIN rules |-> rules[i].id])
    BY <2>5 DEF IsInjective
  <2>9. ASSUME NEW i \in 1..n
        PROVE  LET rule == rules[results[i].ruleIndex + 1]
               IN  rule.id = results[i].ruleId /\ rule.level >= results[i].level
    <3>. DEFINE m == RuleAt(rules, rows[i].step)
    <3>1. m \in DOMAIN rules /\ rules[m].id = rows[i].step
      BY <2>5, <2>9 DEF RuleAt
    <3>. HIDE DEF m
    <3>2. results[i].ruleIndex + 1 = m
      BY <2>6, <2>7, <3>1 DEF m
    <3>3. PICK first \in 1..n :
             /\ rules[m] = BuildRule(rows[first])
             /\ \A k \in 1..n : rows[k].step = rules[m].id => first <= k
      BY <2>5, <3>1
    <3>4. rules[m].level = Level[rows[first].severity] /\ first <= i
      BY <3>1, <3>3 DEF BuildRule
    <3>5. rows[first].severity \in Severity /\ rows[i].severity \in Severity
      BY <2>3 DEF FindingRow
    <3>6. Level[rows[first].severity] >= Level[rows[i].severity]
      <4>1. CASE first = i
        BY <3>5, <4>1, Ranks
      <4>2. CASE first < i
        BY <2>3, <3>5, <4>2, Ranks
      <4>. QED  BY <2>2, <3>4, <4>1, <4>2
    <3>. QED  BY <2>6, <3>1, <3>2, <3>4, <3>6
  <2>. QED  BY <2>4, <2>6, <2>8, <2>9
<1>. QED  BY <1>1, CountedStoryInvariance, PTL
-----------------------------------------------------------------------------
(***************************************************************************)
(* Triage and search.  A session is a recursive function of the number of  *)
(* its events: that the function exists, and that each of its values is    *)
(* good, are two inductions on that number, by the least counterexample.   *)
(***************************************************************************)
\* What holds of the findings dialog between two events of the researcher.
DialogOf(rows) ==
    [table : [rows -> FindingStatus], copy : [rows -> FindingStatus], hide : BOOLEAN,
     cards : UNION {[shown -> FindingStatus] : shown \in SUBSET rows}]
DialogInv(rows, writes_fail, dialog) ==
    /\ dialog \in DialogOf(rows)
    /\ dialog.copy = dialog.table
    /\ DOMAIN dialog.cards = Visible(dialog)
    /\ ~writes_fail => \A f \in Visible(dialog) : dialog.cards[f] = dialog.copy[f]

\* A rebuilt list shows what is visible, with the status the copy has.
LEMMA Rebuilt ==
    ASSUME NEW rows, NEW writes_fail, NEW dialog \in DialogOf(rows), dialog.copy = dialog.table
    PROVE  DialogInv(rows, writes_fail, RebuildList(dialog))
<1>. DEFINE shown == Visible(dialog)
            new == RebuildList(dialog)
<1>1. shown \in SUBSET rows /\ dialog.copy \in [rows -> FindingStatus]
  BY DEF Visible, DialogOf
<1>2. /\ new.table = dialog.table /\ new.copy = dialog.copy /\ new.hide = dialog.hide
      /\ new.cards = [f \in shown |-> dialog.copy[f]]
  BY DEF RebuildList, FindingCard, DialogOf
<1>3. Visible(new) = shown
  BY <1>2 DEF Visible
<1>. HIDE DEF shown
<1>4. new.cards \in [shown -> FindingStatus]
  BY <1>1, <1>2
<1>5. new = [table |-> new.table, copy |-> new.copy, hide |-> new.hide, cards |-> new.cards]
  BY DEF RebuildList, DialogOf
<1>. HIDE DEF new
<1>6. new.cards \in UNION {[X -> FindingStatus] : X \in SUBSET rows}
  BY <1>1, <1>4
<1>7. new \in DialogOf(rows)
  <2>1. new.table \in [rows -> FindingStatus] /\ new.copy \in [rows -> FindingStatus]
        /\ new.hide \in BOOLEAN
    BY <1>2 DEF DialogOf
  <2>. QED  BY <1>5, <1>6, <2>1 DEF DialogOf
<1>8. DOMAIN new.cards = Visible(new) /\ \A f \in Visible(new) : new.cards[f] = new.copy[f]
  BY <1>2, <1>3
<1>. QED  BY <1>2, <1>7, <1>8 DEF DialogInv, new

\* Every event keeps it, the failed write of a status included.
LEMMA AfterInv ==
    ASSUME NEW rows, NEW writes_fail \in BOOLEAN, NEW dialog, DialogInv(rows, writes_fail, dialog),
           NEW next \in After(dialog, writes_fail)
    PROVE  DialogInv(rows, writes_fail, next)
<1>1. /\ dialog \in DialogOf(rows) /\ dialog.copy = dialog.table
      /\ DOMAIN dialog.cards = Visible(dialog) /\ Visible(dialog) \in SUBSET rows
      /\ dialog.cards \in [Visible(dialog) -> FindingStatus]
  BY DEF DialogInv, DialogOf, Visible
<1>2. CASE next = OnHideToggled(dialog)
  <2>. DEFINE toggled == [dialog EXCEPT !.hide = ~@]
  <2>1. toggled \in DialogOf(rows) /\ toggled.copy = toggled.table
    BY <1>1 DEF DialogOf
  <2>. QED  BY <1>2, <2>1, Rebuilt DEF OnHideToggled
<1>3. CASE \E f \in Visible(dialog), status \in FindingStatus :
              next = OnStatusChange(dialog, f, status)
  <2>1. PICK f \in Visible(dialog), status \in FindingStatus :
           next = OnStatusChange(dialog, f, status)
    BY <1>3
  <2>. DEFINE stored == [SetFindingStatus(dialog, f, status) EXCEPT
                            !.copy[f] = status, !.cards[f] = status]
  <2>2. /\ stored.table = [dialog.table EXCEPT ![f] = status]
        /\ stored.copy = [dialog.copy EXCEPT ![f] = status]
        /\ stored.cards = [dialog.cards EXCEPT ![f] = status]
        /\ stored.hide = dialog.hide
        /\ stored = [table |-> stored.table, copy |-> stored.copy, hide |-> stored.hide,
                     cards |-> stored.cards]
    <3>. DEFINE written == SetFindingStatus(dialog, f, status)
    <3>1. /\ written.table = [dialog.table EXCEPT ![f] = status]
          /\ written.copy = dialog.copy /\ written.hide = dialog.hide
          /\ written.cards = dialog.cards
          /\ written = [table |-> written.table, copy |-> written.copy,
                        hide |-> written.hide, cards |-> written.cards]
      BY <1>1 DEF SetFindingStatus, DialogOf
    <3>. HIDE DEF written
    <3>2. stored = [written EXCEPT !.copy[f] = status, !.cards[f] = status]
      BY DEF written
    <3>. HIDE DEF stored
    <3>3. stored = [table |-> written.table, copy |-> [written.copy EXCEPT ![f] = status],
                    hide |-> written.hide, cards |-> [written.cards EXCEPT ![f] = status]]
      BY <3>1, <3>2
    <3>. QED  BY <3>1, <3>3
  <2>. HIDE DEF stored
  <2>3. stored.cards \in [Visible(dialog) -> FindingStatus]
    BY <1>1, <2>2
  <2>4. stored.cards \in UNION {[shown -> FindingStatus] : shown \in SUBSET rows}
    BY <1>1, <2>3
  <2>5. /\ stored.table \in [rows -> FindingStatus] /\ stored.copy \in [rows -> FindingStatus]
        /\ stored.hide \in BOOLEAN /\ stored.copy = stored.table
    BY <1>1, <2>2 DEF DialogOf
  <2>6. stored \in DialogOf(rows) /\ stored.copy = stored.table
    BY <2>2, <2>4, <2>5 DEF DialogOf
  <2>7. next = IF stored.hide /\ status \in HIDDEN_BY_DEFAULT THEN RebuildList(stored) ELSE stored
    BY <2>1 DEF OnStatusChange, stored
  <2>8. CASE stored.hide /\ status \in HIDDEN_BY_DEFAULT
    BY <2>6, <2>7, <2>8, Rebuilt
  <2>9. CASE ~(stored.hide /\ status \in HIDDEN_BY_DEFAULT)
    <3>1. \A g \in rows : stored.copy[g] = IF g = f THEN status ELSE dialog.copy[g]
      BY <1>1, <2>2 DEF DialogOf
    <3>2. DOMAIN stored.copy = rows /\ DOMAIN dialog.copy = rows /\ f \in rows
      BY <1>1, <2>5 DEF DialogOf
    <3>3. Visible(stored) = Visible(dialog)
      BY <2>2, <2>9, <3>1, <3>2 DEF Visible
    <3>4. ~writes_fail => \A g \in Visible(stored) : stored.cards[g] = stored.copy[g]
      BY <1>1, <2>2, <3>1, <3>2, <3>3 DEF DialogInv
    <3>. QED  BY <2>3, <2>6, <2>7, <2>9, <3>3, <3>4 DEF DialogInv
  <2>. QED  BY <2>8, <2>9
<1>4. CASE /\ writes_fail
           /\ \E f \in Visible(dialog), status \in FindingStatus :
                 next = OnStatusChangeFails(dialog, f, status)
  <2>1. PICK f \in Visible(dialog), status \in FindingStatus :
           next = OnStatusChangeFails(dialog, f, status)
    BY <1>4
  <2>2. /\ next.table = dialog.table /\ next.copy = dialog.copy /\ next.hide = dialog.hide
        /\ next.cards = [dialog.cards EXCEPT ![f] = status]
        /\ next = [table |-> next.table, copy |-> next.copy, hide |-> next.hide,
                   cards |-> next.cards]
    BY <1>1, <2>1 DEF OnStatusChangeFails, DialogOf
  <2>3. next.cards \in [Visible(dialog) -> FindingStatus] /\ Visible(next) = Visible(dialog)
    BY <1>1, <2>2 DEF Visible
  <2>4. next.cards \in UNION {[shown -> FindingStatus] : shown \in SUBSET rows}
    BY <1>1, <2>3
  <2>5. /\ next.table \in [rows -> FindingStatus] /\ next.copy \in [rows -> FindingStatus]
        /\ next.hide \in BOOLEAN /\ next.copy = next.table
    BY <1>1, <2>2 DEF DialogOf
  <2>6. next \in DialogOf(rows)
    BY <2>2, <2>4, <2>5 DEF DialogOf
  <2>. QED  BY <1>4, <2>3, <2>5, <2>6 DEF DialogInv
<1>5. \A d \in Decisions(dialog) : d[1] \in Visible(dialog) /\ d[2] \in FindingStatus
  BY <1>1 DEF Decisions
<1>. QED  BY <1>2, <1>3, <1>4, <1>5 DEF After

LEMMA SessionInv ==
    ASSUME NEW rows, NEW writes_fail \in BOOLEAN, NEW dialog \in Sessions(rows, writes_fail)
    PROVE  DialogInv(rows, writes_fail, dialog)
<1>. DEFINE start == {OpenFindings([f \in rows |-> "open"])}
            Further(S) == S \cup UNION {After(d, writes_fail) : d \in S}
            Reaches(g, n) == g = [i \in 0..n |-> IF i = 0 THEN start ELSE Further(g[i - 1])]
            reached == CHOOSE g : Reaches(g, MaxEvents)
            Good(S) == \A d \in S : DialogInv(rows, writes_fail, d)
<1>1. Sessions(rows, writes_fail) = reached[MaxEvents]
  BY DEF Sessions
<1>2. Good(start)
  <2>. DEFINE table == [f \in rows |-> "open"]
              opened == [table |-> table, copy |-> table, hide |-> TRUE, cards |-> <<>>]
  <2>1. table \in [rows -> FindingStatus]
    BY TriageAssumption
  <2>. HIDE DEF table
  <2>2. opened.cards \in [{} -> FindingStatus] /\ {} \in SUBSET rows
    OBVIOUS
  <2>3. opened.cards \in UNION {[shown -> FindingStatus] : shown \in SUBSET rows}
    BY <2>2
  <2>4. opened \in DialogOf(rows) /\ opened.copy = opened.table
    BY <2>1, <2>3 DEF DialogOf
  <2>. QED  BY <2>4, Rebuilt DEF OpenFindings, table
<1>3. ASSUME NEW S, Good(S) PROVE Good(Further(S))
  BY <1>3, AfterInv
<1>. HIDE DEF start, Further, Good
<1>4. \A n \in Nat : \E g : Reaches(g, n)
  <2>. DEFINE T == {n \in Nat : ~\E g : Reaches(g, n)}
  <2>1. T = {}
    <3>. SUFFICES ASSUME T # {} PROVE FALSE
      OBVIOUS
    <3>1. PICK n \in T : \A k \in T : n <= k
      <4>1. T \subseteq Nat
        OBVIOUS
      <4>. HIDE DEF T
      <4>. QED  BY <4>1, LeastOf
    <3>2. n # 0
      <4>1. Reaches([i \in 0..0 |-> start], 0)
        OBVIOUS
      <4>. QED  BY <4>1
    <3>3. n \in Nat /\ n - 1 \in Nat /\ n - 1 \notin T
      <4>1. n \in Nat
        OBVIOUS
      <4>. HIDE DEF T
      <4>. QED  BY <3>1, <3>2, <4>1
    <3>4. PICK g : Reaches(g, n - 1)
      BY <3>3
    <3>. DEFINE h == [i \in 0..n |-> IF i = 0 THEN start ELSE Further(g[i - 1])]
    <3>5. \A i \in 0..n - 1 : h[i] = g[i]
      BY <3>3, <3>4
    <3>6. \A i \in 0..n : i # 0 => h[i] = Further(h[i - 1])
      BY <3>3, <3>5
    <3>7. h = [i \in 0..n |-> IF i = 0 THEN start ELSE Further(h[i - 1])]
      <4>1. \A i \in 0..n : h[i] = IF i = 0 THEN start ELSE Further(h[i - 1])
        BY <3>3, <3>6
      <4>2. h = [i \in 0..n |-> h[i]]
        OBVIOUS
      <4>. HIDE DEF h
      <4>. QED  BY <4>1, <4>2
    <3>. QED  BY <3>7
  <2>. QED  BY <2>1
<1>5. Reaches(reached, MaxEvents)
  BY <1>4, TriageAssumption
<1>. HIDE DEF reached
<1>6. \A n \in 0..MaxEvents : Good(reached[n])
  <2>. DEFINE T == {n \in 0..MaxEvents : ~Good(reached[n])}
  <2>1. T = {}
    <3>. SUFFICES ASSUME T # {} PROVE FALSE
      OBVIOUS
    <3>1. PICK n \in T : \A k \in T : n <= k
      <4>1. T \subseteq Nat
        OBVIOUS
      <4>. HIDE DEF T
      <4>. QED  BY <4>1, LeastOf
    <3>2. n # 0
      BY <1>2, <1>5
    <3>3. n \in 0..MaxEvents /\ n - 1 \in 0..MaxEvents /\ Good(reached[n - 1])
      <4>1. n \in 0..MaxEvents
        OBVIOUS
      <4>2. n - 1 \in 0..MaxEvents
        BY <3>2, <4>1, TriageAssumption
      <4>3. n - 1 \notin T
        <5>. HIDE DEF T
        <5>. QED  BY <3>1, <4>1, TriageAssumption
      <4>. QED  BY <4>1, <4>2, <4>3
    <3>4. reached[n] = Further(reached[n - 1])
      BY <1>5, <3>2
    <3>. QED  BY <1>3, <3>3, <3>4
  <2>. QED  BY <2>1
<1>. QED  BY <1>1, <1>6, TriageAssumption DEF Good

LEMMA MinOfTwo ==
    ASSUME NEW a \in Nat, NEW b \in Nat
    PROVE  Min({a, b}) = IF a <= b THEN a ELSE b
<1>1. CASE a <= b
  BY <1>1 DEF Min
<1>2. CASE ~(a <= b)
  BY <1>2 DEF Min
<1>. QED  BY <1>1, <1>2

\* Ranking what a query read lists each of its rows, the worst first.
LEMMA RankedRows ==
    ASSUME NEW fetched, fetched \subseteq FindingRow, IsFiniteSet(fetched)
    PROVE  /\ Ranked(SetToSeq(fetched)) \in Seq(FindingRow)
           /\ Len(Ranked(SetToSeq(fetched))) = Cardinality(fetched)
           /\ \A r \in fetched : \E i \in 1..Cardinality(fetched) :
                 Ranked(SetToSeq(fetched))[i] = r
           /\ \A i, k \in 1..Cardinality(fetched) : i < k =>
                 Rank(Ranked(SetToSeq(fetched))[i].severity) <=
                 Rank(Ranked(SetToSeq(fetched))[k].severity)
<1>. DEFINE n == Cardinality(fetched)
            listed == SetToSeq(fetched)
            ranked == Sorted(listed)
<1>1. n \in Nat /\ ExistsBijection(1..n, fetched)
  BY FS_CardinalityType
<1>2. IsFiniteSet(1..n) /\ Cardinality(1..n) = n
  BY <1>1, FS_Interval
<1>3. listed \in [1..n -> fetched] /\ IsInjective(listed)
  <2>1. \E f \in [1..n -> fetched] : IsInjective(f)
    BY <1>1 DEF ExistsBijection, Bijection, Injection
  <2>. QED  BY <2>1 DEF SetToSeq
<1>. HIDE DEF listed
<1>4. listed \in Surjection(1..n, fetched)
  <2>1. listed \in Injection(1..n, fetched)
    BY <1>3 DEF Injection, IsInjective
  <2>. QED  BY <1>2, <2>1, FS_Injection
<1>5. \A r \in fetched : \E i \in 1..n : listed[i] = r
  BY <1>4 DEF Surjection
<1>6. listed \in [1..n -> FindingRow]
  BY <1>3
<1>. HIDE DEF n
<1>7. /\ ranked \in [1..n -> FindingRow]
      /\ \A i \in 1..n : \E m \in 1..n : ranked[m] = listed[i]
      /\ \A i, k \in 1..n : i < k => Rank(ranked[i].severity) <= Rank(ranked[k].severity)
  BY <1>1, <1>6, SortedWorstFirst
<1>. HIDE DEF ranked
<1>8. ranked \in Seq(FindingRow) /\ Len(ranked) = n
  BY <1>1, <1>7
<1>9. \A r \in fetched : \E i \in 1..n : ranked[i] = r
  BY <1>5, <1>7
<1>. QED  BY <1>7, <1>8, <1>9 DEF Ranked, ranked, listed, n

\* Whatever the query reads, the rows shown are the worst of them.
LEMMA HitsAreWorst ==
    ASSUME NEW matching, matching \subseteq FindingRow, IsFiniteSet(matching),
           NEW hits \in SearchEverything(matching)
    PROVE  /\ Len(hits) = Min({MAX_RESULTS_PER_KIND, Cardinality(matching)})
           /\ Cardinality(matching) <= OverFetch =>
                 \A f \in matching \ Range(hits), hit \in Range(hits) :
                     Rank(hit.severity) <= Rank(f.severity)
<1>. DEFINE size == Cardinality(matching)
            read == Min({OverFetch, size})
            shown == Min({MAX_RESULTS_PER_KIND, read})
<1>1. size \in Nat /\ MAX_RESULTS_PER_KIND \in Nat /\ OverFetch \in Nat
      /\ OverFetch >= MAX_RESULTS_PER_KIND
  BY FS_CardinalityType, TriageAssumption
<1>2. read = IF OverFetch <= size THEN OverFetch ELSE size
  BY <1>1, MinOfTwo
<1>3. PICK fetched \in kSubset(read, matching) :
         hits = SubSeq(Ranked(SetToSeq(fetched)), 1, shown)
  BY DEF SearchEverything
<1>4. fetched \subseteq matching /\ IsFiniteSet(fetched) /\ Cardinality(fetched) = read
  BY <1>3, FS_Subset DEF kSubset
<1>. HIDE DEF size, read
<1>5. read \in Nat
  BY <1>1, <1>2
<1>6. shown = IF MAX_RESULTS_PER_KIND <= read THEN MAX_RESULTS_PER_KIND ELSE read
  BY <1>1, <1>5, MinOfTwo
<1>. DEFINE ranked == Ranked(SetToSeq(fetched))
<1>7. /\ ranked \in Seq(FindingRow) /\ Len(ranked) = read
      /\ \A r \in fetched : \E i \in 1..read : ranked[i] = r
      /\ \A i, k \in 1..read : i < k => Rank(ranked[i].severity) <= Rank(ranked[k].severity)
  BY <1>4, RankedRows
<1>. HIDE DEF ranked, shown
<1>8. shown \in Nat /\ shown <= read
  BY <1>1, <1>5, <1>6
<1>9. Len(hits) = shown /\ \A i \in 1..shown : hits[i] = ranked[i]
  BY <1>3, <1>7, <1>8 DEF ranked
<1>10. shown = Min({MAX_RESULTS_PER_KIND, size})
  BY <1>1, <1>2, <1>6, MinOfTwo
<1>11. DOMAIN hits = 1..shown
  BY <1>3, <1>7, <1>8 DEF ranked
<1>12. ASSUME size <= OverFetch, NEW f \in matching \ Range(hits), NEW hit \in Range(hits)
       PROVE  Rank(hit.severity) <= Rank(f.severity)
  <2>1. fetched = matching
    BY <1>1, <1>2, <1>4, <1>12, FS_Subset DEF size
  <2>2. PICK k \in 1..read : ranked[k] = f
    BY <1>7, <2>1
  <2>3. PICK i \in 1..shown : hit = ranked[i]
    BY <1>9, <1>11 DEF Range
  <2>4. k \notin 1..shown
    BY <1>9, <1>11, <2>2 DEF Range
  <2>5. i \in 1..read /\ i < k
    BY <1>5, <1>8, <2>4
  <2>. QED  BY <1>7, <2>2, <2>3, <2>5
<1>. QED  BY <1>9, <1>10, <1>12 DEF size

(***************************************************************************)
(* For any workflows, plugins, statuses and limits: no session of any      *)
(* length in the findings dialog loses a finding from view or parts the    *)
(* dialog from the table, and a search of an analysis that has just got    *)
(* its verdict leads with the worst of the findings it reads.              *)
(***************************************************************************)
THEOREM FindingsKeptInView == EngineSpec => []FindingsStayInView
<1>1. ASSUME NEW rows, NEW dialog \in Sessions(rows, TRUE)
      PROVE  /\ dialog.copy = dialog.table
             /\ DOMAIN dialog.cards = Visible(dialog)
             /\ DOMAIN OnHideToggled(dialog).cards \cup DOMAIN dialog.cards = rows
  <2>1. DialogInv(rows, TRUE, dialog)
    BY SessionInv
  <2>2. /\ dialog.hide \in BOOLEAN /\ DOMAIN dialog.copy = rows
        /\ DOMAIN dialog.cards = Visible(dialog)
    BY <2>1 DEF DialogInv, DialogOf
  <2>. DEFINE toggled == [dialog EXCEPT !.hide = ~@]
  <2>3. toggled.copy = dialog.copy /\ toggled.hide = ~dialog.hide /\ toggled \in DialogOf(rows)
    BY <2>1 DEF DialogInv, DialogOf
  <2>4. DOMAIN OnHideToggled(dialog).cards = Visible(toggled)
    BY <2>3 DEF OnHideToggled, RebuildList, DialogOf
  <2>5. Visible(toggled) \cup Visible(dialog) = rows
    BY <2>2, <2>3 DEF Visible
  <2>. QED  BY <2>1, <2>2, <2>4, <2>5 DEF DialogInv
<1>2. ASSUME NEW rows, NEW dialog \in Sessions(rows, FALSE)
      PROVE  RebuildList(dialog) = dialog
  <2>1. DialogInv(rows, FALSE, dialog)
    BY SessionInv
  <2>2. dialog.cards = [f \in Visible(dialog) |-> FindingCard(dialog, f)]
    <3>1. dialog.cards = [f \in DOMAIN dialog.cards |-> dialog.cards[f]]
      BY <2>1 DEF DialogInv, DialogOf
    <3>. QED  BY <2>1, <3>1 DEF DialogInv, FindingCard
  <2>. QED  BY <2>1, <2>2 DEF DialogInv, DialogOf, RebuildList
<1>3. TriageIsKept
  BY <1>1, <1>2 DEF TriageIsKept
<1>4. CountedStoryInv => SearchLeadsWithWorst
  <2>. SUFFICES ASSUME CountedStoryInv, NEW j \in Job, JustFinalized(j)
                PROVE  /\ \A matching \in SUBSET findings[j] :
                             \A hits \in SearchEverything(matching) :
                                /\ Len(hits) = Min({MAX_RESULTS_PER_KIND, Cardinality(matching)})
                                /\ Cardinality(matching) <= OverFetch =>
                                      \A f \in matching \ Range(hits), hit \in Range(hits) :
                                          Rank(hit.severity) <= Rank(f.severity)
                       /\ \A table \in [findings[j] -> FindingStatus] :
                             DOMAIN OnHit(j, table).cards =
                                 {f \in findings[j] : table[f] \notin HIDDEN_BY_DEFAULT}
    BY DEF SearchLeadsWithWorst
  <2>1. IsFiniteSet(findings[j]) /\ findings[j] \subseteq FindingRow
    BY DEF CountedStoryInv, CountedInv, StoryInv, EngineInv, EngineTypeOK
  <2>2. ASSUME NEW matching \in SUBSET findings[j]
        PROVE  matching \subseteq FindingRow /\ IsFiniteSet(matching)
    BY <2>1, FS_Subset
  <2>3. ASSUME NEW table \in [findings[j] -> FindingStatus]
        PROVE  DOMAIN OnHit(j, table).cards =
                   {f \in findings[j] : table[f] \notin HIDDEN_BY_DEFAULT}
    BY DEF OnHit, OpenFindings, RebuildList, Visible
  <2>. QED  BY <2>2, <2>3, HitsAreWorst
<1>. QED  BY <1>3, <1>4, CountedStoryInvariance, PTL DEF FindingsStayInView
=============================================================================
