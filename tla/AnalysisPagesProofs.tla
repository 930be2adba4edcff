------------------------ MODULE AnalysisPagesProofs ------------------------
(***************************************************************************)
(* Proofs about AnalysisRunner composed with WorkflowEngine, and about the *)
(* pages that live on the runner's signals.  The jobs, the worker threads, *)
(* the steps of a poll and the slots it calls interleave in every possible *)
(* way, for every set of jobs, projects and pages, and any bounded number  *)
(* of transactions and processes may fail.                                 *)
(***************************************************************************)
EXTENDS AnalysisPages, WorkflowEngineProofs

-----------------------------------------------------------------------------
(***************************************************************************)
(* The runner.                                                             *)
(***************************************************************************)
\* What _poll relies on: it only forgets jobs it has announced, and a job it
\* has to look at was submitted.
PollInv ==
    /\ RunnerTypeOK
    /\ \A j \in finished : completed[j] # <<>>
    /\ UnannouncedJobIsPolled

RunnerInv == EngineInv /\ PollInv /\ SignalsAreFinal

-----------------------------------------------------------------------------
(***************************************************************************)
(* The runner changes the engine's variables through Submit, through the   *)
(* steps of the threads, through a kill, and by a failing lookup.          *)
(***************************************************************************)
LEMMA EngineSide ==
    ASSUME [Next]_vars
    PROVE  [EngineNext]_engineVars \/ \E j \in Job : PollLookupFails(j)
<1>1. CASE \E j \in Job, w \in Workflow : Start(j, w)
  BY <1>1 DEF Start, EngineNext
<1>2. CASE \E j \in Job : Work(j)
  BY <1>2 DEF Work, EngineNext
<1>3. CASE PollBegin \/ PollEnd \/ Close
  BY <1>3 DEF PollBegin, PollEnd, Close
<1>4. CASE \E j \in Job : PollJob(j)
  BY <1>4 DEF PollJob, PollUnfinished, PollFinished
<1>5. CASE \E p \in PluginId : Toggle(p)
  BY <1>5 DEF Toggle, EngineNext
<1>6. CASE KillAndRestart
  BY <1>6 DEF KillAndRestart, EngineNext
<1>7. CASE UNCHANGED vars
  BY <1>7 DEF vars
<1>. QED  BY <1>1, <1>2, <1>3, <1>4, <1>5, <1>6, <1>7 DEF Next, Poll

LEMMA LookupFailsKept ==
    ASSUME EngineInv, NEW j \in Job, PollLookupFails(j)
    PROVE  EngineInv' /\ UNCHANGED <<pc, monitor, analyses, findings>>
<1>1. /\ faults \in Nat /\ faults > 0 /\ faults' = faults - 1
      /\ UNCHANGED <<queue, worker, monitor, database, crashes>>
  BY DEF PollLookupFails, EngineInv, EngineTypeOK
<1>2. EngineTypeOK'
  BY <1>1 DEF EngineInv, EngineTypeOK, worker, database
<1>3. QueueInv'
  BY <1>1 DEF EngineInv, QueueInv, worker
<1>4. ASSUME NEW k \in Job PROVE JobInv(k)'
  BY <1>1, JobInvKept DEF EngineInv, EntriesKept, worker, database
<1>. QED  BY <1>1, <1>2, <1>3, <1>4 DEF EngineInv, worker, database

LEMMA EngineInvKept ==
    ASSUME EngineInv, [Next]_vars
    PROVE  EngineInv'
BY EngineSide, LookupFailsKept, EngineInvStep

\* A finished row stays what it is, also behind a poll.
LEMMA FrozenBehindPoll ==
    ASSUME EngineInv, [Next]_vars, NEW k \in Job, Finalized(k)
    PROVE  analyses'[k] = analyses[k] /\ Finalized(k)'
<1>1. analyses'[k] = analyses[k]
  BY EngineSide, LookupFailsKept, FrozenStep
<1>. QED  BY <1>1 DEF Finalized, HasRow

-----------------------------------------------------------------------------
\* What a completed signal carries: the verdict and the score of the row.
LEMMA AnnouncedTruthfully ==
    ASSUME EngineInv, NEW j \in Job, JobDone(j)
    PROVE  /\ Finalized(j)
           /\ monitor[j].status = analyses[j].status
           /\ LookupRiskScore(j) = analyses[j].risk
           /\ monitor[j].status \in Verdict
           /\ analyses[j].risk \in (SUBSET FindingRow) \cup {None}
<1>1. /\ monitor[j] # None /\ monitor[j].status \in Verdict
      /\ JobInv(j) /\ analyses[j] \in AnalysisRow \cup {None}
  BY DEF JobDone, EngineInv, EngineTypeOK
<1>2. pc[j] = "returned" /\ Finalized(j) /\ monitor[j].status = analyses[j].status
  BY <1>1 DEF JobInv, MonitorInv, RowInv, Verdict
<1>3. analyses[j] \in AnalysisRow
  BY <1>1, <1>2 DEF Finalized, HasRow
<1>. QED  BY <1>1, <1>2, <1>3 DEF LookupRiskScore, Finalized, AnalysisRow

\* A thread's step moves a job that was submitted and keeps it so.
LEMMA SubmittedBefore ==
    ASSUME EngineInv, NEW j \in Job, WorkerStep(j), NEW k \in Job,
           pc'[k] \notin {"idle", "lost"}
    PROVE  pc[k] \notin {"idle", "lost"}
<1>1. CASE k # j
  BY <1>1, OthersKept DEF EngineInv, EntriesKept
<1>2. CASE k = j
  BY <1>2, HeadIsQueued DEF WorkerStep, CreateAnalysisRow, Register, Instantiate,
     InstantiateFails, Execute, ExecuteRaises, ExecuteMalformed, Persist, RecordStepFailure,
     RecordStepSkip, AdvanceStep, ComputeRiskScore, FinalizeAnalysis, Finish, DatabaseError,
     InTransaction
<1>. QED  BY <1>1, <1>2

LEMMA PollStep == RunnerInv /\ [Next]_vars => PollInv'
<1>. SUFFICES ASSUME RunnerInv, [Next]_vars
              PROVE  PollInv'
  OBVIOUS
<1>. USE DEF PollInv, RunnerTypeOK, UnannouncedJobIsPolled
<1>0. PollInv /\ EngineInv /\ pc \in [Job -> Phase]
  BY DEF RunnerInv, EngineInv, EngineTypeOK
<1>1. ASSUME NEW j \in Job, NEW w \in Workflow, Start(j, w)
      PROVE  PollInv'
  BY <1>0, <1>1 DEF Start, Submit, GoTo, GuiIdle
<1>2. ASSUME NEW j \in Job, Work(j)
      PROVE  PollInv'
  <2>1. \A k \in Job : pc'[k] \notin {"idle", "lost"} => pc[k] \notin {"idle", "lost"}
    BY <1>0, <1>2, SubmittedBefore DEF Work
  <2>. QED  BY <1>0, <1>2, <2>1 DEF Work, runnerVars
<1>3. CASE PollBegin
  BY <1>0, <1>3 DEF PollBegin, engineVars, worker
<1>4. ASSUME NEW j \in Job, PollUnfinished(j)
      PROVE  PollInv'
  BY <1>0, <1>4 DEF PollUnfinished, engineVars, worker
<1>5. ASSUME NEW j \in Job, PollFinished(j)
      PROVE  PollInv'
  <2>. DEFINE signal == [status |-> monitor[j].status, risk |-> LookupRiskScore(j)]
              Signal == [status : Verdict, risk : (SUBSET FindingRow) \cup {None}]
  <2>1. /\ JobDone(j) /\ j \in todo /\ todo' = todo \ {j} /\ finished' = finished \cup {j}
        /\ completed' = [completed EXCEPT ![j] = Append(@, signal)]
        /\ UNCHANGED <<pc, active, timer, polling, open>>
    BY <1>5 DEF PollFinished, engineVars, worker
  <2>2. signal \in Signal /\ completed \in [Job -> Seq(Signal)] /\ j \in Job
    BY <1>0, <2>1, AnnouncedTruthfully
  <2>. HIDE DEF signal, Signal
  <2>3. /\ completed' \in [Job -> Seq(Signal)]
        /\ completed'[j] # <<>>
        /\ \A k \in Job \ {j} : completed'[k] = completed[k]
    BY <2>1, <2>2
  <2>. QED  BY <1>0, <2>1, <2>3 DEF Signal
<1>6. ASSUME NEW j \in Job, PollLookupFails(j)
      PROVE  PollInv'
  BY <1>0, <1>6, LookupFailsKept DEF PollLookupFails
<1>7. CASE PollEnd
  BY <1>0, <1>7 DEF PollEnd, engineVars, worker
<1>8. ASSUME NEW p \in PluginId, Toggle(p)
      PROVE  PollInv'
  BY <1>0, <1>8 DEF Toggle, SetEnabled, runnerVars, worker
<1>9. CASE Close
  BY <1>0, <1>9 DEF Close, engineVars, worker
<1>10. CASE KillAndRestart
  BY <1>0, <1>10 DEF KillAndRestart, Kill
<1>11. CASE UNCHANGED vars
  BY <1>0, <1>11 DEF vars, runnerVars, engineVars, worker
<1>. QED
  BY <1>1, <1>2, <1>3, <1>4, <1>5, <1>6, <1>7, <1>8, <1>9, <1>10, <1>11 DEF Next, Poll, PollJob

\* completed only grows at PollFinished.
LEMMA OnlyPollAnnounces ==
    ASSUME [Next]_vars, \A j \in Job : ~PollFinished(j)
    PROVE  completed' = completed
BY DEF Next, Poll, PollJob, Start, Work, PollBegin, PollUnfinished, PollLookupFails, PollEnd,
       Toggle, Close, KillAndRestart, vars, runnerVars

LEMMA SignalsStep == RunnerInv /\ [Next]_vars => SignalsAreFinal'
<1>. SUFFICES ASSUME RunnerInv, [Next]_vars,
                     NEW k \in Job, NEW i \in DOMAIN completed'[k]
              PROVE  /\ Finalized(k)'
                     /\ completed'[k][i].status = analyses'[k].status
                     /\ completed'[k][i].risk = analyses'[k].risk
  BY DEF SignalsAreFinal
<1>0. EngineInv /\ RunnerTypeOK /\ SignalsAreFinal
  BY DEF RunnerInv, PollInv
<1>1. CASE i \in DOMAIN completed[k] /\ completed'[k][i] = completed[k][i]
  BY <1>0, <1>1, FrozenBehindPoll DEF SignalsAreFinal
<1>2. ASSUME NEW j \in Job, PollFinished(j),
             ~(i \in DOMAIN completed[k] /\ completed'[k][i] = completed[k][i])
      PROVE  /\ Finalized(k)'
             /\ completed'[k][i].status = analyses'[k].status
             /\ completed'[k][i].risk = analyses'[k].risk
  <2>. DEFINE signal == [status |-> monitor[j].status, risk |-> LookupRiskScore(j)]
  <2>1. /\ JobDone(j) /\ analyses' = analyses
        /\ completed' = [completed EXCEPT ![j] = Append(@, signal)]
    BY <1>2 DEF PollFinished, engineVars, database
  <2>2. /\ Finalized(j) /\ signal.status = analyses[j].status
        /\ signal.risk = analyses[j].risk
    BY <1>0, <2>1, AnnouncedTruthfully
  <2>. HIDE DEF signal
  <2>3. k = j /\ completed'[k][i] = signal
    BY <1>0, <1>2, <2>1 DEF RunnerTypeOK
  <2>. QED  BY <2>1, <2>2, <2>3 DEF Finalized, HasRow
<1>3. CASE \A j \in Job : ~PollFinished(j)
  BY <1>1, <1>3, OnlyPollAnnounces
<1>. QED  BY <1>1, <1>2, <1>3

LEMMA RunnerInvInit == Init => RunnerInv
<1>. SUFFICES ASSUME Init PROVE RunnerInv
  OBVIOUS
<1>1. EngineInv
  BY EngineInvInit DEF Init
<1>2. RunnerTypeOK
  <2>. DEFINE Signal == [status : Verdict, risk : (SUBSET FindingRow) \cup {None}]
  <2>1. completed = [j \in Job |-> <<>>] /\ <<>> \in Seq(Signal)
    BY DEF Init
  <2>. HIDE DEF Signal
  <2>2. completed \in [Job -> Seq(Signal)]
    BY <2>1
  <2>. QED  BY <2>2 DEF Init, RunnerTypeOK, Signal
<1>3. (\A j \in finished : completed[j] # <<>>) /\ UnannouncedJobIsPolled
  BY DEF Init, EngineInit, UnannouncedJobIsPolled
<1>4. SignalsAreFinal
  <2>1. \A j \in Job : DOMAIN completed[j] = {}
    BY DEF Init
  <2>. QED  BY <2>1 DEF SignalsAreFinal
<1>. QED  BY <1>1, <1>2, <1>3, <1>4 DEF RunnerInv, PollInv

LEMMA RunnerInvStep == RunnerInv /\ [Next]_vars => RunnerInv'
BY EngineInvKept, PollStep, SignalsStep DEF RunnerInv

LEMMA RunnerInvariance == Spec => []RunnerInv
BY RunnerInvInit, RunnerInvStep, PTL DEF Spec

(***************************************************************************)
(* Every variable of the engine and the runner keeps its type.             *)
(***************************************************************************)
THEOREM RunnerTypeCorrect == Spec => []TypeOK
<1>1. RunnerInv => TypeOK
  BY DEF RunnerInv, PollInv, EngineInv, TypeOK
<1>. QED  BY <1>1, RunnerInvariance, PTL

(***************************************************************************)
(* A page that trusts the payload of a completed signal is never wrong.    *)
(***************************************************************************)
THEOREM SignalsCorrect == Spec => []SignalsAreFinal
<1>1. RunnerInv => SignalsAreFinal
  BY DEF RunnerInv
<1>. QED  BY <1>1, RunnerInvariance, PTL

(***************************************************************************)
(* While the window is open _poll never loses a job it has not announced.  *)
(***************************************************************************)
THEOREM NoJobForgotten == Spec => []UnannouncedJobIsPolled
<1>1. RunnerInv => UnannouncedJobIsPolled
  BY DEF RunnerInv, PollInv
<1>. QED  BY <1>1, RunnerInvariance, PTL

-----------------------------------------------------------------------------
(***************************************************************************)
(* Announcing once.  With no failing transaction a poll always reaches its *)
(* end, so a job that was announced and is still active is one the poll    *)
(* under way has finished with.                                            *)
(***************************************************************************)
AnnouncedIsHandled ==
    \A j \in active : completed[j] # <<>> => polling /\ j \in finished /\ j \notin todo

AtMostOnce == \A j \in Job : Len(completed[j]) <= 1

OnceInv == faults <= DbFaults /\ (faults = DbFaults => AtMostOnce /\ AnnouncedIsHandled)

LEMMA FaultsOnlyFall ==
    ASSUME [Next]_vars, faults \in Nat, faults <= DbFaults
    PROVE  /\ faults' <= DbFaults
           /\ faults' = DbFaults =>
                 faults = DbFaults /\ \A j \in Job : ~PollLookupFails(j)
<1>0. DbFaults \in Nat
  BY BoundAssumption
<1>1. ASSUME NEW j \in Job, PollLookupFails(j) \/ DatabaseError(j)
      PROVE  faults' = faults - 1
  BY <1>1 DEF PollLookupFails, DatabaseError
<1>2. ASSUME NEW j \in Job, WorkerStep(j) \/ \E w \in Workflow : Submit(j, w), ~DatabaseError(j)
      PROVE  faults' = faults
  BY <1>2 DEF Submit, WorkerStep, PickUp, CreateAnalysisRow, Register, Instantiate,
     InstantiateFails, Execute, ExecuteRaises, ExecuteMalformed, Persist, RecordStepFailure,
     RecordStepSkip, AdvanceStep, ComputeRiskScore, FinalizeAnalysis, Finish, budget
<1>3. ASSUME (\E p \in PluginId : SetEnabled(p)) \/ Kill \/ UNCHANGED engineVars
      PROVE  faults' = faults
  BY <1>3 DEF SetEnabled, Kill, engineVars, budget
<1>4. faults' = faults \/ faults' = faults - 1
  BY <1>1, <1>2, <1>3, EngineSide DEF EngineNext
<1>. QED  BY <1>0, <1>1, <1>4

LEMMA OnceStep == RunnerInv /\ OnceInv /\ [Next]_vars => OnceInv'
<1>. SUFFICES ASSUME RunnerInv, OnceInv, [Next]_vars,
                     faults' = DbFaults
              PROVE  AtMostOnce' /\ AnnouncedIsHandled'
  BY FaultsOnlyFall DEF OnceInv, RunnerInv, EngineInv, EngineTypeOK
<1>0. /\ RunnerTypeOK /\ AtMostOnce /\ AnnouncedIsHandled
      /\ \A j \in Job : ~PollLookupFails(j)
  BY FaultsOnlyFall DEF RunnerInv, EngineInv, EngineTypeOK, PollInv, OnceInv
<1>. USE DEF RunnerTypeOK, AtMostOnce, AnnouncedIsHandled
<1>1. ASSUME NEW j \in Job, NEW w \in Workflow, Start(j, w)
      PROVE  AtMostOnce' /\ AnnouncedIsHandled'
  <2>1. pc[j] = "idle" /\ ~Finalized(j)
    BY <1>1 DEF Start, Submit, RunnerInv, EngineInv, JobInv, RowInv
  <2>2. completed[j] = <<>>
    <3>. DEFINE Signal == [status : Verdict, risk : (SUBSET FindingRow) \cup {None}]
    <3>1. completed[j] \in Seq(Signal)
      BY <1>0
    <3>2. 1 \notin DOMAIN completed[j]
      BY <2>1 DEF RunnerInv, SignalsAreFinal
    <3>. HIDE DEF Signal
    <3>. QED  BY <3>1, <3>2
  <2>. QED  BY <1>0, <1>1, <2>2 DEF Start
<1>2. ASSUME NEW j \in Job, PollFinished(j)
      PROVE  AtMostOnce' /\ AnnouncedIsHandled'
  <2>. DEFINE signal == [status |-> monitor[j].status, risk |-> LookupRiskScore(j)]
              Signal == [status : Verdict, risk : (SUBSET FindingRow) \cup {None}]
  <2>1. /\ polling /\ j \in todo /\ todo' = todo \ {j} /\ finished' = finished \cup {j}
        /\ completed' = [completed EXCEPT ![j] = Append(@, signal)]
        /\ UNCHANGED <<active, polling>>
    BY <1>2 DEF PollFinished
  <2>2. completed \in [Job -> Seq(Signal)] /\ completed[j] = <<>>
    BY <1>0, <2>1
  <2>. HIDE DEF signal, Signal
  <2>3. completed' = [completed EXCEPT ![j] = <<signal>>]
    BY <2>1, <2>2
  <2>4. AtMostOnce'
    BY <1>0, <2>2, <2>3
  <2>5. AnnouncedIsHandled'
    BY <1>0, <2>1, <2>2, <2>3
  <2>. QED  BY <2>4, <2>5
<1>3. CASE PollBegin
  BY <1>0, <1>3 DEF PollBegin, GuiIdle
<1>4. ASSUME NEW j \in Job, PollUnfinished(j)
      PROVE  AtMostOnce' /\ AnnouncedIsHandled'
  BY <1>0, <1>4 DEF PollUnfinished
<1>5. CASE PollEnd
  BY <1>0, <1>5 DEF PollEnd
<1>6. CASE (\E j \in Job : Work(j)) \/ (\E p \in PluginId : Toggle(p)) \/ UNCHANGED vars
  BY <1>0, <1>6 DEF Work, Toggle, vars, runnerVars
<1>7. CASE Close \/ KillAndRestart
  BY <1>0, <1>7 DEF Close, KillAndRestart
<1>. QED
  BY <1>0, <1>1, <1>2, <1>3, <1>4, <1>5, <1>6, <1>7 DEF Next, Poll, PollJob

(***************************************************************************)
(* Until a transaction fails every job is announced at most once, however  *)
(* polls, threads, closing and kills interleave: ProjectsPage writes two   *)
(* reports for each announcement.                                          *)
(***************************************************************************)
THEOREM AnnouncedOnce == Spec => []CompletedOnce
<1>1. Init => OnceInv
  BY BoundAssumption DEF Init, EngineInit, OnceInv, AtMostOnce, AnnouncedIsHandled
<1>2. OnceInv => CompletedOnce
  BY DEF OnceInv, AtMostOnce, CompletedOnce
<1>. QED  BY <1>1, <1>2, OnceStep, RunnerInvariance, PTL DEF Spec

-----------------------------------------------------------------------------
(***************************************************************************)
(* The refinement of AnalysisLifecycle: creating the row opens the         *)
(* analysis, finalizing it settles it, a completed signal announces it,    *)
(* and every other step stutters.                                          *)
(***************************************************************************)
LEMMA LedgerStep ==
    ASSUME EngineInv, [EngineNext]_engineVars
    PROVE  \/ Ledger' = Ledger
           \/ \E j \in Job :
                 \/ Ledger[j] = "none" /\ Ledger' = [Ledger EXCEPT ![j] = "running"]
                 \/ \E verdict \in Verdict :
                       Ledger[j] = "running" /\ Ledger' = [Ledger EXCEPT ![j] = verdict]
<1>0. analyses \in [Job -> AnalysisRow \cup {None}] /\ pc \in [Job -> Phase]
        /\ \A j \in Job : JobInv(j)
  BY DEF EngineInv, EngineTypeOK
<1>1. CASE analyses' = analyses
  BY <1>1 DEF Ledger, HasRow
<1>2. ASSUME NEW j \in Job, CreateAnalysisRow(j)
      PROVE  Ledger[j] = "none" /\ Ledger' = [Ledger EXCEPT ![j] = "running"]
  <2>1. [status |-> "running", notes |-> <<>>, risk |-> None] \in AnalysisRow
    BY DEF AnalysisRow
  <2>2. /\ analyses[j] = None
        /\ analyses' = [analyses EXCEPT
                          ![j] = [status |-> "running", notes |-> <<>>, risk |-> None]]
    BY <1>0, <1>2 DEF CreateAnalysisRow, JobInv, RowInv, Fresh
  <2>. QED  BY <1>0, <2>1, <2>2, NoneAssumption DEF Ledger, HasRow
<1>3. ASSUME NEW j \in Job, FinalizeAnalysis(j)
      PROVE  \E verdict \in Verdict :
               Ledger[j] = "running" /\ Ledger' = [Ledger EXCEPT ![j] = verdict]
  <2>1. FinalStatus(j) \in Verdict /\ HasRow(j) /\ analyses[j].status = "running"
    BY <1>0, <1>3 DEF FinalizeAnalysis, FinalStatus, Verdict, JobInv, RowInv, Unfinished
  <2>2. analyses'[j] # None /\ analyses'[j].status = FinalStatus(j)
    BY <1>3, VerdictWritten, NoneAssumption
  <2>3. \A k \in Job \ {j} : analyses'[k] = analyses[k]
    BY <1>0, <1>3 DEF FinalizeAnalysis
  <2>. QED  BY <2>1, <2>2, <2>3 DEF Ledger, HasRow
<1>4. ASSUME NEW j \in Job, RecordStepFailure(j) \/ RecordStepSkip(j)
      PROVE  Ledger' = Ledger
  <2>1. HasRow(j) /\ analyses[j].status = "running"
    BY <1>4, LoopStep DEF RecordStepFailure, RecordStepSkip, Loop
  <2>2. analyses'[j] # None /\ analyses'[j].status = "running"
    BY <1>4, NoteWritten, NoneAssumption
  <2>3. \A k \in Job \ {j} : analyses'[k] = analyses[k]
    BY <1>0, <1>4 DEF RecordStepFailure, RecordStepSkip, AddNote
  <2>. QED  BY <2>1, <2>2, <2>3 DEF Ledger, HasRow
<1>5. ASSUME NEW j \in Job, WorkerStep(j) \/ \E w \in Workflow : Submit(j, w),
             ~CreateAnalysisRow(j), ~FinalizeAnalysis(j),
             ~RecordStepFailure(j), ~RecordStepSkip(j)
      PROVE  analyses' = analyses
  BY <1>5 DEF Submit, WorkerStep, PickUp, Register, Instantiate, InstantiateFails, Execute,
     ExecuteRaises, ExecuteMalformed, Persist, AdvanceStep, ComputeRiskScore, Finish,
     DatabaseError, database
<1>6. CASE (\E p \in PluginId : SetEnabled(p)) \/ Kill \/ UNCHANGED engineVars
  BY <1>1, <1>6 DEF SetEnabled, Kill, engineVars, database
<1>. QED  BY <1>1, <1>2, <1>3, <1>4, <1>5, <1>6 DEF EngineNext

LEMMA LifecycleStep ==
    RunnerInv /\ [Next]_vars => [Lifecycle!Next]_<<Ledger, Told>>
<1>. SUFFICES ASSUME RunnerInv, [Next]_vars
              PROVE  [Lifecycle!Next]_<<Ledger, Told>>
  OBVIOUS
<1>0. EngineInv /\ RunnerTypeOK
  BY DEF RunnerInv, PollInv
<1>1. ASSUME NEW j \in Job, PollFinished(j)
      PROVE  Lifecycle!Announce(j)
  <2>. DEFINE signal == [status |-> monitor[j].status, risk |-> LookupRiskScore(j)]
              Signal == [status : Verdict, risk : (SUBSET FindingRow) \cup {None}]
  <2>1. /\ JobDone(j) /\ analyses' = analyses
        /\ completed' = [completed EXCEPT ![j] = Append(@, signal)]
    BY <1>1 DEF PollFinished, engineVars, database
  <2>2. /\ Ledger[j] \in Verdict /\ signal.status = Ledger[j]
        /\ completed \in [Job -> Seq(Signal)] /\ signal \in Signal
    BY <1>0, <2>1, AnnouncedTruthfully DEF RunnerTypeOK, Ledger, Finalized
  <2>. HIDE DEF signal, Signal
  <2>3. Ledger' = Ledger
    BY <2>1 DEF Ledger, HasRow
  <2>4. {completed'[j][i].status : i \in DOMAIN completed'[j]}
          = {completed[j][i].status : i \in DOMAIN completed[j]} \cup {Ledger[j]}
    <3>1. completed'[j] = Append(completed[j], signal) /\ completed[j] \in Seq(Signal)
      BY <2>1, <2>2
    <3>2. DOMAIN completed'[j] = DOMAIN completed[j] \cup {Len(completed[j]) + 1}
      BY <2>2, <3>1
    <3>3. completed'[j][Len(completed[j]) + 1] = signal
      BY <2>2, <3>1
    <3>4. \A i \in DOMAIN completed[j] : completed'[j][i] = completed[j][i]
      BY <2>2, <3>1
    <3>. QED  BY <2>2, <3>2, <3>3, <3>4
  <2>5. \A k \in Job \ {j} : completed'[k] = completed[k]
    BY <2>1, <2>2
  <2>6. Told' = [Told EXCEPT ![j] = @ \cup {Ledger[j]}]
    <3>1. Told = [k \in Job |-> Told[k]] /\ Told' = [k \in Job |-> Told'[k]]
      BY DEF Told
    <3>2. Told'[j] = Told[j] \cup {Ledger[j]}
      BY <2>4 DEF Told
    <3>3. \A k \in Job \ {j} : Told'[k] = Told[k]
      BY <2>5 DEF Told
    <3>. QED  BY <3>1, <3>2, <3>3
  <2>. QED  BY <2>2, <2>3, <2>6 DEF Lifecycle!Announce, Lifecycle!Verdict, Verdict
<1>2. CASE \A j \in Job : ~PollFinished(j)
  <2>1. Told' = Told
    BY <1>2, OnlyPollAnnounces DEF Told
  <2>2. CASE \E j \in Job : PollLookupFails(j)
    <3>1. Ledger' = Ledger
      BY <1>0, <2>2, LookupFailsKept DEF Ledger, HasRow
    <3>. QED  BY <2>1, <3>1
  <2>3. CASE [EngineNext]_engineVars
    BY <1>0, <2>1, <2>3, LedgerStep
       DEF Lifecycle!Next, Lifecycle!Open, Lifecycle!Settle, Lifecycle!Verdict, Verdict
  <2>. QED  BY <2>2, <2>3, EngineSide
<1>. QED  BY <1>1, <1>2 DEF Lifecycle!Next

(***************************************************************************)
(* The orchestrator implements the life cycle of an analysis: a row is     *)
(* created once, settled once, never reopened, and only the verdict it was *)
(* settled with reaches the pages.                                         *)
(***************************************************************************)
THEOREM LifecycleImplemented == Spec => ImplementsLifecycle
<1>1. Init => Lifecycle!Init
  <2>. SUFFICES ASSUME Init PROVE Lifecycle!Init
    OBVIOUS
  <2>1. Ledger = [j \in Job |-> "none"]
    BY DEF Init, EngineInit, Ledger, HasRow
  <2>2. Told = [j \in Job |-> {}]
    BY DEF Init, Told
  <2>. QED  BY <2>1, <2>2 DEF Lifecycle!Init
<1>. QED
  BY <1>1, LifecycleStep, RunnerInvariance, PTL DEF Spec, ImplementsLifecycle, Lifecycle!Spec

-----------------------------------------------------------------------------
(***************************************************************************)
(* The pages.                                                              *)
(***************************************************************************)
\* A job a page knows of was submitted, a job whose row a page reads has one, and
\* _job_rows holds jobs of projects that are yet to be announced.
JobsInv ==
    /\ \A j \in active : pc[j] # "idle"
    /\ \A i \in DOMAIN creations : HasRow(creations[i])
    /\ \A j \in Job : HasRowWidget(j) => completed[j] = <<>> /\ project_of[j] \in Project

\* Until a lookup fails a report row is of the first announcement of its job, so
\* that two rows never share a file.
ReportsInv ==
    /\ listed \subseteq reports
    /\ faults = DbFaults => RowsHaveFiles /\ \A r \in reports : r.nth = 1

PagesInv ==
    /\ RunnerInv /\ OnceInv
    /\ PagesTypeOK /\ mishaps <= MaxMishaps
    /\ JobsInv /\ RunButtonFollowsJob /\ CardIsCurrent /\ BusyRowHasJob /\ ReportsInv

-----------------------------------------------------------------------------
(***************************************************************************)
(* The pages add nothing to what the runner does: each of their steps is   *)
(* one of its steps or leaves it alone.                                    *)
(***************************************************************************)
LEMMA PagesAreRunner == [PagesNext]_allVars => [Next]_vars
<1>. SUFFICES ASSUME [PagesNext]_allVars PROVE Next \/ UNCHANGED vars
  OBVIOUS
<1>1. ASSUME NEW j \in Job, NEW p \in Project,
             RunStatic(j, p) \/ \E pg \in Page : RunWorkflow(j, pg, p)
      PROVE  Next
  BY <1>1, PagesAssumption DEF RunStatic, RunWorkflow, Next
<1>2. ASSUME NEW j \in Job, WorkBehindPages(j)
      PROVE  Next
  BY <1>2 DEF WorkBehindPages, Next
<1>3. CASE PagePolls
  BY <1>3 DEF PagePolls, PollBegins, PollEnds, PollsUnfinished, PollsFinished, LookupFails,
              PollJob, Poll, Next
<1>4. CASE CloseWindow \/ RestartPages
  BY <1>4 DEF CloseWindow, RestartPages, Next
<1>5. CASE NewProject \/ RefreshReports \/ SecondPasses \/ UNCHANGED allVars
  BY <1>5 DEF NewProject, RefreshReports, SecondPasses, allVars
<1>6. CASE (\E pg \in Page : Show(pg)) \/ \E r \in listed : DeleteReport(r)
  BY <1>6 DEF Show, DeleteReport
<1>. QED  BY <1>1, <1>2, <1>3, <1>4, <1>5, <1>6 DEF PagesNext

(***************************************************************************)
(* ProjectsPage, WorkflowPage and ReportsPage use the runner as any page   *)
(* may: what is proved of Spec holds behind them.                          *)
(***************************************************************************)
THEOREM PagesUseRunner == PagesSpec => Spec
<1>1. PagesInit => Init
  BY DEF PagesInit
<1>. QED  BY <1>1, PagesAreRunner, PTL DEF PagesSpec, Spec

-----------------------------------------------------------------------------
\* A nonempty set of positions has a last one.
LEMMA LastPosition ==
    ASSUME NEW n \in Nat, NEW S \in SUBSET (1..n), S # {}
    PROVE  \E i \in S : \A k \in S : k <= i
<1>. DEFINE T == {n - i : i \in S}
            R == OpToRel(<, Nat)
<1>1. T \subseteq Nat /\ T # {}
  <2>1. \A i \in S : n - i \in Nat
    OBVIOUS
  <2>2. PICK i \in S : TRUE
    OBVIOUS
  <2>3. n - i \in T
    OBVIOUS
  <2>. QED  BY <2>1, <2>3
<1>2. IsWellFoundedOn(R, Nat)
  BY NatLessThanWellFounded
<1>3. \A x, y \in Nat : <<y, x>> \in R <=> y < x
  BY DEF OpToRel
<1>. HIDE DEF R, T
<1>4. PICK m \in T : \A y \in T : ~(<<y, m>> \in R)
  BY <1>1, <1>2, WFMin
<1>5. ASSUME NEW y \in T PROVE m <= y
  <2>1. y \in Nat /\ m \in Nat /\ ~(<<y, m>> \in R)
    BY <1>1, <1>4
  <2>2. ~(y < m)
    BY <1>3, <2>1
  <2>. QED  BY <2>1, <2>2
<1>6. PICK i \in S : m = n - i
  BY <1>4 DEF T
<1>7. ASSUME NEW k \in S PROVE k <= i
  <2>1. n - k \in T
    BY DEF T
  <2>. QED  BY <1>5, <1>6, <2>1
<1>. QED  BY <1>7

\* What _reload_result reads is the row of some analysis.
LEMMA NewestHasRow ==
    ASSUME creations \in Seq(Job), JobsInv, NEW pg \in Page, Newest(pg) # None
    PROVE  \E j \in Job : HasRow(j) /\ Newest(pg) = [job |-> j, status |-> analyses[j].status]
<1>. DEFINE mine == {i \in DOMAIN creations : workflow[creations[i]] = PageWorkflow[pg]}
            last == CHOOSE i \in mine : \A k \in mine : k <= i
<1>1. mine # {} /\ mine \in SUBSET (1..Len(creations)) /\ Len(creations) \in Nat
  BY DEF Newest
<1>2. last \in mine
  <2>. HIDE DEF mine
  <2>. QED  BY <1>1, LastPosition
<1>3. creations[last] \in Job /\ HasRow(creations[last])
  BY <1>2 DEF JobsInv
<1>4. Newest(pg) = [job |-> creations[last], status |-> analyses[creations[last]].status]
  BY <1>1 DEF Newest
<1>. QED  BY <1>3, <1>4

\* What a LAST RUN card may show.
CardShown == [job : Job, status : {"running"} \cup Verdict] \cup {None}

LEMMA NewestTyped ==
    ASSUME EngineInv, creations \in Seq(Job), JobsInv, NEW pg \in Page
    PROVE  Newest(pg) \in CardShown
<1>1. CASE Newest(pg) = None
  BY <1>1 DEF CardShown
<1>2. CASE Newest(pg) # None
  <2>1. PICK j \in Job : HasRow(j) /\ Newest(pg) = [job |-> j, status |-> analyses[j].status]
    BY <1>2, NewestHasRow
  <2>2. analyses[j] \in AnalysisRow
    BY <2>1 DEF EngineInv, EngineTypeOK, HasRow
  <2>. QED  BY <2>1, <2>2 DEF CardShown, AnalysisRow
<1>. QED  BY <1>1, <1>2

LEMMA FailedFormatsType ==
    ASSUME NEW outcome
    PROVE  FailedFormats(outcome) \in Nat
<1>1. IsFiniteSet(Format)
  <2>1. Format = {"html"} \cup {"sarif"}
    BY DEF Format
  <2>2. IsFiniteSet({"html"})
    BY FS_Singleton
  <2>. QED  BY <2>1, <2>2, FS_AddElement
<1>2. {f \in Format : outcome[f] # "ok"} \in SUBSET Format
  OBVIOUS
<1>3. IsFiniteSet({f \in Format : outcome[f] # "ok"})
  BY <1>1, <1>2, FS_Subset
<1>. QED  BY <1>3, FS_CardinalityType DEF FailedFormats

\* An analysis row is never deleted.
LEMMA RowsStay ==
    ASSUME EngineInv, [Next]_vars, NEW k \in Job, HasRow(k)
    PROVE  HasRow(k)'
<1>1. CASE \E j \in Job : PollLookupFails(j)
  BY <1>1, LookupFailsKept DEF HasRow
<1>2. CASE [EngineNext]_engineVars
  <2>1. analyses[k] \in AnalysisRow /\ Ledger[k] = analyses[k].status
    BY DEF EngineInv, EngineTypeOK, HasRow, Ledger
  <2>2. Ledger[k] # "none"
    BY <2>1 DEF AnalysisRow, Verdict
  <2>3. Ledger'[k] # "none"
    BY <1>2, <2>2, LedgerStep DEF Ledger, Verdict
  <2>. QED  BY <2>3 DEF Ledger
<1>. QED  BY <1>1, <1>2, EngineSide

\* A submitted job stays submitted.
LEMMA NeverIdleAgain ==
    ASSUME EngineInv, [Next]_vars, NEW k \in Job, pc[k] # "idle"
    PROVE  pc'[k] # "idle"
<1>0. pc \in [Job -> Phase]
  BY DEF EngineInv, EngineTypeOK
<1>1. ASSUME NEW j \in Job, WorkerStep(j)
      PROVE  pc'[k] # "idle"
  <2>1. CASE k # j
    BY <1>1, <2>1, OthersKept DEF EngineInv, EntriesKept
  <2>2. CASE k = j
    <3>. USE DEF GoTo, NextStep
    <3>1. CASE PickUp(j) \/ CreateAnalysisRow(j) \/ Register(j)
      BY <1>0, <2>2, <3>1 DEF PickUp, CreateAnalysisRow, Register
    <3>2. CASE Instantiate(j) \/ InstantiateFails(j)
      BY <1>0, <2>2, <3>2 DEF Instantiate, InstantiateFails
    <3>3. CASE Execute(j) \/ ExecuteRaises(j) \/ ExecuteMalformed(j)
      BY <1>0, <2>2, <3>3 DEF Execute, ExecuteRaises, ExecuteMalformed
    <3>4. CASE Persist(j) \/ RecordStepFailure(j) \/ RecordStepSkip(j) \/ AdvanceStep(j)
      BY <1>0, <2>2, <3>4 DEF Persist, RecordStepFailure, RecordStepSkip, AdvanceStep,
                                   AfterPersist
    <3>5. CASE ComputeRiskScore(j) \/ FinalizeAnalysis(j) \/ Finish(j) \/ DatabaseError(j)
      BY <1>0, <2>2, <3>5 DEF ComputeRiskScore, FinalizeAnalysis, Finish, DatabaseError
    <3>. QED  BY <1>1, <3>1, <3>2, <3>3, <3>4, <3>5 DEF WorkerStep
  <2>. QED  BY <2>1, <2>2
<1>2. ASSUME NEW j \in Job, NEW w \in Workflow, Submit(j, w)
      PROVE  pc'[k] # "idle"
  BY <1>0, <1>2 DEF Submit, GoTo
<1>3. CASE (\E p \in PluginId : SetEnabled(p)) \/ Kill \/ UNCHANGED engineVars
  BY <1>3 DEF SetEnabled, Kill, engineVars, worker
<1>. QED  BY <1>0, <1>1, <1>2, <1>3, EngineSide, LookupFailsKept DEF EngineNext

\* A job that is yet to be submitted has not been announced.
LEMMA IdleIsUntold ==
    ASSUME RunnerInv, NEW j \in Job, pc[j] = "idle"
    PROVE  completed[j] = <<>> /\ ~HasRow(j)
<1>. DEFINE Signal == [status : Verdict, risk : (SUBSET FindingRow) \cup {None}]
<1>1. completed[j] \in Seq(Signal)
  BY DEF RunnerInv, PollInv, RunnerTypeOK
<1>2. ~HasRow(j)
  BY DEF RunnerInv, EngineInv, JobInv, RowInv, Fresh, HasRow
<1>3. 1 \notin DOMAIN completed[j]
  BY <1>2 DEF RunnerInv, SignalsAreFinal, Finalized
<1>. HIDE DEF Signal
<1>. QED  BY <1>1, <1>2, <1>3

-----------------------------------------------------------------------------
(***************************************************************************)
(* Types.                                                                  *)
(***************************************************************************)
LEMMA GenerateTyped ==
    ASSUME PagesTypeOK, NEW j \in Job, NEW outcome, NEW nth \in Nat, Generate(j, outcome, nth)
    PROVE  reports' \subseteq Report /\ files' \subseteq File
<1>1. ASSUME NEW f \in Format
      PROVE  /\ [job |-> j, format |-> f, second |-> second] \in File
             /\ [job |-> j, format |-> f, second |-> second, nth |-> nth] \in Report
  BY DEF PagesTypeOK, File, Report
<1>. QED  BY <1>1 DEF Generate, PagesTypeOK

\* _on_completed of the projects page.
LEMMA OnCompletedTyped ==
    ASSUME PagesTypeOK, JobsInv, RunnerTypeOK,
           NEW j \in Job, NEW status, ProjectsPageOnCompleted(j, status)
    PROVE  /\ reports' \subseteq Report /\ files' \subseteq File
           /\ mishaps' \in Nat /\ mishaps' <= mishaps
           /\ generation' \in {generation, generation + 1}
           /\ busy' \subseteq Project
           /\ job_rows' = [job_rows EXCEPT ![j] = None]
           /\ (mishaps' = mishaps => busy' \subseteq busy)
<1>0. mishaps \in Nat /\ reports \subseteq Report /\ files \subseteq File
  BY DEF PagesTypeOK
<1>1. job_rows' = [job_rows EXCEPT ![j] = None]
  BY DEF ProjectsPageOnCompleted
<1>2. CASE ProjectsPageCompletes(j, status)
  <2>1. generation' = generation + 1 /\ busy' = {}
    BY <1>2 DEF ProjectsPageCompletes, RebuildRows
  <2>2. CASE status = "completed"
    <3>1. PICK outcome \in Outcomes :
             /\ FailedFormats(outcome) <= mishaps /\ mishaps' = mishaps - FailedFormats(outcome)
             /\ Generate(j, outcome, Len(completed[j]) + 1)
      BY <1>2, <2>2 DEF ProjectsPageCompletes
    <3>2. FailedFormats(outcome) \in Nat
      BY FailedFormatsType
    <3>3. Len(completed[j]) + 1 \in Nat
      BY DEF RunnerTypeOK
    <3>4. reports' \subseteq Report /\ files' \subseteq File
      BY <3>1, <3>3, GenerateTyped
    <3>5. mishaps' \in Nat /\ mishaps' <= mishaps
      BY <1>0, <3>1, <3>2
    <3>. QED  BY <1>1, <2>1, <3>4, <3>5
  <2>3. CASE status # "completed"
    BY <1>0, <1>1, <1>2, <2>1, <2>3 DEF ProjectsPageCompletes
  <2>. QED  BY <2>2, <2>3
<1>3. CASE ProjectsPageRaises(j, status)
  <2>1. UNCHANGED <<generation, reports, files>> /\ Progress(j)
    BY <1>3 DEF ProjectsPageRaises
  <2>2. busy' \subseteq Project
    BY <2>1 DEF Progress, OnCurrentRow, JobsInv, PagesTypeOK
  <2>3. \/ mishaps' = mishaps /\ RowDestroyed(j)
        \/ mishaps > 0 /\ mishaps' = mishaps - 1
    BY <1>3 DEF ProjectsPageRaises
  <2>4. RowDestroyed(j) => busy' = busy
    <3>1. generation \in Nat /\ destroyed \in Nat /\ destroyed < generation
      BY DEF PagesTypeOK
    <3>2. RowDestroyed(j) => ~OnCurrentRow(j)
      BY <3>1 DEF RowDestroyed, OnCurrentRow
    <3>. QED  BY <2>1, <3>2 DEF Progress
  <2>5. mishaps' \in Nat /\ mishaps' <= mishaps /\ (mishaps' = mishaps => RowDestroyed(j))
    BY <1>0, <2>3
  <2>. QED  BY <1>0, <1>1, <2>1, <2>2, <2>4, <2>5
<1>. QED  BY <1>2, <1>3 DEF ProjectsPageOnCompleted

LEMMA PagesTyped ==
    ASSUME PagesInv, [PagesNext]_allVars
    PROVE  PagesTypeOK' /\ mishaps' <= MaxMishaps
<1>0. /\ PagesTypeOK /\ mishaps \in Nat /\ mishaps <= MaxMishaps /\ MaxMishaps \in Nat
      /\ EngineInv /\ RunnerTypeOK /\ JobsInv
  BY PagesAssumption DEF PagesInv, RunnerInv, PollInv, PagesTypeOK
<1>. USE DEF PagesTypeOK, pageVars, projectsPage, workflowPages, reportVars
<1>1. \A pg \in Page : Newest(pg) \in CardShown
  BY <1>0, NewestTyped
<1>2. ASSUME NEW j \in Job, NEW p \in Project, RunStatic(j, p)
      PROVE  PagesTypeOK' /\ mishaps' <= MaxMishaps
  BY <1>0, <1>2 DEF RunStatic
<1>3. ASSUME NEW j \in Job, NEW pg \in Page, NEW p \in Project, RunWorkflow(j, pg, p)
      PROVE  PagesTypeOK' /\ mishaps' <= MaxMishaps
  BY <1>0, <1>3 DEF RunWorkflow
<1>4. ASSUME NEW j \in Job, WorkBehindPages(j)
      PROVE  PagesTypeOK' /\ mishaps' <= MaxMishaps
  <2>1. creations' \in Seq(Job)
    BY <1>0, <1>4 DEF WorkBehindPages
  <2>. QED  BY <1>0, <1>4, <2>1 DEF WorkBehindPages
<1>5. CASE PollBegins \/ CloseWindow \/ UNCHANGED allVars
  BY <1>0, <1>5 DEF PollBegins, CloseWindow, allVars
<1>6. ASSUME NEW j \in Job, PollsUnfinished(j) \/ LookupFails(j)
      PROVE  PagesTypeOK' /\ mishaps' <= MaxMishaps
  <2>1. busy' \subseteq Project
    BY <1>0, <1>6 DEF PollsUnfinished, LookupFails, Progress, OnCurrentRow, JobsInv
  <2>2. destroyed' \in Nat /\ destroyed' < generation'
    BY <1>0, <1>6 DEF PollsUnfinished, LookupFails, ReturnToEventLoop
  <2>. QED  BY <1>0, <1>6, <2>1, <2>2 DEF PollsUnfinished, LookupFails
<1>7. ASSUME NEW j \in Job, PollsFinished(j)
      PROVE  PagesTypeOK' /\ mishaps' <= MaxMishaps
  <2>1. ProjectsPageOnCompleted(j, monitor[j].status) /\ WorkflowPagesOnCompleted(j)
    BY <1>7 DEF PollsFinished
  <2>2. /\ reports' \subseteq Report /\ files' \subseteq File
        /\ mishaps' \in Nat /\ mishaps' <= mishaps
        /\ generation' \in {generation, generation + 1}
        /\ busy' \subseteq Project
        /\ job_rows' = [job_rows EXCEPT ![j] = None]
    BY <1>0, <2>1, OnCompletedTyped
  <2>3. /\ page_job' \in [Page -> Job \cup {None}] /\ run_enabled' \in [Page -> BOOLEAN]
        /\ card' \in [Page -> CardShown]
    BY <1>0, <1>1, <2>1 DEF WorkflowPagesOnCompleted
  <2>4. UNCHANGED <<project_of, creations, destroyed, listed, second>>
    BY <1>7 DEF PollsFinished
  <2>. QED  BY <1>0, <2>2, <2>3, <2>4 DEF CardShown
<1>8. CASE PollEnds
  BY <1>0, <1>8 DEF PollEnds, ReturnToEventLoop
<1>9. CASE NewProject
  BY <1>0, <1>9 DEF NewProject, RebuildRows
<1>10. ASSUME NEW pg \in Page, Show(pg)
       PROVE  PagesTypeOK' /\ mishaps' <= MaxMishaps
  BY <1>0, <1>1, <1>10 DEF Show, CardShown
<1>11. CASE RefreshReports \/ SecondPasses
  BY <1>0, <1>11 DEF RefreshReports, SecondPasses
<1>12. ASSUME NEW r \in listed, DeleteReport(r)
       PROVE  PagesTypeOK' /\ mishaps' <= MaxMishaps
  BY <1>0, <1>12 DEF DeleteReport
<1>13. CASE RestartPages
  BY <1>0, <1>1, <1>13 DEF RestartPages, CardShown
<1>. QED
  BY <1>2, <1>3, <1>4, <1>5, <1>6, <1>7, <1>8, <1>9, <1>10, <1>11, <1>12, <1>13
     DEF PagesNext, PagePolls

-----------------------------------------------------------------------------
(***************************************************************************)
(* The jobs behind the references.                                         *)
(***************************************************************************)
LEMMA JobsStep ==
    ASSUME PagesInv, [PagesNext]_allVars
    PROVE  JobsInv'
<1>0. /\ JobsInv /\ RunnerInv /\ EngineInv /\ RunnerTypeOK /\ [Next]_vars
      /\ creations \in Seq(Job) /\ job_rows \in [Job -> Nat \cup {None}]
      /\ project_of \in [Job -> Project \cup {None}] /\ pc \in [Job -> Phase]
  BY PagesAreRunner DEF PagesInv, RunnerInv, PollInv, PagesTypeOK, EngineInv, EngineTypeOK
<1>1. \A k \in Job : pc[k] # "idle" => pc'[k] # "idle"
  BY <1>0, NeverIdleAgain
<1>2. \A k \in Job : HasRow(k) => HasRow(k)'
  BY <1>0, RowsStay
<1>3. \A i \in DOMAIN creations : creations[i] \in Job
  BY <1>0
<1>. USE DEF JobsInv, HasRowWidget, RunnerTypeOK, pageVars, projectsPage
<1>4. ASSUME NEW j \in Job, NEW p \in Project,
             RunStatic(j, p) \/ \E pg \in Page : RunWorkflow(j, pg, p)
      PROVE  JobsInv'
  <2>1. PICK w \in Workflow : Start(j, w)
    BY <1>4, PagesAssumption DEF RunStatic, RunWorkflow
  <2>2. /\ pc'[j] = "queued" /\ active' = active \cup {j} /\ completed' = completed
        /\ completed[j] = <<>>
    BY <1>0, <2>1, IdleIsUntold DEF Start, Submit, GoTo
  <2>3. /\ creations' = creations /\ project_of' = [project_of EXCEPT ![j] = p]
        /\ \A k \in Job \ {j} : job_rows'[k] = job_rows[k]
    BY <1>0, <1>4 DEF RunStatic, RunWorkflow
  <2>. QED  BY <1>0, <1>1, <1>2, <1>3, <2>2, <2>3
<1>5. ASSUME NEW j \in Job, WorkBehindPages(j)
      PROVE  JobsInv'
  <2>1. UNCHANGED <<active, completed, job_rows, project_of>>
    BY <1>5 DEF WorkBehindPages, Work, runnerVars
  <2>2. ASSUME NEW i \in DOMAIN creations' PROVE HasRow(creations[i])'
    <3>1. CASE creations' = creations
      BY <1>0, <1>2, <1>3, <2>2, <3>1
    <3>2. CASE creations' = Append(creations, j) /\ analyses'[j] # None
      <4>1. \/ i \in DOMAIN creations /\ creations'[i] = creations[i]
            \/ creations'[i] = j
        BY <1>0, <2>2, <3>2
      <4>. QED  BY <1>0, <1>2, <1>3, <3>2, <4>1 DEF HasRow
    <3>. QED  BY <1>5, <3>1, <3>2 DEF WorkBehindPages
  <2>. QED  BY <1>0, <1>1, <2>1, <2>2
<1>6. ASSUME active' \subseteq active, UNCHANGED <<completed, project_of, creations>>,
             \A k \in Job : job_rows'[k] \in {job_rows[k], None}
      PROVE  JobsInv'
  BY <1>0, <1>1, <1>2, <1>3, <1>6
<1>7. CASE PollBegins \/ CloseWindow \/ UNCHANGED allVars
  BY <1>6, <1>7 DEF PollBegins, PollBegin, CloseWindow, Close, allVars, vars, runnerVars
<1>8. ASSUME NEW j \in Job, PollsUnfinished(j) \/ LookupFails(j)
      PROVE  JobsInv'
  BY <1>6, <1>8 DEF PollsUnfinished, PollUnfinished, LookupFails, PollLookupFails
<1>9. ASSUME NEW j \in Job, PollsFinished(j)
      PROVE  JobsInv'
  <2>1. active' = active /\ \A k \in Job \ {j} : completed'[k] = completed[k]
    BY <1>0, <1>9 DEF PollsFinished, PollFinished
  <2>2. job_rows' = [job_rows EXCEPT ![j] = None] /\ UNCHANGED <<project_of, creations>>
    BY <1>9 DEF PollsFinished, ProjectsPageOnCompleted
  <2>. QED  BY <1>0, <1>1, <1>2, <1>3, <2>1, <2>2
<1>10. CASE PollEnds
  BY <1>0, <1>6, <1>10 DEF PollEnds, PollEnd
<1>11. CASE NewProject \/ RefreshReports \/ SecondPasses
  BY <1>6, <1>11 DEF NewProject, RefreshReports, SecondPasses, vars, runnerVars
<1>12. CASE (\E pg \in Page : Show(pg)) \/ \E r \in listed : DeleteReport(r)
  BY <1>6, <1>12 DEF Show, DeleteReport, vars, runnerVars
<1>13. CASE RestartPages
  BY <1>0, <1>6, <1>13 DEF RestartPages, KillAndRestart
<1>. QED
  BY <1>4, <1>5, <1>7, <1>8, <1>9, <1>10, <1>11, <1>12, <1>13 DEF PagesNext, PagePolls

-----------------------------------------------------------------------------
(***************************************************************************)
(* The Run button of a workflow page.                                      *)
(***************************************************************************)
LEMMA ButtonStep ==
    ASSUME PagesInv, [PagesNext]_allVars
    PROVE  RunButtonFollowsJob'
<1>0. /\ RunButtonFollowsJob /\ JobsInv /\ RunnerInv /\ RunnerTypeOK
      /\ \A j \in finished : completed[j] # <<>>
      /\ page_job \in [Page -> Job \cup {None}] /\ run_enabled \in [Page -> BOOLEAN]
  BY DEF PagesInv, RunnerInv, PollInv, PagesTypeOK
<1>. USE DEF RunButtonFollowsJob, RunnerTypeOK, pageVars, workflowPages
<1>1. ASSUME UNCHANGED <<page_job, run_enabled, completed>>, active \subseteq active'
      PROVE  RunButtonFollowsJob'
  BY <1>0, <1>1
<1>2. ASSUME NEW j \in Job, NEW p \in Project, RunStatic(j, p)
      PROVE  RunButtonFollowsJob'
  BY <1>1, <1>2 DEF RunStatic, Start
<1>3. ASSUME NEW j \in Job, NEW pg \in Page, NEW p \in Project, RunWorkflow(j, pg, p)
      PROVE  RunButtonFollowsJob'
  <2>1. /\ pc[j] = "idle" /\ active' = active \cup {j} /\ completed' = completed
        /\ page_job' = [page_job EXCEPT ![pg] = j]
        /\ run_enabled' = [run_enabled EXCEPT ![pg] = FALSE]
    BY <1>3 DEF RunWorkflow, Start, Submit
  <2>2. completed[j] = <<>> /\ j \notin active /\ j # None
    BY <1>0, <2>1, IdleIsUntold, PagesAssumption DEF JobsInv
  <2>3. \A other \in Page : page_job[other] # j
    BY <1>0, <2>2
  <2>. QED  BY <1>0, <2>1, <2>2, <2>3
<1>4. CASE \E j \in Job : WorkBehindPages(j)
  BY <1>1, <1>4 DEF WorkBehindPages, Work, runnerVars
<1>5. CASE PollBegins \/ CloseWindow \/ UNCHANGED allVars
  BY <1>1, <1>5 DEF PollBegins, PollBegin, CloseWindow, Close, allVars, vars, runnerVars
<1>6. CASE \E j \in Job : PollsUnfinished(j) \/ LookupFails(j)
  BY <1>1, <1>6 DEF PollsUnfinished, PollUnfinished, LookupFails, PollLookupFails
<1>7. ASSUME NEW j \in Job, PollsFinished(j)
      PROVE  RunButtonFollowsJob'
  <2>1. active' = active /\ \A k \in Job \ {j} : completed'[k] = completed[k]
    BY <1>0, <1>7 DEF PollsFinished, PollFinished
  <2>2. /\ page_job' = [pg \in Page |-> IF page_job[pg] = j THEN None ELSE page_job[pg]]
        /\ run_enabled' = [pg \in Page |-> page_job[pg] = j \/ run_enabled[pg]]
    BY <1>7 DEF PollsFinished, WorkflowPagesOnCompleted
  <2>3. ASSUME NEW pg \in Page PROVE run_enabled'[pg] <=> page_job'[pg] = None
    BY <1>0, <2>2, <2>3
  <2>4. ASSUME NEW pg \in Page, page_job'[pg] # None
        PROVE  /\ page_job'[pg] = page_job[pg] /\ page_job[pg] # j /\ page_job[pg] \in active
               /\ completed[page_job[pg]] = <<>>
    BY <1>0, <2>2, <2>4
  <2>. QED  BY <1>0, <2>1, <2>3, <2>4
<1>8. CASE PollEnds
  <2>1. /\ active' = active \ finished
        /\ UNCHANGED <<page_job, run_enabled, completed>>
    BY <1>8 DEF PollEnds, PollEnd
  <2>. QED  BY <1>0, <2>1
<1>9. CASE NewProject \/ RefreshReports \/ SecondPasses \/ \E r \in listed : DeleteReport(r)
  BY <1>1, <1>9 DEF NewProject, RefreshReports, SecondPasses, DeleteReport, vars, runnerVars
<1>10. ASSUME NEW pg \in Page, Show(pg)
       PROVE  RunButtonFollowsJob'
  BY <1>0, <1>10 DEF Show, vars, runnerVars
<1>11. CASE RestartPages
  BY <1>11 DEF RestartPages
<1>. QED
  BY <1>2, <1>3, <1>4, <1>5, <1>6, <1>7, <1>8, <1>9, <1>10, <1>11 DEF PagesNext, PagePolls

-----------------------------------------------------------------------------
(***************************************************************************)
(* The LAST RUN card.  A row that is read as running is not announced: the *)
(* job a signal is for has a verdict in its row.                           *)
(***************************************************************************)
LEMMA NewestIsUntold ==
    ASSUME PagesInv, NEW pg \in Page, Newest(pg) # None, Newest(pg).status = "running"
    PROVE  /\ completed[Newest(pg).job] = <<>>
           /\ \A j \in Job : JobDone(j) => Newest(pg).job # j
<1>. DEFINE Signal == [status : Verdict, risk : (SUBSET FindingRow) \cup {None}]
<1>1. /\ creations \in Seq(Job) /\ JobsInv /\ EngineInv /\ SignalsAreFinal
      /\ completed \in [Job -> Seq(Signal)]
  BY DEF PagesInv, PagesTypeOK, RunnerInv, PollInv, RunnerTypeOK
<1>2. PICK k \in Job : HasRow(k) /\ Newest(pg) = [job |-> k, status |-> analyses[k].status]
  BY <1>1, NewestHasRow
<1>3. ~Finalized(k)
  BY <1>2 DEF Finalized, Verdict
<1>4. 1 \notin DOMAIN completed[k] /\ completed[k] \in Seq(Signal)
  BY <1>1, <1>3 DEF SignalsAreFinal
<1>5. completed[k] = <<>>
  <2>. HIDE DEF Signal
  <2>. QED  BY <1>4
<1>6. \A j \in Job : JobDone(j) => Finalized(j)
  BY <1>1, AnnouncedTruthfully
<1>. QED  BY <1>2, <1>3, <1>5, <1>6

LEMMA CardStep ==
    ASSUME PagesInv, [PagesNext]_allVars
    PROVE  CardIsCurrent'
<1>0. /\ CardIsCurrent /\ card \in [Page -> CardShown]
      /\ completed \in [Job -> Seq([status : Verdict, risk : (SUBSET FindingRow) \cup {None}])]
  BY DEF PagesInv, PagesTypeOK, CardShown, RunnerInv, PollInv, RunnerTypeOK
<1>. USE DEF CardIsCurrent, pageVars, workflowPages
<1>1. \A pg \in Page : Newest(pg) # None /\ Newest(pg).status = "running" =>
          completed[Newest(pg).job] = <<>>
  BY NewestIsUntold
<1>2. CASE UNCHANGED <<card, completed>>
  BY <1>0, <1>2
<1>3. CASE \E j \in Job, p \in Project :
              RunStatic(j, p) \/ \E pg \in Page : RunWorkflow(j, pg, p)
  BY <1>2, <1>3 DEF RunStatic, RunWorkflow, Start
<1>4. CASE \E j \in Job : WorkBehindPages(j)
  BY <1>2, <1>4 DEF WorkBehindPages, Work, runnerVars
<1>5. CASE PollBegins \/ PollEnds \/ CloseWindow \/ UNCHANGED allVars
  BY <1>2, <1>5 DEF PollBegins, PollBegin, PollEnds, PollEnd, CloseWindow, Close, allVars, vars,
                    runnerVars
<1>6. CASE \E j \in Job : PollsUnfinished(j) \/ LookupFails(j)
  BY <1>2, <1>6 DEF PollsUnfinished, PollUnfinished, LookupFails, PollLookupFails
<1>7. ASSUME NEW j \in Job, PollsFinished(j)
      PROVE  CardIsCurrent'
  <2>1. /\ JobDone(j) /\ card' = [pg \in Page |-> Newest(pg)]
        /\ \A k : k # j => completed'[k] = completed[k]
    BY <1>0, <1>7 DEF PollsFinished, PollFinished, WorkflowPagesOnCompleted
  <2>2. ASSUME NEW pg \in Page, card'[pg] # None, card'[pg].status = "running"
        PROVE  completed'[card'[pg].job] = <<>>
    <3>1. card'[pg] = Newest(pg)
      BY <2>1
    <3>2. completed[Newest(pg).job] = <<>> /\ Newest(pg).job # j
      BY <2>1, <2>2, <3>1, NewestIsUntold
    <3>. QED  BY <2>1, <3>1, <3>2
  <2>. QED  BY <2>2
<1>8. CASE NewProject \/ RefreshReports \/ SecondPasses \/ \E r \in listed : DeleteReport(r)
  BY <1>2, <1>8 DEF NewProject, RefreshReports, SecondPasses, DeleteReport, vars, runnerVars
<1>9. ASSUME NEW pg \in Page, Show(pg)
      PROVE  CardIsCurrent'
  BY <1>0, <1>1, <1>9 DEF Show, vars, runnerVars
<1>10. CASE RestartPages
  BY <1>0, <1>1, <1>10 DEF RestartPages, KillAndRestart
<1>. QED
  BY <1>3, <1>4, <1>5, <1>6, <1>7, <1>8, <1>9, <1>10 DEF PagesNext, PagePolls

-----------------------------------------------------------------------------
(***************************************************************************)
(* The rows of the projects page.                                          *)
(***************************************************************************)
LEMMA BusyStep ==
    ASSUME PagesInv, [PagesNext]_allVars
    PROVE  BusyRowHasJob'
<1>0. /\ BusyRowHasJob /\ JobsInv /\ RunnerTypeOK /\ PagesTypeOK
      /\ \A j \in finished : completed[j] # <<>>
      /\ mishaps \in Nat /\ mishaps <= MaxMishaps /\ MaxMishaps \in Nat
      /\ project_of \in [Job -> Project \cup {None}] /\ job_rows \in [Job -> Nat \cup {None}]
  BY PagesAssumption DEF PagesInv, RunnerInv, PollInv, PagesTypeOK
<1>. USE DEF BusyRowHasJob, OnCurrentRow, HasRowWidget, pageVars, projectsPage
<1>1. CASE busy' = {}
  BY <1>1
<1>2. ASSUME UNCHANGED <<project_of, job_rows, generation, busy>>, active \subseteq active',
             mishaps' = MaxMishaps => mishaps = MaxMishaps
      PROVE  BusyRowHasJob'
  BY <1>0, <1>2
<1>3. ASSUME NEW j \in Job, NEW p \in Project,
             RunStatic(j, p) \/ \E pg \in Page : RunWorkflow(j, pg, p)
      PROVE  BusyRowHasJob'
  <2>1. PICK w \in Workflow : Start(j, w)
    BY <1>3, PagesAssumption DEF RunStatic, RunWorkflow
  <2>2. j \notin active /\ active \subseteq active'
    BY <1>0, <2>1 DEF JobsInv, Start, Submit
  <2>3. /\ UNCHANGED <<generation, busy, mishaps>>
        /\ \A k \in Job \ {j} : project_of'[k] = project_of[k] /\ job_rows'[k] = job_rows[k]
    BY <1>0, <1>3 DEF RunStatic, RunWorkflow
  <2>. QED  BY <1>0, <2>2, <2>3 DEF RunnerTypeOK
<1>4. CASE \E j \in Job : WorkBehindPages(j)
  BY <1>2, <1>4 DEF WorkBehindPages, Work, runnerVars
<1>5. CASE PollBegins \/ CloseWindow \/ UNCHANGED allVars
  BY <1>2, <1>5 DEF PollBegins, PollBegin, CloseWindow, Close, allVars, vars, runnerVars
<1>6. ASSUME NEW j \in Job, PollsUnfinished(j) \/ LookupFails(j)
      PROVE  BusyRowHasJob'
  <2>1. /\ j \in active /\ active' = active
        /\ UNCHANGED <<project_of, generation, job_rows, mishaps>>
    BY <1>0, <1>6 DEF PollsUnfinished, PollUnfinished, LookupFails, PollLookupFails, RunnerTypeOK
  <2>2. \/ busy' = busy
        \/ OnCurrentRow(j) /\ busy' = busy \cup {project_of[j]}
    BY <1>6 DEF PollsUnfinished, LookupFails, Progress
  <2>. QED  BY <1>0, <2>1, <2>2
<1>7. ASSUME NEW j \in Job, PollsFinished(j)
      PROVE  BusyRowHasJob'
  <2>1. active' = active /\ project_of' = project_of /\ job_rows' = [job_rows EXCEPT ![j] = None]
    BY <1>7 DEF PollsFinished, PollFinished, ProjectsPageOnCompleted
  <2>2. CASE ProjectsPageCompletes(j, monitor[j].status)
    BY <1>1, <2>2 DEF ProjectsPageCompletes, RebuildRows
  <2>3. CASE ProjectsPageRaises(j, monitor[j].status)
    <3>1. /\ generation' = generation
          /\ Progress(j)
          /\ \/ RowDestroyed(j) /\ mishaps' = mishaps
             \/ mishaps > 0 /\ mishaps' = mishaps - 1
      BY <2>3 DEF ProjectsPageRaises
    <3>2. mishaps' = MaxMishaps => RowDestroyed(j) /\ mishaps = MaxMishaps
      BY <1>0, <3>1
    <3>3. RowDestroyed(j) => ~OnCurrentRow(j)
      <4>1. generation \in Nat /\ destroyed \in Nat /\ destroyed < generation
        BY <1>0 DEF PagesTypeOK
      <4>. QED  BY <4>1 DEF RowDestroyed
    <3>4. RowDestroyed(j) => busy' = busy
      BY <3>1, <3>3 DEF Progress
    <3>. QED  BY <1>0, <2>1, <3>1, <3>2, <3>3, <3>4 DEF RunnerTypeOK
  <2>. QED  BY <1>7, <2>2, <2>3 DEF PollsFinished, ProjectsPageOnCompleted
<1>8. CASE PollEnds
  <2>1. active' = active \ finished /\ UNCHANGED <<project_of, generation, job_rows, busy, mishaps>>
    BY <1>8 DEF PollEnds, PollEnd
  <2>2. \A j \in active : job_rows[j] # None => j \notin finished
    BY <1>0 DEF JobsInv, RunnerTypeOK
  <2>. QED  BY <1>0, <2>1, <2>2
<1>9. CASE NewProject \/ RestartPages
  BY <1>1, <1>9 DEF NewProject, RebuildRows, RestartPages
<1>10. CASE RefreshReports \/ SecondPasses \/ \E pg \in Page : Show(pg)
  BY <1>2, <1>10 DEF RefreshReports, SecondPasses, Show, vars, runnerVars
<1>11. ASSUME NEW r \in listed, DeleteReport(r)
       PROVE  BusyRowHasJob'
  <2>1. mishaps' = mishaps \/ (mishaps > 0 /\ mishaps' = mishaps - 1)
    BY <1>11 DEF DeleteReport
  <2>2. mishaps' = MaxMishaps => mishaps = MaxMishaps
    BY <1>0, <2>1
  <2>. QED  BY <1>2, <1>11, <2>2 DEF DeleteReport, vars, runnerVars
<1>. QED
  BY <1>3, <1>4, <1>5, <1>6, <1>7, <1>8, <1>9, <1>10, <1>11 DEF PagesNext, PagePolls

-----------------------------------------------------------------------------
(***************************************************************************)
(* The reports.                                                            *)
(***************************************************************************)
LEMMA DeleteKeepsFiles ==
    ASSUME PagesTypeOK, RowsHaveFiles, NEW r \in reports, \A q \in reports : q.nth = 1,
           reports' = reports \ {r}, files' = files \/ files' = files \ {FileOf(r)}
    PROVE  RowsHaveFiles'
<1>. SUFFICES ASSUME NEW q \in reports, q # r
              PROVE  FileOf(q) \in files /\ FileOf(q) # FileOf(r)
  BY DEF RowsHaveFiles, FileOf
<1>1. q \in Report /\ r \in Report /\ q.nth = 1 /\ r.nth = 1
  BY DEF PagesTypeOK
<1>2. /\ q = [job |-> q.job, format |-> q.format, second |-> q.second, nth |-> q.nth]
      /\ r = [job |-> r.job, format |-> r.format, second |-> r.second, nth |-> r.nth]
  BY <1>1 DEF Report
<1>3. q.job # r.job \/ q.format # r.format \/ q.second # r.second
  BY <1>1, <1>2
<1>. QED  BY <1>3 DEF RowsHaveFiles, FileOf

LEMMA ReportsStep ==
    ASSUME PagesInv, [PagesNext]_allVars, OnceInv'
    PROVE  ReportsInv'
<1>0. /\ ReportsInv /\ PagesTypeOK /\ RunnerTypeOK
      /\ completed \in [Job -> Seq([status : Verdict, risk : (SUBSET FindingRow) \cup {None}])]
  BY DEF PagesInv, RunnerInv, PollInv, RunnerTypeOK
<1>1. faults' = DbFaults => faults = DbFaults
  BY PagesAreRunner, FaultsOnlyFall
     DEF PagesInv, OnceInv, RunnerInv, EngineInv, EngineTypeOK
<1>. USE DEF ReportsInv, pageVars, reportVars
<1>2. CASE UNCHANGED <<reports, files>> /\ listed' \in {listed, reports}
  BY <1>0, <1>1, <1>2 DEF RowsHaveFiles, FileOf
<1>3. CASE \E j \in Job, p \in Project :
              RunStatic(j, p) \/ \E pg \in Page : RunWorkflow(j, pg, p)
  BY <1>2, <1>3 DEF RunStatic, RunWorkflow
<1>4. CASE \E j \in Job : WorkBehindPages(j)
  BY <1>2, <1>4 DEF WorkBehindPages
<1>5. CASE PollBegins \/ PollEnds \/ CloseWindow \/ UNCHANGED allVars
  BY <1>2, <1>5 DEF PollBegins, PollEnds, CloseWindow, allVars
<1>6. CASE \E j \in Job : PollsUnfinished(j) \/ LookupFails(j)
  BY <1>2, <1>6 DEF PollsUnfinished, LookupFails
<1>7. ASSUME NEW j \in Job, PollsFinished(j)
      PROVE  ReportsInv'
  <2>1. listed' = listed
    BY <1>7 DEF PollsFinished
  <2>2. CASE UNCHANGED <<reports, files>>
    BY <1>2, <2>1, <2>2
  <2>3. ASSUME NEW outcome, Generate(j, outcome, Len(completed[j]) + 1)
        PROVE  ReportsInv'
    <3>1. listed' \subseteq reports'
      BY <1>0, <2>1, <2>3 DEF Generate
    <3>2. faults' = DbFaults => Len(completed[j]) = 0
      <4>. DEFINE Signal == [status : Verdict, risk : (SUBSET FindingRow) \cup {None}]
                  signal == [status |-> monitor[j].status, risk |-> LookupRiskScore(j)]
      <4>1. completed'[j] = Append(completed[j], signal) /\ completed[j] \in Seq(Signal)
        BY <1>0, <1>7 DEF PollsFinished, PollFinished
      <4>2. faults' = DbFaults => Len(completed'[j]) <= 1
        BY DEF OnceInv, AtMostOnce
      <4>. HIDE DEF Signal, signal
      <4>3. Len(completed'[j]) = Len(completed[j]) + 1 /\ Len(completed[j]) \in Nat
        BY <4>1
      <4>. QED  BY <4>2, <4>3
    <3>3. ASSUME faults' = DbFaults, NEW r \in reports'
          PROVE  FileOf(r) \in files' /\ r.nth = 1
      <4>1. CASE r \in reports
        BY <1>0, <1>1, <2>3, <3>3, <4>1 DEF Generate, RowsHaveFiles
      <4>2. CASE r \notin reports
        <5>1. PICK f \in Format :
                 /\ outcome[f] = "ok"
                 /\ r = [job |-> j, format |-> f, second |-> second,
                         nth |-> Len(completed[j]) + 1]
          BY <2>3, <3>3, <4>2 DEF Generate
        <5>2. r.nth = 1
          BY <3>2, <3>3, <5>1
        <5>3. FileOf(r) = [job |-> j, format |-> f, second |-> second]
          BY <5>1 DEF FileOf
        <5>. QED  BY <2>3, <5>1, <5>2, <5>3 DEF Generate
      <4>. QED  BY <4>1, <4>2
    <3>. QED  BY <3>1, <3>3 DEF RowsHaveFiles, FileOf
  <2>. QED
    BY <1>7, <2>2, <2>3
       DEF PollsFinished, ProjectsPageOnCompleted, ProjectsPageCompletes, ProjectsPageRaises
<1>8. CASE NewProject \/ RefreshReports \/ SecondPasses \/ RestartPages
  BY <1>2, <1>8 DEF NewProject, RefreshReports, SecondPasses, RestartPages
<1>9. CASE \E pg \in Page : Show(pg)
  BY <1>2, <1>9 DEF Show
<1>10. ASSUME NEW r \in listed, DeleteReport(r)
       PROVE  ReportsInv'
  <2>1. /\ r \in reports /\ reports' = reports \ {r} /\ listed' = reports'
        /\ files' = files \/ files' = files \ {FileOf(r)}
    BY <1>0, <1>10 DEF DeleteReport
  <2>2. faults' = DbFaults => RowsHaveFiles'
    BY <1>0, <1>1, <2>1, DeleteKeepsFiles
  <2>. QED  BY <1>0, <1>1, <2>1, <2>2
<1>. QED
  BY <1>3, <1>4, <1>5, <1>6, <1>7, <1>8, <1>9, <1>10 DEF PagesNext, PagePolls

-----------------------------------------------------------------------------
LEMMA PagesInvInit == PagesInit => PagesInv
<1>. SUFFICES ASSUME PagesInit PROVE PagesInv
  OBVIOUS
<1>1. Init /\ RunnerInv
  BY RunnerInvInit DEF PagesInit
<1>2. OnceInv
  BY <1>1, BoundAssumption
     DEF Init, EngineInit, OnceInv, AtMostOnce, AnnouncedIsHandled
<1>3. PagesTypeOK /\ mishaps <= MaxMishaps
  BY PagesAssumption DEF PagesInit, PagesTypeOK
<1>4. JobsInv
  BY <1>1 DEF PagesInit, Init, JobsInv, HasRowWidget
<1>5. RunButtonFollowsJob /\ CardIsCurrent /\ BusyRowHasJob
  BY DEF PagesInit, RunButtonFollowsJob, CardIsCurrent, BusyRowHasJob
<1>6. ReportsInv
  BY DEF PagesInit, ReportsInv, RowsHaveFiles
<1>. QED  BY <1>1, <1>2, <1>3, <1>4, <1>5, <1>6 DEF PagesInv

LEMMA PagesInvStep == PagesInv /\ [PagesNext]_allVars => PagesInv'
<1>. SUFFICES ASSUME PagesInv, [PagesNext]_allVars PROVE PagesInv'
  OBVIOUS
<1>1. RunnerInv' /\ OnceInv'
  BY PagesAreRunner, RunnerInvStep, OnceStep DEF PagesInv
<1>2. PagesTypeOK' /\ mishaps' <= MaxMishaps /\ JobsInv' /\ RunButtonFollowsJob'
  BY PagesTyped, JobsStep, ButtonStep
<1>3. CardIsCurrent' /\ BusyRowHasJob' /\ ReportsInv'
  BY <1>1, CardStep, BusyStep, ReportsStep
<1>. QED  BY <1>1, <1>2, <1>3 DEF PagesInv

LEMMA PagesInvariance == PagesSpec => []PagesInv
BY PagesInvInit, PagesInvStep, PTL DEF PagesSpec

(***************************************************************************)
(* A workflow page locks its Run button exactly while its run is           *)
(* unannounced, and no LAST RUN card shows an announced analysis as        *)
(* running, whatever jobs other pages start and however often one is       *)
(* announced.                                                              *)
(***************************************************************************)
THEOREM WorkflowPagesFollow == PagesSpec => []WorkflowPagesFollowJobs
<1>1. PagesInv => WorkflowPagesFollowJobs
  BY DEF PagesInv, WorkflowPagesFollowJobs
<1>. QED  BY <1>1, PagesInvariance, PTL

(***************************************************************************)
(* Until a query of a slot fails a disabled row of the projects page has a *)
(* job under way that will enable it, however often the list is rebuilt.   *)
(***************************************************************************)
THEOREM BusyRowsAreReleased == PagesSpec => []BusyRowHasJob
<1>1. PagesInv => BusyRowHasJob
  BY DEF PagesInv
<1>. QED  BY <1>1, PagesInvariance, PTL

(***************************************************************************)
(* Until a score lookup fails every report row has its file, whichever     *)
(* write, insert or unlink fails and whichever row is deleted.             *)
(***************************************************************************)
THEOREM ReportsHaveFiles == PagesSpec => []ReportHasFile
<1>1. PagesInv => ReportHasFile
  BY DEF PagesInv, ReportsInv, ReportHasFile
<1>. QED  BY <1>1, PagesInvariance, PTL
=============================================================================
