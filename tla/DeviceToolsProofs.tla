-------------------------- MODULE DeviceToolsProofs --------------------------
(***************************************************************************)
(* What a page shows of its device, for any devices and any number of      *)
(* commands, and what ToolManager hands back of the program it watches for *)
(* a tool, for any streams and lines and whatever that program, its        *)
(* children and the user do.                                               *)
(***************************************************************************)
EXTENDS DeviceTools, ToolStreaming, BackgroundTasksProofs

-----------------------------------------------------------------------------
(***************************************************************************)
(* The pages of the devices.                                               *)
(***************************************************************************)
Command == [page : Page \cup {None}, kind : Kind \cup {None}, serial : Device \cup {None},
            at : {"idle", "submitted", "running", "ended"}, result : BOOLEAN]
NeedsDevice(kind) == kind \notin {"scan", "server"}
Submitted(w) ==
    /\ w.page \in Page /\ w.kind \in Buttons(w.page).kinds
    /\ NeedsDevice(w.kind) => w.serial \in Device

\* A combo that has shown a device shows one from then on.
HasDevice(pg) == pg # "ios" /\ selected[pg] # None
CommandsHaveDevices ==
    \A t \in Task, pg \in Page \ {"ios"} :
        Unanswered(t) /\ NeedsDevice(work[t].kind) /\ work[t].page = pg => HasDevice(pg)
FollowUpHasDevice == \A pg \in Page : following = pg => HasDevice(pg)

\* What the pool runs and the runner waits for are commands of pages; a slot that
\* is about to submit a query runs inside _poll.
WorkInv ==
    /\ work \in [Task -> Command]
    /\ \A t \in Task : future[t] \in {"queued", "running"} => t \in pending
    /\ \A t \in Task : Unanswered(t) => Submitted(work[t])
    /\ CommandsHaveDevices /\ FollowUpHasDevice
    /\ following # None => polling

\* What a page shows of a device is true of it.
ShowsTruth(pg) == shown[pg] # None => (shown[pg].value <=> shown[pg].serial \in on[pg])

\* Else the page is asking, or will ask when it hears what it has done.
WillAsk(t) == work[t].kind = "query" \/ Followed(t)

\* A query that has ended has seen what is there.
Tells(t, pg) ==
    work[t].kind = "query" /\ Done(t) =>
        future[t] = "result" /\ (work[t].result <=> work[t].serial \in on[pg])

\* One job at a time.
TruthOf(pg) ==
    /\ \A t, u \in jobs[pg] : t = u
    /\ following = pg => jobs[pg] = {}
    /\ \A t \in jobs[pg] : Tells(t, pg)
    /\ ShowsTruth(pg) \/ following = pg \/ \E t \in jobs[pg] : WillAsk(t)

ToolsInv ==
    /\ TasksInv /\ WorkInv /\ JobsAreOutstanding
    /\ \A pg \in Page \ (crowded \cup stale) : TruthOf(pg)

-----------------------------------------------------------------------------
\* The pages use the runner as BackgroundTasks says.
LEMMA ToolsAreTasks == [ToolsNext]_toolsVars => [TasksNext]_taskVars
<1>. SUFFICES ASSUME [ToolsNext]_toolsVars PROVE TasksNext \/ UNCHANGED taskVars
  OBVIOUS
<1>1. ASSUME NEW t \in Task, Thread(t) PROVE TasksNext
  <2>1. TakeUp(t) \/ Settle(t, "result") \/ Settle(t, "error")
    BY <1>1 DEF Thread, Begin, Query, TurnOn, TurnOff, Use, ReadOrStart, Scan, CollectDevices, Return, Raise
  <2>. QED  BY <2>1 DEF TasksNext
<1>2. ASSUME NEW t \in Task, NEW pg \in Page, NEW kind \in Kind, OnClick(t, pg, kind)
      PROVE  TasksNext
  BY <1>2 DEF OnClick, SubmitFor, TasksNext
<1>3. ASSUME NEW pg \in Page,
             \/ Show(pg) \/ \E d \in Device : Change(pg, d)
             \/ \E d \in Device \cup {None} : OnSelect(pg, d)
             \/ \E kind \in Kind : Refuse(pg, kind)
      PROVE  UNCHANGED taskVars
  BY <1>3 DEF Show, OnSelect, Change, Refuse
<1>4. CASE Discover \/ UNCHANGED toolsVars
  BY <1>4 DEF Discover, toolsVars
<1>5. CASE Poll
  <2>1. ASSUME NEW pg \in Page, FollowUp(pg) PROVE TasksNext
    BY <2>1 DEF FollowUp, SubmitFor, Free, TasksNext
  <2>. QED  BY <1>5, <2>1 DEF Poll, PollRest, AnswerPage, TasksNext
<1>. QED  BY <1>1, <1>2, <1>3, <1>4, <1>5 DEF ToolsNext

(***************************************************************************)
(* What a page of the tools does to the pool and to the poll is a step of  *)
(* some task of BackgroundTaskRunner.                                      *)
(***************************************************************************)
THEOREM ToolsUseTasks == ToolsSpec => TasksSpec
<1>1. ToolsInit => TasksInit
  BY DEF ToolsInit
<1>. QED  BY <1>1, ToolsAreTasks, PTL DEF ToolsSpec, TasksSpec

(***************************************************************************)
(* Whatever the devices do, a page hears of each of its commands at most   *)
(* once, and until then _poll still looks at it.                           *)
(***************************************************************************)
THEOREM CommandsAnsweredOnce == ToolsSpec => []AnsweredOnce
BY ToolsUseTasks, TasksAnsweredOnce

-----------------------------------------------------------------------------
\* Filling the combo anew moves no selection, but an empty combo gets one.
LEMMA ReloadKeeps ==
    ASSUME ToolsTypeOK, NEW pg \in Page, Reload(pg), DeviceToolsAssumption
    PROVE  /\ selected' \in [Page -> Device \cup {None}]
           /\ \A q \in Page : selected'[q] \in Selectable(q) \cup {None}
           /\ \A q \in Page : selected'[q] # selected[q] =>
                                selected[q] = None /\ selected'[q] \in known
           /\ \A q \in Page : HasDevice(q) => HasDevice(q)'
<1>1. /\ selected \in [Page -> Device \cup {None}] /\ known \subseteq Device /\ None \notin Device
      /\ \A q \in Page : selected[q] \in Selectable(q) \cup {None}
  BY DEF ToolsTypeOK, DeviceToolsAssumption
<1>2. CASE UNCHANGED selected
  BY <1>1, <1>2 DEF HasDevice
<1>3. CASE pg # "ios" /\ known # {}
  <2>1. PICK row \in known :
            selected' = [selected EXCEPT ![pg] = IF @ \in known THEN @ ELSE row]
    BY <1>3 DEF Reload
  <2>2. selected[pg] \in known \cup {None}
    BY <1>1, <1>3 DEF Selectable
  <2>. QED  BY <1>1, <1>3, <2>1, <2>2 DEF HasDevice, Selectable
<1>. QED  BY <1>2, <1>3 DEF Reload

\* A job given to the runner: the only one of its page, or the page is crowded.
LEMMA SubmitForKeeps ==
    ASSUME ToolsInv, DeviceToolsAssumption, TasksInv', NEW t \in Task, NEW pg \in Page,
           NEW kind \in Kind, kind \in Buttons(pg).kinds,
           NeedsDevice(kind) => selected[pg] # None,
           NEW line \in Kind \cup {None, "settled"}, line \in {kind, status[pg]},
           SubmitFor(t, pg, kind, line),
           \/ following' = following /\ following = None
           \/ following' = None /\ following = pg /\ kind = "query",
           UNCHANGED <<deviceVars, visible, selected, shown, chosen, stale>>
    PROVE  ToolsInv'
<1>1. /\ future[t] = "none" /\ future' = [future EXCEPT ![t] = "queued"]
      /\ pending' = pending \cup {t} /\ UNCHANGED <<polling, answers>>
      /\ jobs' = [jobs EXCEPT ![pg] = @ \cup {t}]
      /\ work' = [work EXCEPT ![t] = [page |-> pg, kind |-> kind, serial |-> selected[pg],
                                      at |-> "submitted", result |-> FALSE]]
      /\ status' = [status EXCEPT ![pg] = line]
      /\ crowded' = IF jobs[pg] = {} THEN crowded ELSE crowded \cup {pg}
  BY DEF SubmitFor, Run, Submit, pollVars
<1>2. /\ TasksTypeOK /\ ToolsTypeOK /\ work \in [Task -> Command]
      /\ t \notin pending /\ answers[t] = <<>>
  BY <1>1 DEF ToolsInv, TasksInv, PollInv, WorkInv, JobsAreOutstanding, Done
<1>0. jobs \in [Page -> SUBSET Task] /\ status \in [Page -> Kind \cup {None, "settled"}]
  BY <1>2 DEF ToolsTypeOK
<1>3. /\ work'[t] = [page |-> pg, kind |-> kind, serial |-> selected[pg], at |-> "submitted",
                     result |-> FALSE]
      /\ \A u \in Task : u # t => work'[u] = work[u] /\ future'[u] = future[u]
      /\ future'[t] = "queued"
  BY <1>1, <1>2 DEF TasksTypeOK
<1>4. work' \in [Task -> Command]
  <2>1. selected[pg] \in Device \cup {None}
    BY <1>2 DEF ToolsTypeOK
  <2>2. [page |-> pg, kind |-> kind, serial |-> selected[pg], at |-> "submitted", result |-> FALSE]
            \in Command
    BY <2>1 DEF Command
  <2>. QED  BY <1>1, <1>2, <2>2
<1>5. \A u \in Task : Unanswered(u)' <=> Unanswered(u) \/ u = t
  BY <1>1, <1>2 DEF Unanswered
<1>6. WorkInv'
  <2>1. Submitted(work'[t])
    BY <1>2, <1>3 DEF Submitted, ToolsTypeOK
  <2>2. following' # None => polling'
    BY <1>1 DEF ToolsInv, WorkInv
  <2>3. \A q \in Page : HasDevice(q)' = HasDevice(q)
    BY DEF HasDevice
  <2>4. CommandsHaveDevices'
    <3>1. ASSUME NEW u \in Task, NEW q \in Page \ {"ios"}, Unanswered(u)',
                 NeedsDevice(work'[u].kind), work'[u].page = q
          PROVE  HasDevice(q)
      <4>1. CASE u = t
        BY <1>3, <3>1, <4>1 DEF HasDevice
      <4>2. CASE u # t
        BY <1>3, <1>5, <3>1, <4>2 DEF ToolsInv, WorkInv, CommandsHaveDevices
      <4>. QED  BY <4>1, <4>2
    <3>. QED  BY <2>3, <3>1 DEF CommandsHaveDevices
  <2>5. FollowUpHasDevice'
    BY <1>2, <2>3 DEF ToolsInv, WorkInv, FollowUpHasDevice, DeviceToolsAssumption
  <2>6. \A u \in Task : Unanswered(u)' => Submitted(work'[u])
    BY <1>3, <1>5, <2>1 DEF ToolsInv, WorkInv
  <2>. QED  BY <1>1, <1>3, <1>4, <1>5, <2>2, <2>4, <2>5, <2>6 DEF ToolsInv, WorkInv
<1>7. ToolsTypeOK'
  <2>1. jobs' \in [Page -> SUBSET Task] /\ status' \in [Page -> Kind \cup {None, "settled"}]
    BY <1>0, <1>1
  <2>2. crowded' \subseteq Page /\ following' \in Page \cup {None}
    BY <1>1, <1>2 DEF ToolsTypeOK
  <2>3. \A u \in Task : work'[u] \in Command
    BY <1>4
  <2>4. \A q \in Page : selected'[q] \in Selectable(q)' \cup {None}
    BY <1>2 DEF ToolsTypeOK, Selectable, deviceVars
  <2>. QED  BY <1>2, <2>1, <2>2, <2>3, <2>4, TasksInv' DEF ToolsTypeOK, TasksInv, Command, deviceVars
<1>8. JobsAreOutstanding'
  <2>1. ASSUME NEW q \in Page
        PROVE  jobs'[q] = {u \in Task : work'[u].page = q /\ Unanswered(u)'}
    <3>1. jobs[q] = {u \in Task : work[u].page = q /\ Unanswered(u)} /\ ~Unanswered(t)
      BY <1>2 DEF ToolsInv, JobsAreOutstanding, Unanswered
    <3>2. jobs'[q] = IF q = pg THEN jobs[q] \cup {t} ELSE jobs[q]
      BY <1>0, <1>1
    <3>. QED  BY <1>3, <1>5, <3>1, <3>2
  <2>2. ASSUME NEW q \in Page, NEW said \in Kind \ Lingering(q), status'[q] = said
        PROVE  \E u \in jobs'[q] : work'[u].kind = said
    <3>1. jobs'[q] = IF q = pg THEN jobs[q] \cup {t} ELSE jobs[q]
      BY <1>0, <1>1
    <3>2. CASE q = pg /\ line = kind
      BY <1>1, <1>2, <1>3, <2>2, <3>1, <3>2 DEF ToolsTypeOK
    <3>3. CASE ~(q = pg /\ line = kind)
      <4>1. status[q] = said
        BY <1>1, <1>2, <2>2, <3>3 DEF ToolsTypeOK
      <4>2. PICK u \in jobs[q] : work[u].kind = said
        BY <2>2, <4>1 DEF ToolsInv, JobsAreOutstanding
      <4>3. u \in Task /\ u # t
        BY <1>2, <4>2 DEF ToolsInv, JobsAreOutstanding, Unanswered
      <4>. QED  BY <1>3, <3>1, <4>2, <4>3
    <3>. QED  BY <3>2, <3>3
  <2>. QED  BY <1>7, <2>1, <2>2 DEF JobsAreOutstanding
<1>9. ASSUME NEW q \in Page \ (crowded' \cup stale')
      PROVE  TruthOf(q)'
  <2>1. q \in Page \ (crowded \cup stale) /\ TruthOf(q)
    BY <1>1, <1>9 DEF ToolsInv
  <2>2. CASE q = pg
    <3>1. jobs[q] = {} /\ jobs'[q] = {t}
      BY <1>1, <1>2, <1>9, <2>2 DEF ToolsTypeOK
    <3>2. following' # q
      BY DEF DeviceToolsAssumption
    <3>3. ShowsTruth(q) \/ kind = "query"
      BY <2>1, <2>2, <3>1 DEF TruthOf, DeviceToolsAssumption
    <3>. QED  BY <1>3, <3>1, <3>2, <3>3 DEF TruthOf, Tells, ShowsTruth, WillAsk, deviceVars, Done
  <2>3. CASE q # pg
    <3>1. jobs'[q] = jobs[q] /\ t \notin jobs[q] /\ jobs[q] \subseteq Task
      BY <1>1, <1>2, <2>3 DEF ToolsInv, JobsAreOutstanding, ToolsTypeOK, Unanswered
    <3>2. \A u \in jobs[q] : /\ work'[u] = work[u] /\ future'[u] = future[u]
                             /\ WillAsk(u)' = WillAsk(u)
      BY <1>3, <3>1 DEF WillAsk, Followed, Finished
    <3>3. following' # q /\ following # q
      BY <2>3 DEF DeviceToolsAssumption
    <3>. QED  BY <2>1, <3>1, <3>2, <3>3 DEF TruthOf, Tells, ShowsTruth, deviceVars, Done
  <2>. QED  BY <2>2, <2>3
<1>. QED  BY <1>6, <1>8, <1>9, TasksInv' DEF ToolsInv

\* What a thread writes down of its command.
Proceeds(t) ==
    \E place \in {"running", "ended"} :
        \/ work' = [work EXCEPT ![t].at = place]
        \/ \E value \in BOOLEAN : work' = [work EXCEPT ![t].at = place, ![t].result = value]

\* If what is shown is not true any more, the page will ask.
StaysTrue(t) ==
    \A pg \in Page \ (crowded \cup stale') : pg = work[t].page =>
        /\ Tells(t, pg)'
        /\ ShowsTruth(pg) \/ work[t].kind = "query" => ShowsTruth(pg)' \/ WillAsk(t)'

\* A thread takes a command up or ends it.  A page with that one job is told the
\* truth later, if what is shown is not true any more.
LEMMA CommandKeeps ==
    ASSUME ToolsInv, DeviceToolsAssumption, TasksInv', NEW t \in Task,
           future[t] \in {"queued", "running"}, future'[t] \in {"running", "result", "error"},
           \A u \in Task : u # t => future'[u] = future[u],
           UNCHANGED <<pending, answers, polling, events, pageVars, chosen, crowded>>,
           Proceeds(t),
           on' \in [Page -> SUBSET Device],
           \A pg \in Page : pg # work[t].page => on'[pg] = on[pg],
           known \subseteq known', known' \subseteq Device, failures' \in 0..MaxFailures,
           stale \subseteq stale', stale' \subseteq Page,
           StaysTrue(t)
    PROVE  ToolsInv'
<1>1. /\ TasksTypeOK /\ ToolsTypeOK /\ work \in [Task -> Command]
      /\ Unanswered(t) /\ Submitted(work[t]) /\ t \in jobs[work[t].page]
  <2>1. Unanswered(t)
    BY DEF ToolsInv, TasksInv, PollInv, WorkInv, Unanswered, Done
  <2>2. Submitted(work[t]) /\ work[t].page \in Page
    BY <2>1 DEF ToolsInv, WorkInv, Submitted
  <2>3. t \in jobs[work[t].page]
    <3>1. PICK q \in Page : q = work[t].page
      BY <2>2
    <3>2. jobs[q] = {u \in Task : work[u].page = q /\ Unanswered(u)}
      BY DEF ToolsInv, JobsAreOutstanding
    <3>. QED  BY <2>1, <3>1, <3>2
  <2>. QED  BY <2>1, <2>2, <2>3 DEF ToolsInv, TasksInv, WorkInv, JobsAreOutstanding
<1>0. PICK place \in {"running", "ended"}, value \in BOOLEAN :
          \/ work' = [work EXCEPT ![t].at = place]
          \/ work' = [work EXCEPT ![t].at = place, ![t].result = value]
  <2>1. TRUE \in BOOLEAN
    OBVIOUS
  <2>. QED  BY <2>1 DEF Proceeds
<1>2. work' \in [Task -> Command]
  <2>1. work[t] \in Command
    BY <1>1
  <2>2. [work[t] EXCEPT !.at = place] \in Command
        /\ [work[t] EXCEPT !.at = place, !.result = value] \in Command
    BY <2>1 DEF Command
  <2>3. CASE work' = [work EXCEPT ![t].at = place]
    <3>1. work' = [work EXCEPT ![t] = [work[t] EXCEPT !.at = place]]
      BY <1>1, <2>3
    <3>. QED  BY <1>1, <2>2, <3>1
  <2>4. CASE work' = [work EXCEPT ![t].at = place, ![t].result = value]
    <3>1. work' = [work EXCEPT ![t] = [work[t] EXCEPT !.at = place, !.result = value]]
      BY <1>1, <2>4
    <3>. QED  BY <1>1, <2>2, <3>1
  <2>. QED  BY <1>0, <2>3, <2>4
<1>3. /\ \A u \in Task : u # t => work'[u] = work[u] /\ future'[u] = future[u]
      /\ work'[t].page = work[t].page /\ work'[t].kind = work[t].kind
      /\ work'[t].serial = work[t].serial
  <2>1. work[t] \in Command
    BY <1>1
  <2>. QED  BY <1>0, <1>1, <2>1 DEF TasksTypeOK, Command
<1>4. \A u \in Task : Unanswered(u)' = Unanswered(u)
  BY DEF Unanswered
<1>5. WorkInv'
  <2>1. \A u \in Task : Submitted(work[u]) => Submitted(work'[u])
    BY <1>3 DEF Submitted
  <2>2. \A u \in Task : work'[u].kind = work[u].kind /\ work'[u].page = work[u].page
    BY <1>3
  <2>3. CommandsHaveDevices' /\ FollowUpHasDevice'
    <3>1. (\A q \in Page : HasDevice(q)' = HasDevice(q)) /\ following' = following
      BY DEF HasDevice, pageVars
    <3>2. CommandsHaveDevices /\ FollowUpHasDevice
      BY DEF ToolsInv, WorkInv
    <3>3. CommandsHaveDevices'
      BY <1>4, <2>2, <3>1, <3>2 DEF CommandsHaveDevices
    <3>4. FollowUpHasDevice'
      BY <3>1, <3>2 DEF FollowUpHasDevice
    <3>. QED  BY <3>3, <3>4
  <2>. QED  BY <1>1, <1>2, <1>3, <1>4, <2>1, <2>3 DEF ToolsInv, WorkInv, Unanswered, pageVars
<1>6. ToolsTypeOK'
  <2>1. \A u \in Task : work'[u] \in Command
    BY <1>2
  <2>2. \A q \in Page : selected'[q] \in Selectable(q)' \cup {None}
    BY <1>1 DEF ToolsTypeOK, Selectable, pageVars
  <2>. QED  BY <1>1, <2>1, <2>2, TasksInv' DEF ToolsTypeOK, TasksInv, Command, pageVars
<1>7. JobsAreOutstanding'
  <2>1. ASSUME NEW q \in Page
        PROVE  jobs'[q] = {u \in Task : work'[u].page = q /\ Unanswered(u)'}
    <3>1. jobs'[q] = {u \in Task : work[u].page = q /\ Unanswered(u)}
      BY DEF ToolsInv, JobsAreOutstanding, pageVars
    <3>. QED  BY <1>3, <1>4, <3>1
  <2>2. ASSUME NEW q \in Page, NEW said \in Kind \ Lingering(q), status'[q] = said
        PROVE  \E u \in jobs'[q] : work'[u].kind = said
    <3>1. PICK u \in jobs[q] : work[u].kind = said
      BY <2>2 DEF ToolsInv, JobsAreOutstanding, pageVars
    <3>2. u \in Task /\ jobs'[q] = jobs[q]
      BY <1>1, <3>1 DEF ToolsTypeOK, pageVars
    <3>. QED  BY <1>3, <3>1, <3>2
  <2>. QED  BY <1>6, <2>1, <2>2 DEF JobsAreOutstanding
<1>8. ASSUME NEW q \in Page \ (crowded' \cup stale')
      PROVE  TruthOf(q)'
  <2>1. q \in Page \ (crowded \cup stale) /\ TruthOf(q) /\ jobs'[q] = jobs[q]
        /\ following' = following /\ shown' = shown
    BY <1>8 DEF ToolsInv, pageVars
  <2>2. CASE q = work[t].page
    <3>1. jobs[q] = {t} /\ following # q /\ ~Followed(t)
      BY <1>1, <2>1, <2>2 DEF TruthOf, Followed
    <3>2. ShowsTruth(q) \/ work[t].kind = "query"
      BY <2>1, <3>1 DEF TruthOf, WillAsk
    <3>3. ShowsTruth(q)' \/ WillAsk(t)'
      BY <1>8, <2>2, <3>2 DEF StaysTrue
    <3>4. Tells(t, q)'
      BY <1>8, <2>2 DEF StaysTrue
    <3>. QED  BY <1>8, <2>1, <2>2, <3>1, <3>3, <3>4 DEF TruthOf, Tells, Done
  <2>3. CASE q # work[t].page
    <3>1. t \notin jobs[q] /\ jobs[q] \subseteq Task
      <4>1. jobs[q] = {u \in Task : work[u].page = q /\ Unanswered(u)}
        BY DEF ToolsInv, JobsAreOutstanding
      <4>. QED  BY <2>3, <4>1
    <3>2. \A u \in jobs[q] : /\ work'[u] = work[u] /\ future'[u] = future[u]
                             /\ WillAsk(u)' = WillAsk(u)
      BY <1>3, <3>1 DEF WillAsk, Followed, Finished
    <3>. QED  BY <2>1, <2>3, <3>1, <3>2 DEF TruthOf, Tells, ShowsTruth, Done
  <2>. QED  BY <2>2, <2>3
<1>. QED  BY <1>5, <1>7, <1>8, TasksInv' DEF ToolsInv

\* The command has ended.
LEMMA CommandEnded ==
    ASSUME ToolsInv, NEW t \in Task, NEW value \in BOOLEAN, future[t] = "running",
           Return(t, value) \/ Raise(t)
    PROVE  /\ Proceeds(t) /\ work[t].page \in Page /\ Submitted(work[t])
           /\ work'[t].page = work[t].page /\ work'[t].kind = work[t].kind
           /\ work'[t].serial = work[t].serial
           /\ Return(t, value) => future'[t] = "result" /\ work'[t].result = value
           /\ future'[t] \in {"result", "error"}
           /\ \A u \in Task : u # t => future'[u] = future[u]
           /\ UNCHANGED <<pending, answers, polling>>
<1>1. future \in [Task -> Future] /\ work \in [Task -> Command]
  BY DEF ToolsInv, TasksInv, TasksTypeOK, WorkInv
<1>2. work[t].page \in Page /\ Submitted(work[t])
  BY DEF ToolsInv, WorkInv, TasksInv, PollInv, Unanswered, Submitted, Done
<1>3. UNCHANGED <<pending, answers, polling>>
  BY DEF Return, Raise, Settle, pollVars, historyVars
<1>4. CASE Return(t, value)
  <2>1. /\ future' = [future EXCEPT ![t] = "result"]
        /\ work' = [work EXCEPT ![t].at = "ended", ![t].result = value]
    BY <1>4 DEF Return, Settle
  <2>2. Proceeds(t)
    BY <2>1 DEF Proceeds
  <2>. QED  BY <1>1, <1>2, <1>3, <2>1, <2>2 DEF Command
<1>5. CASE Raise(t)
  <2>1. /\ future' = [future EXCEPT ![t] = "error"]
        /\ work' = [work EXCEPT ![t].at = "ended"]
    BY <1>5 DEF Raise, Settle
  <2>2. Proceeds(t)
    BY <2>1 DEF Proceeds
  <2>3. ~Return(t, value)
    BY <1>1, <2>1 DEF Return, Settle
  <2>. QED  BY <1>1, <1>2, <1>3, <2>1, <2>2, <2>3 DEF Command
<1>. QED  BY <1>4, <1>5

LEMMA FailsOnce ==
    ASSUME ToolsTypeOK, DeviceToolsAssumption, NEW pg \in Page, Fails(pg)
    PROVE  /\ failures' \in 0..MaxFailures
           /\ stale \subseteq stale' /\ stale' \subseteq Page /\ pg \in stale'
<1>1. failures \in 0..MaxFailures /\ MaxFailures \in Nat /\ stale \subseteq Page
  BY DEF ToolsTypeOK, DeviceToolsAssumption
<1>2. failures > 0 /\ failures' = failures - 1 /\ stale' = stale \cup {pg}
  BY DEF Fails
<1>3. failures' \in 0..MaxFailures
  BY <1>1, <1>2
<1>. QED  BY <1>1, <1>2, <1>3

LEMMA ThreadKeeps ==
    ASSUME ToolsInv, DeviceToolsAssumption, TasksInv', NEW t \in Task, Thread(t)
    PROVE  ToolsInv'
<1>1. /\ future \in [Task -> Future] /\ pool_queue \in Seq(Task) /\ ToolsTypeOK
      /\ work \in [Task -> Command]
  BY DEF ToolsInv, TasksInv, TasksTypeOK, WorkInv, JobsAreOutstanding
<1>2. CASE Begin(t)
  <2>1. /\ future[t] = "queued" /\ future' = [future EXCEPT ![t] = "running"]
        /\ UNCHANGED <<pending, answers, polling, deviceVars, pageVars, toolHistory>>
        /\ work' = [work EXCEPT ![t].at = "running"]
    BY <1>1, <1>2 DEF Begin, TakeUp, ToolsInv, TasksInv, QueueInv, pollVars, historyVars
  <2>2. Proceeds(t)
    BY <2>1 DEF Proceeds
  <2>3. \A q \in Page : ShowsTruth(q)' = ShowsTruth(q)
    BY <2>1 DEF ShowsTruth, deviceVars, pageVars
  <2>4. \A q \in Page : ShowsTruth(q) \/ work[t].kind = "query" => ShowsTruth(q)' \/ WillAsk(t)'
    <3>1. work'[t].kind = work[t].kind
      BY <1>1, <2>1 DEF Command
    <3>. QED  BY <2>3, <3>1 DEF WillAsk
  <2>5. /\ events' = events /\ chosen' = chosen /\ crowded' = crowded
        /\ on' \in [Page -> SUBSET Device] /\ on' = on /\ known' = known
        /\ known' \subseteq Device /\ failures' \in 0..MaxFailures
        /\ stale' = stale /\ stale' \subseteq Page
    BY <1>1, <2>1 DEF ToolsTypeOK, deviceVars, toolHistory
  <2>6. \A q \in Page : Tells(t, q)'
    BY <1>1, <2>1 DEF Tells, Done
  <2>7. StaysTrue(t) /\ future'[t] = "running" /\ \A u \in Task : u # t => future'[u] = future[u]
    BY <1>1, <2>1, <2>4, <2>6 DEF StaysTrue
  <2>. QED  BY <2>1, <2>2, <2>5, <2>7, CommandKeeps
<1>4. CASE Query(t)
  <2>1. /\ future[t] = "running" /\ work[t].kind = "query"
        /\ UNCHANGED <<on, events, known, pageVars, chosen, crowded>>
    BY <1>4 DEF Query, At
  <2>2. PICK value \in BOOLEAN :
              /\ Return(t, value)
              /\ \/ (value <=> work[t].serial \in on[work[t].page]) /\ UNCHANGED <<failures, stale>>
                 \/ Fails(work[t].page)
    <3>1. (work[t].serial \in on[work[t].page]) \in BOOLEAN
      OBVIOUS
    <3>. QED  BY <1>4, <3>1 DEF Query
  <2>3. StaysTrue(t)
    BY <2>1, <2>2, CommandEnded DEF StaysTrue, Tells, WillAsk, Fails
  <2>4. failures' \in 0..MaxFailures /\ stale \subseteq stale' /\ stale' \subseteq Page
    <3>1. CASE UNCHANGED <<failures, stale>>
      BY <1>1, <3>1 DEF ToolsTypeOK
    <3>2. CASE Fails(work[t].page)
      BY <1>1, <2>1, <2>2, <3>2, CommandEnded, FailsOnce
    <3>. QED  BY <2>2, <3>1, <3>2
  <2>5. /\ Proceeds(t) /\ future'[t] \in {"result", "error"}
        /\ \A u \in Task : u # t => future'[u] = future[u]
        /\ UNCHANGED <<pending, answers, polling>>
    BY <2>1, <2>2, CommandEnded DEF Fails
  <2>6. on' \in [Page -> SUBSET Device] /\ known \subseteq known' /\ known' \subseteq Device
    BY <1>1, <2>1 DEF ToolsTypeOK
  <2>. QED  BY <2>1, <2>3, <2>4, <2>5, <2>6, CommandKeeps
<1>5. CASE TurnOn(t)
  <2>1. /\ future[t] = "running" /\ work[t].kind = "on"
        /\ UNCHANGED <<events, known, pageVars, chosen, crowded>>
    BY <1>5 DEF TurnOn, At
  <2>2. CASE /\ on' = [on EXCEPT ![work[t].page] = @ \cup {work[t].serial}]
             /\ stale' = IF work[t].page = "adb" THEN stale \cup {"adb"} ELSE stale
             /\ Return(t, TRUE) /\ UNCHANGED failures
    <3>1. StaysTrue(t)
      <4>1. work[t].page \in {"frida", "network"} => WillAsk(t)'
        BY <2>1, <2>2, CommandEnded DEF WillAsk, Followed, Finished, FridaFinished, NetworkFinished
      <4>2. work[t].page \in {"frida", "network", "adb"}
        BY <2>1, <2>2, CommandEnded DEF Submitted, Buttons, IosButtons, DeviceToolsAssumption
      <4>. QED  BY <2>1, <2>2, <4>1, <4>2, CommandEnded DEF StaysTrue, Tells
    <3>2. /\ on' \in [Page -> SUBSET Device] /\ failures' \in 0..MaxFailures
          /\ \A q \in Page : q # work[t].page => on'[q] = on[q]
          /\ stale \subseteq stale' /\ stale' \subseteq Page
      <4>1. on \in [Page -> SUBSET Device] /\ stale \subseteq Page /\ failures \in 0..MaxFailures
        BY <1>1 DEF ToolsTypeOK
      <4>2. work[t].serial \in Device /\ work[t].page \in Page
        BY <2>1, <2>2, CommandEnded DEF Submitted, NeedsDevice
      <4>3. stale' \in {stale, stale \cup {work[t].page}}
        BY <2>2
      <4>. QED  BY <2>2, <4>1, <4>2, <4>3
    <3>. QED  BY <1>1, <2>1, <2>2, <3>1, <3>2, CommandEnded, CommandKeeps DEF ToolsTypeOK
  <2>3. CASE Fails(work[t].page) /\ UNCHANGED on /\ (Return(t, FALSE) \/ Raise(t))
    <3>1. /\ failures' \in 0..MaxFailures /\ stale \subseteq stale' /\ stale' \subseteq Page
          /\ work[t].page \in stale'
      BY <1>1, <2>1, <2>3, CommandEnded, FailsOnce
    <3>2. StaysTrue(t)
      BY <3>1 DEF StaysTrue
    <3>. QED  BY <1>1, <2>1, <2>3, <3>1, <3>2, CommandEnded, CommandKeeps DEF ToolsTypeOK
  <2>. QED  BY <1>5, <2>2, <2>3 DEF TurnOn
<1>6. CASE TurnOff(t)
  <2>1. /\ future[t] = "running" /\ work[t].kind = "off"
        /\ UNCHANGED <<events, known, pageVars, chosen, crowded>>
    BY <1>6 DEF TurnOff, At
  <2>2. PICK value \in BOOLEAN :
          /\ value <=> work[t].serial \in on[work[t].page]
          /\ \/ /\ Return(t, value) /\ UNCHANGED <<failures, stale>>
                /\ on' = [on EXCEPT ![work[t].page] = @ \ {work[t].serial}]
             \/ Fails(work[t].page) /\ Return(t, FALSE) /\ UNCHANGED on
    <3>1. (work[t].serial \in on[work[t].page]) \in BOOLEAN
      OBVIOUS
    <3>. QED  BY <1>6, <3>1 DEF TurnOff
  <2>3. CASE /\ Return(t, value) /\ UNCHANGED <<failures, stale>>
             /\ on' = [on EXCEPT ![work[t].page] = @ \ {work[t].serial}]
    <3>1. StaysTrue(t)
      <4>1. value \/ work[t].page # "adb" => WillAsk(t)'
        <5>1. /\ work'[t].page = work[t].page /\ work'[t].kind = "off"
              /\ future'[t] = "result" /\ work'[t].result = value
              /\ work[t].page \in Page /\ "off" \in Buttons(work[t].page).kinds
          BY <2>1, <2>3, CommandEnded DEF Submitted
        <5>2. "off" \notin IosButtons.kinds
          BY DEF IosButtons
        <5>. QED  BY <5>1, <5>2 DEF WillAsk, Followed, Finished, FridaFinished, NetworkFinished,
                              AdbFinished, Buttons
      <4>2. ~value => \A q \in Page : ShowsTruth(q)' = ShowsTruth(q)
        <5>1. ~value => on' = on
          BY <1>1, <2>2, <2>3, CommandEnded DEF ToolsTypeOK
        <5>. QED  BY <2>1, <5>1 DEF ShowsTruth, pageVars
      <4>. QED  BY <2>1, <2>3, <4>1, <4>2, CommandEnded DEF StaysTrue, Tells
    <3>2. /\ on' \in [Page -> SUBSET Device] /\ failures' \in 0..MaxFailures
          /\ \A q \in Page : q # work[t].page => on'[q] = on[q]
          /\ stale' = stale /\ stale' \subseteq Page
      <4>1. on \in [Page -> SUBSET Device] /\ stale \subseteq Page /\ failures \in 0..MaxFailures
        BY <1>1 DEF ToolsTypeOK
      <4>2. work[t].page \in Page
        BY <2>1, <2>3, CommandEnded
      <4>. QED  BY <2>3, <4>1, <4>2
    <3>3. /\ Proceeds(t) /\ future'[t] \in {"result", "error"}
          /\ \A u \in Task : u # t => future'[u] = future[u]
          /\ UNCHANGED <<pending, answers, polling>>
      BY <2>1, <2>3, CommandEnded
    <3>4. UNCHANGED events /\ known \subseteq known' /\ known' \subseteq Device
      BY <1>1, <2>1 DEF ToolsTypeOK
    <3>. QED  BY <2>1, <3>1, <3>2, <3>3, <3>4, CommandKeeps
  <2>4. CASE Fails(work[t].page) /\ Return(t, FALSE) /\ UNCHANGED on
    <3>1. /\ failures' \in 0..MaxFailures /\ stale \subseteq stale' /\ stale' \subseteq Page
          /\ work[t].page \in stale'
      BY <1>1, <2>1, <2>4, CommandEnded, FailsOnce
    <3>2. StaysTrue(t)
      BY <3>1 DEF StaysTrue
    <3>. QED  BY <1>1, <2>1, <2>4, <3>1, <3>2, CommandEnded, CommandKeeps DEF ToolsTypeOK
  <2>. QED  BY <2>2, <2>3, <2>4
<1>7. CASE Use(t) \/ ReadOrStart(t) \/ Scan(t) \/ CollectDevices(t)
  <2>1. /\ future[t] = "running" /\ work[t].kind \in {"use", "props", "server", "scan"}
        /\ UNCHANGED <<on, events, failures, pageVars, chosen, crowded, stale>>
        /\ known' \in {known, Device}
    BY <1>7 DEF Use, ReadOrStart, Scan, CollectDevices, At, deviceVars, toolHistory
  <2>2. PICK value \in BOOLEAN : Return(t, value) \/ Raise(t)
    <3>1. (work[t].serial \in on["adb"]) \in BOOLEAN
      OBVIOUS
    <3>. QED  BY <1>7, <3>1 DEF Use, ReadOrStart, Scan, CollectDevices
  <2>3. StaysTrue(t)
    <3>1. \A q \in Page : ShowsTruth(q)' = ShowsTruth(q)
      BY <2>1 DEF ShowsTruth, pageVars
    <3>. QED  BY <2>1, <2>2, <3>1, CommandEnded DEF StaysTrue, Tells
  <2>. QED  BY <1>1, <2>1, <2>2, <2>3, CommandEnded, CommandKeeps DEF ToolsTypeOK
<1>. QED  BY <1>2, <1>4, <1>5, <1>6, <1>7 DEF Thread

-----------------------------------------------------------------------------
\* The slots: the answer is shown, or what it tells of is asked for next.
LEMMA AnswerPageKeeps ==
    ASSUME ToolsInv, DeviceToolsAssumption, TasksInv', NEW t \in Task, AnswerPage(t)
    PROVE  ToolsInv'
<1>1. /\ TasksTypeOK /\ ToolsTypeOK /\ work \in [Task -> Command] /\ polling
      /\ Unanswered(t) /\ Submitted(work[t]) /\ Done(t)
  <2>1. Unanswered(t) /\ Done(t) /\ polling
    BY DEF AnswerPage, PollAnswer, ToolsInv, TasksInv, TasksTypeOK, PollInv, Unanswered
  <2>. QED  BY <2>1 DEF ToolsInv, TasksInv, WorkInv, JobsAreOutstanding
<1>2. PICK q \in Page : q = work[t].page
  BY <1>1 DEF Submitted
<1>3. /\ following = None /\ UNCHANGED <<pending, future, polling, deviceVars, visible, toolHistory>>
      /\ answers' = [answers EXCEPT ![t] = Append(@, future[t])]
      /\ jobs' = [jobs EXCEPT ![q] = @ \ {t}] /\ work' = [work EXCEPT ![t] = NoWork]
      /\ following' = IF Followed(t) THEN q ELSE None
  BY <1>2 DEF AnswerPage, PollAnswer, Forget, poolVars
<1>4. /\ selected' \in [Page -> Device \cup {None}]
      /\ \A p \in Page : selected'[p] \in Selectable(p) \cup {None}
      /\ \A p \in Page : HasDevice(p) => HasDevice(p)'
  <2>1. CASE work[t].kind = "scan" /\ work[t].page = "adb" /\ future[t] = "result"
    BY <1>1, <1>2, <2>1, ReloadKeeps DEF AnswerPage
  <2>2. CASE UNCHANGED selected
    BY <1>1, <2>2 DEF ToolsTypeOK, HasDevice
  <2>. QED  BY <2>1, <2>2 DEF AnswerPage
<1>5. /\ \A u \in Task : u # t => work'[u] = work[u] /\ answers'[u] = answers[u]
      /\ work'[t] = NoWork /\ answers'[t] # <<>>
  BY <1>1, <1>3 DEF TasksTypeOK, Done, Unanswered
<1>6. /\ ~Unanswered(t)'
      /\ \A u \in Task : u # t => Unanswered(u)' = Unanswered(u)
  BY <1>3, <1>5 DEF Unanswered
<1>7. work' \in [Task -> Command]
  <2>1. NoWork \in Command
    BY DEF NoWork, Command
  <2>. QED  BY <1>1, <1>3, <2>1
<1>8. WorkInv'
  <2>1. Followed(t) => HasDevice(q)
    <3>1. ASSUME Followed(t) PROVE HasDevice(q)
      <4>1. NeedsDevice(work[t].kind) /\ q # "ios"
        BY <1>1, <1>2, <3>1 DEF Followed, Finished, AdbFinished, IosFinished, FridaFinished,
              NetworkFinished, NeedsDevice, Submitted, Buttons, FridaButtons, NetworkButtons
      <4>. QED  BY <1>1, <1>2, <4>1 DEF ToolsInv, WorkInv, CommandsHaveDevices
    <3>. QED  BY <3>1
  <2>2. FollowUpHasDevice'
    BY <1>3, <1>4, <2>1 DEF FollowUpHasDevice, DeviceToolsAssumption
  <2>3. CommandsHaveDevices'
    <3>1. ASSUME NEW u \in Task, NEW p \in Page \ {"ios"}, Unanswered(u)',
                 NeedsDevice(work'[u].kind), work'[u].page = p
          PROVE  HasDevice(p)'
      <4>1. Unanswered(u) /\ work'[u] = work[u]
        BY <1>5, <1>6, <3>1
      <4>. QED  BY <1>4, <3>1, <4>1 DEF ToolsInv, WorkInv, CommandsHaveDevices
    <3>. QED  BY <3>1 DEF CommandsHaveDevices
  <2>4. \A u \in Task : Unanswered(u)' => Submitted(work'[u])
    BY <1>5, <1>6 DEF ToolsInv, WorkInv
  <2>5. \A u \in Task : future'[u] \in {"queued", "running"} => u \in pending'
    BY <1>3 DEF ToolsInv, WorkInv
  <2>. QED  BY <1>1, <1>3, <1>7, <2>2, <2>3, <2>4, <2>5 DEF WorkInv
<1>9. shown' \in [Page -> {None} \cup [serial : Device, value : BOOLEAN]]
  <2>1. work[t].kind = "query" => [serial |-> work[t].serial, value |-> work[t].result]
                                       \in [serial : Device, value : BOOLEAN]
    BY <1>1 DEF Submitted, NeedsDevice, Command
  <2>. QED  BY <1>1, <1>2, <2>1 DEF AnswerPage, Render, ToolsTypeOK
<1>10. ToolsTypeOK'
  <2>1. jobs' \in [Page -> SUBSET Task] /\ following' \in Page \cup {None}
    BY <1>1, <1>3 DEF ToolsTypeOK
  <2>2. status' \in [Page -> Kind \cup {None, "settled"}]
    BY <1>1 DEF AnswerPage, SettleLine, ToolsTypeOK
  <2>3. \A u \in Task : work'[u] \in Command
    BY <1>7
  <2>4. \A p \in Page : selected'[p] \in Selectable(p)' \cup {None}
    BY <1>1, <1>3, <1>4 DEF ToolsTypeOK, Selectable, deviceVars
  <2>. QED  BY <1>1, <1>3, <1>4, <1>9, <2>1, <2>2, <2>3, <2>4, TasksInv'
            DEF ToolsTypeOK, TasksInv, Command, deviceVars, toolHistory
<1>11. /\ jobs'[q] = jobs[q] \ {t} /\ t \in jobs[q]
       /\ \A p \in Page : p # q => jobs'[p] = jobs[p] /\ t \notin jobs[p]
       /\ \A p \in Page : jobs[p] = {u \in Task : work[u].page = p /\ Unanswered(u)}
  <2>1. \A p \in Page : jobs[p] = {u \in Task : work[u].page = p /\ Unanswered(u)}
    BY DEF ToolsInv, JobsAreOutstanding
  <2>2. t \in jobs[q] /\ \A p \in Page : p # q => t \notin jobs[p]
    BY <1>1, <1>2, <2>1
  <2>3. jobs \in [Page -> SUBSET Task]
    BY <1>1 DEF ToolsTypeOK
  <2>. QED  BY <1>3, <2>1, <2>2, <2>3
<1>12. JobsAreOutstanding'
  <2>1. ASSUME NEW p \in Page
        PROVE  jobs'[p] = {u \in Task : work'[u].page = p /\ Unanswered(u)'}
    BY <1>5, <1>6, <1>11
  <2>2. ASSUME NEW p \in Page, NEW said \in Kind \ Lingering(p), status'[p] = said
        PROVE  \E u \in jobs'[p] : work'[u].kind = said
    <3>1. status' = [r \in Page |->
                        IF future[t] = "error" \/ (r = q /\ Finished(t).settles)
                        THEN "settled" ELSE status[r]]
      BY <1>2 DEF AnswerPage, SettleLine
    <3>2. status[p] = said /\ ~(p = q /\ Finished(t).settles)
      BY <2>2, <3>1 DEF Kind
    <3>3. p = q => work[t].kind # said
      <4>1. ASSUME p = q, work[t].kind = said PROVE FALSE
        <5>1. ~Finished(t).settles /\ work[t].page = p
          BY <1>2, <3>2, <4>1
        <5>2. p = "frida" \/ p = "adb"
          BY <5>1 DEF Finished, IosFinished, NetworkFinished
        <5>3. said \in Lingering(p)
          BY <2>2, <4>1, <5>1, <5>2 DEF Finished, FridaFinished, AdbFinished, Lingering
        <5>. QED  BY <2>2, <5>3
      <4>. QED  BY <4>1
    <3>4. PICK u \in jobs[p] : work[u].kind = said
      BY <2>2, <3>2 DEF ToolsInv, JobsAreOutstanding
    <3>5. u # t /\ u \in Task
      BY <1>11, <3>3, <3>4
    <3>. QED  BY <1>5, <1>11, <3>4, <3>5
  <2>. QED  BY <1>10, <2>1, <2>2 DEF JobsAreOutstanding
<1>13. ASSUME NEW p \in Page \ (crowded' \cup stale')
       PROVE  TruthOf(p)'
  <2>1. p \in Page \ (crowded \cup stale) /\ TruthOf(p) /\ following # p /\ on' = on
    BY <1>3, <1>13 DEF ToolsInv, deviceVars, toolHistory, DeviceToolsAssumption
  <2>2. CASE p = q
    <3>1. jobs[p] = {t} /\ jobs'[p] = {}
      BY <1>11, <2>1, <2>2 DEF TruthOf
    <3>2. following' = p \/ ShowsTruth(p)'
      <4>1. CASE work[t].kind = "query"
        <5>1. future[t] = "result" /\ (work[t].result <=> work[t].serial \in on[p])
          BY <1>1, <2>1, <3>1, <4>1 DEF TruthOf, Tells
        <5>2. shown'[p] = [serial |-> work[t].serial, value |-> work[t].result]
          BY <1>1, <1>2, <2>2, <4>1, <5>1 DEF AnswerPage, Render, ToolsTypeOK
        <5>. QED  BY <2>1, <5>1, <5>2 DEF ShowsTruth
      <4>2. CASE work[t].kind # "query"
        <5>1. shown' = shown
          BY <4>2 DEF AnswerPage, Render
        <5>2. ShowsTruth(p) \/ Followed(t)
          BY <2>1, <3>1, <4>2 DEF TruthOf, WillAsk
        <5>. QED  BY <1>3, <2>1, <2>2, <5>1, <5>2 DEF ShowsTruth
      <4>. QED  BY <4>1, <4>2
    <3>. QED  BY <3>1, <3>2 DEF TruthOf
  <2>3. CASE p # q
    <3>1. jobs'[p] = jobs[p] /\ following' # p /\ shown'[p] = shown[p]
      BY <1>1, <1>2, <1>3, <1>11, <2>1, <2>3 DEF AnswerPage, Render, ToolsTypeOK, DeviceToolsAssumption
    <3>2. \A u \in jobs[p] : /\ u \in Task /\ work'[u] = work[u]
                             /\ WillAsk(u)' = WillAsk(u)
      <4>1. \A u \in jobs[p] : u \in Task /\ u # t
        <5>1. jobs[p] = {u \in Task : work[u].page = p /\ Unanswered(u)} /\ t \notin jobs[p]
          BY <1>11, <1>13, <2>3
        <5>. QED  BY <5>1
      <4>. QED  BY <1>3, <1>5, <4>1 DEF WillAsk, Followed, Finished
    <3>. QED  BY <1>3, <2>1, <3>1, <3>2 DEF TruthOf, Tells, ShowsTruth, Done
  <2>. QED  BY <2>2, <2>3
<1>. QED  BY <1>8, <1>12, <1>13, TasksInv' DEF ToolsInv

\* The user, the devices and the rest of _poll: no job comes or goes.
LEMMA WorldKeeps ==
    ASSUME ToolsInv, DeviceToolsAssumption, TasksInv',
           \A u \in Task : Unanswered(u)' = Unanswered(u) /\ future'[u] = future[u],
           \A u \in Task : u \in pending \ pending' => Done(u),
           polling' = polling \/ following = None,
           UNCHANGED <<jobs, work, shown, following, crowded>>,
           visible' \in Page, selected' \in [Page -> Device \cup {None}],
           chosen' \in [Page -> Device \cup {None}],
           \A pg \in Page : selected'[pg] \in Selectable(pg)' \cup {None},
           \A pg \in Page : HasDevice(pg) => HasDevice(pg)',
           \A pg \in Page : status'[pg] \in {status[pg], "settled"},
           status' \in [Page -> Kind \cup {None, "settled"}],
           on' \in [Page -> SUBSET Device],
           known' \subseteq Device, failures' = failures, events' \in 0..MaxEvents,
           stale \subseteq stale', stale' \subseteq Page,
           \A pg \in Page \ stale' : on'[pg] = on[pg]
    PROVE  ToolsInv'
<1>1. ToolsTypeOK /\ work \in [Task -> Command]
  BY DEF ToolsInv, WorkInv, JobsAreOutstanding
<1>2. WorkInv'
  <2>1. CommandsHaveDevices'
    BY DEF ToolsInv, WorkInv, CommandsHaveDevices
  <2>2. FollowUpHasDevice'
    BY DEF ToolsInv, WorkInv, FollowUpHasDevice
  <2>. QED  BY <2>1, <2>2 DEF ToolsInv, WorkInv, Done
<1>3. ToolsTypeOK'
  <2>1. \A u \in Task : work'[u] \in Command
    BY <1>1
  <2>. QED  BY <1>1, <2>1, TasksInv' DEF ToolsTypeOK, TasksInv, Command
<1>4. JobsAreOutstanding'
  <2>1. ASSUME NEW q \in Page
        PROVE  jobs'[q] = {u \in Task : work'[u].page = q /\ Unanswered(u)'}
    <3>1. jobs[q] = {u \in Task : work[u].page = q /\ Unanswered(u)}
      BY DEF ToolsInv, JobsAreOutstanding
    <3>. QED  BY <3>1
  <2>2. ASSUME NEW q \in Page, NEW said \in Kind \ Lingering(q), status'[q] = said
        PROVE  \E u \in jobs'[q] : work'[u].kind = said
    <3>1. status[q] = said
      BY <2>2 DEF Kind
    <3>. QED  BY <2>2, <3>1 DEF ToolsInv, JobsAreOutstanding
  <2>. QED  BY <1>3, <2>1, <2>2 DEF JobsAreOutstanding
<1>5. ASSUME NEW q \in Page \ (crowded' \cup stale')
      PROVE  TruthOf(q)'
  <2>1. TruthOf(q) /\ on'[q] = on[q]
    BY <1>5 DEF ToolsInv
  <2>2. jobs[q] \subseteq Task
    BY <1>1 DEF ToolsTypeOK
  <2>3. \A u \in jobs[q] : WillAsk(u)' = WillAsk(u)
    BY <2>2 DEF WillAsk, Followed, Finished
  <2>. QED  BY <2>1, <2>2, <2>3 DEF TruthOf, Tells, ShowsTruth, Done
<1>. QED  BY <1>2, <1>4, <1>5, TasksInv' DEF ToolsInv

LEMMA OutsideKeeps ==
    ASSUME ToolsInv, DeviceToolsAssumption, TasksInv',
           \/ \E pg \in Page : Show(pg) \/ \E d \in Device : Change(pg, d)
           \/ \E pg \in Page, d \in Device \cup {None} : OnSelect(pg, d)
           \/ \E pg \in Page, kind \in Kind : Refuse(pg, kind)
           \/ Discover
           \/ UNCHANGED toolsVars
    PROVE  ToolsInv'
<1>1. /\ on \in [Page -> SUBSET Device] /\ known \subseteq Device
      /\ events \in 0..MaxEvents /\ MaxEvents \in Nat
      /\ visible \in Page /\ selected \in [Page -> Device \cup {None}]
      /\ chosen \in [Page -> Device \cup {None}]
      /\ \A pg \in Page : selected[pg] \in Selectable(pg) \cup {None}
      /\ status \in [Page -> Kind \cup {None, "settled"}]
      /\ stale \subseteq Page /\ ToolsTypeOK
  BY DEF ToolsInv, JobsAreOutstanding, ToolsTypeOK, DeviceToolsAssumption
<1>2. events > 0 /\ events' = events - 1 => events' \in 0..MaxEvents
  BY <1>1
<1>3. UNCHANGED taskVars => /\ polling' = polling
                            /\ \A u \in Task : Unanswered(u)' = Unanswered(u) /\ future'[u] = future[u]
                            /\ \A u \in Task : u \in pending \ pending' => Done(u)
  BY DEF taskVars, poolVars, pollVars, historyVars, Unanswered
\* What leaves the selections alone.
<1>4. UNCHANGED selected /\ known \subseteq known' =>
          /\ \A q \in Page : selected'[q] \in Selectable(q)' \cup {None}
          /\ \A q \in Page : HasDevice(q) => HasDevice(q)'
  BY <1>1 DEF Selectable, HasDevice
<1>5. ASSUME NEW pg \in Page, Show(pg) PROVE ToolsInv'
  <2>1. /\ UNCHANGED <<taskVars, on, failures, known, jobs, shown, status, following, work, chosen,
                       crowded, stale>>
        /\ visible' = pg /\ events' \in 0..MaxEvents /\ Reload(pg)
    BY <1>2, <1>5 DEF Show, toolHistory
  <2>2. /\ selected' \in [Page -> Device \cup {None}]
        /\ \A q \in Page : selected'[q] \in Selectable(q) \cup {None}
        /\ \A q \in Page : HasDevice(q) => HasDevice(q)'
    BY <1>1, <2>1, ReloadKeeps
  <2>3. \A q \in Page : Selectable(q)' = Selectable(q)
    BY <2>1 DEF Selectable
  <2>4. \A q \in Page : status'[q] \in {status[q], "settled"}
    BY <2>1
  <2>. QED  BY <1>1, <1>3, <2>1, <2>2, <2>3, <2>4, WorldKeeps
<1>6. ASSUME NEW pg \in Page, NEW d \in Device \cup {None}, OnSelect(pg, d) PROVE ToolsInv'
  <2>1. /\ UNCHANGED <<taskVars, on, events, failures, known, visible, jobs, shown, status, following,
                       work, crowded, stale>>
        /\ d \in Selectable(pg)
        /\ selected' = [selected EXCEPT ![pg] = d] /\ chosen' = [chosen EXCEPT ![pg] = d]
    BY <1>6 DEF OnSelect, deviceVars
  <2>2. \A q \in Page : selected'[q] \in Selectable(q)' \cup {None}
    BY <1>1, <2>1 DEF Selectable
  <2>3. \A q \in Page : HasDevice(q) => HasDevice(q)'
    BY <1>1, <2>1 DEF HasDevice, Selectable, DeviceToolsAssumption
  <2>4. selected' \in [Page -> Device \cup {None}] /\ chosen' \in [Page -> Device \cup {None}]
    BY <1>1, <2>1
  <2>. QED  BY <1>1, <1>3, <2>1, <2>2, <2>3, <2>4, WorldKeeps
<1>7. ASSUME NEW pg \in Page, NEW d \in Device, Change(pg, d) PROVE ToolsInv'
  <2>1. /\ UNCHANGED <<taskVars, failures, known, visible, selected, jobs, shown, status, following,
                       work, chosen, crowded>>
        /\ on' = [on EXCEPT ![pg] = IF d \in @ THEN @ \ {d} ELSE @ \cup {d}]
        /\ stale' = stale \cup {pg} /\ events' \in 0..MaxEvents
    BY <1>2, <1>7 DEF Change, pageVars
  <2>2. on' \in [Page -> SUBSET Device] /\ \A q \in Page : q # pg => on'[q] = on[q]
    BY <1>1, <2>1
  <2>3. /\ \A q \in Page \ stale' : on'[q] = on[q]
        /\ \A q \in Page : status'[q] \in {status[q], "settled"}
        /\ stale \subseteq stale' /\ stale' \subseteq Page
    BY <1>1, <2>1, <2>2
  <2>. QED  BY <1>1, <1>3, <1>4, <2>1, <2>2, <2>3, WorldKeeps
<1>8. ASSUME NEW pg \in Page, NEW kind \in Kind, Refuse(pg, kind) PROVE ToolsInv'
  <2>1. /\ UNCHANGED <<taskVars, on, events, failures, known, visible, selected, jobs, shown, following,
                       work, chosen, crowded, stale>>
        /\ status' = IF pg = "frida" THEN status ELSE [status EXCEPT ![pg] = "settled"]
    BY <1>8 DEF Refuse, deviceVars, toolHistory
  <2>2. status' \in [Page -> Kind \cup {None, "settled"}]
        /\ \A q \in Page : status'[q] \in {status[q], "settled"}
    BY <1>1, <2>1
  <2>. QED  BY <1>1, <1>3, <1>4, <2>1, <2>2, WorldKeeps
<1>9. CASE Discover
  <2>1. /\ UNCHANGED <<taskVars, on, failures, visible, selected, jobs, shown, status, following,
                       work, chosen, crowded, stale>>
        /\ known' = Device /\ events' \in 0..MaxEvents
    BY <1>2, <1>9 DEF Discover, pageVars, toolHistory
  <2>. QED  BY <1>1, <1>3, <1>4, <2>1, WorldKeeps
<1>10. CASE UNCHANGED toolsVars
  <2>1. UNCHANGED <<taskVars, on, events, failures, known, visible, selected, jobs, shown, status,
                    following, work, chosen, crowded, stale>>
    BY <1>10 DEF toolsVars, deviceVars, pageVars, toolHistory
  <2>. QED  BY <1>1, <1>3, <1>4, <2>1, WorldKeeps
<1>. QED  BY <1>5, <1>6, <1>7, <1>8, <1>9, <1>10

LEMMA PollRestKeeps ==
    ASSUME ToolsInv, DeviceToolsAssumption, TasksInv', PollRest
    PROVE  ToolsInv'
<1>1. /\ following = None
      /\ UNCHANGED <<future, answers, on, events, failures, known, visible, selected, jobs, shown,
                     status, following, work, chosen, crowded, stale>>
      /\ pending' = pending \/ pending' = pending \ done_jobs
  BY DEF PollRest, PollBegin, PollEnd, PollSkip, poolVars, historyVars, deviceVars, pageVars,
         toolHistory
<1>2. \A u \in Task : u \in done_jobs => answers[u] # <<>> /\ Done(u)
  BY DEF ToolsInv, TasksInv, PollInv
<1>3. \A u \in Task : Unanswered(u)' = Unanswered(u) /\ (u \in pending \ pending' => Done(u))
  BY <1>1, <1>2 DEF Unanswered
<1>4. /\ on \in [Page -> SUBSET Device] /\ known \subseteq Device
      /\ events \in 0..MaxEvents
      /\ visible \in Page /\ selected \in [Page -> Device \cup {None}]
      /\ chosen \in [Page -> Device \cup {None}]
      /\ \A pg \in Page : selected[pg] \in Selectable(pg) \cup {None}
      /\ status \in [Page -> Kind \cup {None, "settled"}]
      /\ stale \subseteq Page
  BY DEF ToolsInv, JobsAreOutstanding, ToolsTypeOK
<1>5. /\ \A q \in Page : selected'[q] \in Selectable(q)' \cup {None}
      /\ \A q \in Page : HasDevice(q) => HasDevice(q)'
  BY <1>1, <1>4 DEF Selectable, HasDevice
<1>. QED  BY <1>1, <1>3, <1>4, <1>5, WorldKeeps

LEMMA SubmitKeepsPages ==
    ASSUME ToolsInv, DeviceToolsAssumption, TasksInv',
           \/ \E t \in Task, pg \in Page, kind \in Kind : OnClick(t, pg, kind)
           \/ \E pg \in Page : following = pg /\ FollowUp(pg)
    PROVE  ToolsInv'
<1>1. ASSUME NEW t \in Task, NEW pg \in Page, NEW kind \in Kind, OnClick(t, pg, kind)
      PROVE  ToolsInv'
  <2>1. Line(pg, kind) \in Kind \cup {None, "settled"} /\ Line(pg, kind) \in {kind, status[pg]}
    BY DEF ToolsInv, JobsAreOutstanding, ToolsTypeOK, Line
  <2>2. following' = following /\ following = None
    BY <1>1 DEF OnClick, GuiIdle, ToolsInv, WorkInv
  <2>3. NeedsDevice(kind) => selected[pg] # None
    BY <1>1 DEF OnClick, Ready, NeedsDevice
  <2>. QED  BY <1>1, <2>1, <2>2, <2>3, SubmitForKeeps DEF OnClick
<1>2. ASSUME NEW pg \in Page, following = pg, FollowUp(pg)
      PROVE  ToolsInv'
  <2>1. PICK t \in Task : SubmitFor(t, pg, "query", "query")
    BY <1>2 DEF FollowUp, Free
  <2>2. "query" \in Kind /\ "query" \in Buttons(pg).kinds
    BY DEF Kind, Buttons, FridaButtons, AdbButtons, IosButtons, NetworkButtons
  <2>3. following' = None /\ UNCHANGED <<deviceVars, visible, selected, shown, chosen, stale>>
    BY <1>2 DEF FollowUp
  <2>4. selected[pg] # None
    BY <1>2 DEF ToolsInv, WorkInv, FollowUpHasDevice, HasDevice
  <2>. QED  BY <1>2, <2>1, <2>2, <2>3, <2>4, SubmitForKeeps
<1>. QED  BY <1>1, <1>2

-----------------------------------------------------------------------------
LEMMA ToolsInvInit == ToolsInit /\ DeviceToolsAssumption => ToolsInv
<1>. SUFFICES ASSUME ToolsInit, DeviceToolsAssumption PROVE ToolsInv
  OBVIOUS
<1>1. TasksInv
  BY TasksInvInit DEF ToolsInit
<1>2. /\ pending = {} /\ answers = [t \in Task |-> <<>>] /\ future = [t \in Task |-> "none"]
      /\ work = [t \in Task |-> NoWork] /\ jobs = [pg \in Page |-> {}]
      /\ shown = [pg \in Page |-> None] /\ status = [pg \in Page |-> None] /\ following = None
  BY DEF ToolsInit, TasksInit
<1>3. WorkInv
  <2>1. NoWork \in Command
    BY DEF NoWork, Command
  <2>. QED  BY <1>2, <2>1 DEF WorkInv, CommandsHaveDevices, FollowUpHasDevice, Unanswered,
                              DeviceToolsAssumption
<1>4. ToolsTypeOK
  <2>1. \A t \in Task : work[t] \in Command
    BY <1>3 DEF WorkInv
  <2>2. /\ on \in [Page -> SUBSET Device] /\ known \subseteq Device
        /\ selected \in [Page -> Device \cup {None}]
        /\ \A pg \in Page : selected[pg] \in Selectable(pg) \cup {None}
        /\ events \in 0..MaxEvents /\ failures \in 0..MaxFailures /\ visible \in Page
        /\ chosen = selected /\ crowded = {} /\ stale = {}
    BY DEF ToolsInit, DeviceToolsAssumption, Selectable
  <2>. QED  BY <1>1, <1>2, <2>1, <2>2 DEF ToolsTypeOK, TasksInv, Command, Selectable
<1>5. JobsAreOutstanding
  BY <1>2, <1>4 DEF JobsAreOutstanding, Unanswered, DeviceToolsAssumption, Kind
<1>6. \A pg \in Page : TruthOf(pg)
  BY <1>2 DEF TruthOf, ShowsTruth
<1>. QED  BY <1>1, <1>3, <1>5, <1>6 DEF ToolsInv

LEMMA ToolsInvStep ==
    ASSUME ToolsInv, DeviceToolsAssumption, [ToolsNext]_toolsVars
    PROVE  ToolsInv'
<1>1. TasksInv'
  BY ToolsAreTasks, TasksInvStep DEF ToolsInv
<1>. QED  BY <1>1, ThreadKeeps, SubmitKeepsPages, OutsideKeeps, PollRestKeeps, AnswerPageKeeps
          DEF ToolsNext, Poll

LEMMA ToolsInvariant == ToolsSpec => []ToolsInv
<1>1. ToolsInit => ToolsInv
  BY ToolsInvInit, DeviceToolsAssumption
<1>2. ToolsInv /\ [ToolsNext]_toolsVars => ToolsInv'
  BY ToolsInvStep, DeviceToolsAssumption
<1>. QED  BY <1>1, <1>2, PTL DEF ToolsSpec

(***************************************************************************)
(* For any devices, pages and commands: the jobs a page keeps are those    *)
(* the runner has yet to answer, and a line that announces a command has   *)
(* one of that kind outstanding, but for the two announcements that no     *)
(* answer takes back.                                                      *)
(***************************************************************************)
THEOREM JobsOutstanding == ToolsSpec => []JobsAreOutstanding
BY ToolsInvariant, PTL DEF ToolsInv

(***************************************************************************)
(* Once a page that had one job at a time has heard of all of them, what it*)
(* shows of the device selected is so, whoever turned it on or off there.  *)
(***************************************************************************)
THEOREM ShownTrue == ToolsSpec => []ShownIsTrue
<1>1. ToolsInv => ShownIsTrue
  BY DEF ToolsInv, TruthOf, ShowsTruth, ShownIsTrue
<1>. QED  BY <1>1, ToolsInvariant, PTL

(***************************************************************************)
(* No refresh, rescan or answer moves a page's selection from one device   *)
(* to another: only the user does.  An empty combo selects by itself, once,*)
(* one of the devices that have been found.                                *)
(***************************************************************************)
THEOREM UsersTarget == ToolsSpec => TargetIsUsers
<1>. DEFINE Moves(pg) == selected'[pg] # selected[pg] =>
                            \/ chosen'[pg] = selected'[pg]
                            \/ selected[pg] = None /\ chosen[pg] = None /\ selected'[pg] \in known'
            Unchosen == \A pg \in Page : selected[pg] = None => chosen[pg] = None
<1>1. ASSUME ToolsInv, [ToolsNext]_toolsVars, Unchosen
      PROVE  Unchosen' /\ \A pg \in Page : Moves(pg)
  <2>1. ToolsTypeOK /\ selected \in [Page -> Device \cup {None}] /\ chosen \in [Page -> Device \cup {None}]
    BY <1>1 DEF ToolsInv, JobsAreOutstanding, ToolsTypeOK
  <2>2. ASSUME NEW pg \in Page, Reload(pg), known' = known, chosen' = chosen
        PROVE  Unchosen' /\ \A q \in Page : Moves(q)
    <3>1. \A q \in Page : selected'[q] # selected[q] =>
              selected[q] = None /\ selected'[q] \in known /\ selected'[q] # None
      <4>1. \A q \in Page : selected'[q] # selected[q] => selected[q] = None /\ selected'[q] \in known
        BY <2>1, <2>2, ReloadKeeps, DeviceToolsAssumption
      <4>. QED  BY <2>1, <4>1
    <3>. QED  BY <1>1, <2>2, <3>1
  <2>3. ASSUME NEW pg \in Page, NEW d \in Device \cup {None}, OnSelect(pg, d)
        PROVE  Unchosen' /\ \A q \in Page : Moves(q)
    BY <1>1, <2>1, <2>3 DEF OnSelect
  <2>4. ASSUME UNCHANGED <<selected, chosen>> PROVE Unchosen' /\ \A q \in Page : Moves(q)
    BY <1>1, <2>4
  <2>. HIDE DEF Moves, Unchosen
  <2>5. ASSUME NEW pg \in Page, Show(pg) PROVE Unchosen' /\ \A q \in Page : Moves(q)
    BY <2>2, <2>5 DEF Show, toolHistory
  <2>6. ASSUME NEW t \in Task, AnswerPage(t) PROVE Unchosen' /\ \A q \in Page : Moves(q)
    <3>1. CASE work[t].kind = "scan" /\ work[t].page = "adb" /\ future[t] = "result"
      <4>1. "adb" \in Page
        BY <1>1, <2>6, <3>1 DEF AnswerPage, PollAnswer, ToolsInv, TasksInv, TasksTypeOK, PollInv,
                               WorkInv, Unanswered, Submitted
      <4>. QED  BY <2>2, <2>6, <3>1, <4>1 DEF AnswerPage, deviceVars, toolHistory
    <3>2. CASE UNCHANGED selected
      BY <2>4, <2>6, <3>2 DEF AnswerPage, toolHistory
    <3>. QED  BY <2>6, <3>1, <3>2 DEF AnswerPage
  <2>7. ASSUME NEW t \in Task, Thread(t) PROVE UNCHANGED <<selected, chosen>>
    BY <2>7 DEF Thread, Begin, Query, TurnOn, TurnOff, Use, ReadOrStart, Scan, CollectDevices,
                pageVars, toolHistory
  <2>8. CASE PollRest \/ Discover \/ UNCHANGED toolsVars
    BY <2>4, <2>8 DEF PollRest, Discover, toolsVars, pageVars, toolHistory
  <2>9. ASSUME NEW pg \in Page, \/ FollowUp(pg)
                                \/ \E d \in Device : Change(pg, d)
                                \/ \E t \in Task, kind \in Kind : OnClick(t, pg, kind)
                                \/ \E kind \in Kind : Refuse(pg, kind)
        PROVE  UNCHANGED <<selected, chosen>>
    BY <2>9 DEF FollowUp, Change, OnClick, Refuse, pageVars, toolHistory
  <2>. QED  BY <1>1, <2>3, <2>4, <2>5, <2>6, <2>7, <2>8, <2>9 DEF ToolsNext, Poll
<1>2. ToolsInit => Unchosen
  BY DEF ToolsInit
<1>3. ToolsSpec => []Unchosen
  <2>1. ToolsInv /\ [ToolsNext]_toolsVars /\ Unchosen => Unchosen'
    BY <1>1
  <2>. QED  BY <1>2, <2>1, ToolsInvariant, PTL DEF ToolsSpec
<1>4. ToolsInv /\ Unchosen /\ [ToolsNext]_toolsVars => [\A pg \in Page : Moves(pg)]_toolsVars
  BY <1>1
<1>5. ToolsSpec => [][\A pg \in Page : Moves(pg)]_toolsVars
  <2>. HIDE DEF Moves, Unchosen
  <2>. QED  BY <1>3, <1>4, ToolsInvariant, PTL DEF ToolsSpec
<1>. QED  BY <1>5, PTL DEF TargetIsUsers

-----------------------------------------------------------------------------
(***************************************************************************)
(* The program and its streams.                                            *)
(***************************************************************************)
Loop == {"cancel?", "deadline?", "get", "over?"}

\* A finished reader has read all there will ever be.
ReadersInv ==
    \A s \in Stream :
        /\ read[s] <= written[s]
        /\ reader[s] = "finished" => ~PipesOpen /\ read[s] = written[s]

\* How the loop is left: for one reason, and for none of the three only when the
\* tool and its readers are done.
LeavingInv ==
    /\ pc \in Loop => ~cancelled /\ ~timed_out /\ ~escaping
    /\ ~(cancelled /\ timed_out)
    /\ pc \in {"drain", "returned"} => ~escaping
    /\ pc \in {"join", "drain", "returned", "raised"} => tool = "gone"
    /\ pc \notin Loop /\ ~cancelled /\ ~timed_out /\ ~escaping
         => tool = "gone" /\ \A s \in Stream : reader[s] # "reading"
    /\ CleanRun => line_queue = <<>>

StreamingInv == StreamingTypeOK /\ ReadersInv /\ LeavingInv /\ LinesConserved

-----------------------------------------------------------------------------
\* Appending the next number keeps a count from one.
LEMMA AppendUpTo ==
    ASSUME NEW c \in Seq(Nat), c = UpTo(Len(c))
    PROVE  Append(c, Len(c) + 1) = UpTo(Len(Append(c, Len(c) + 1)))
<1>. DEFINE d == Append(c, Len(c) + 1)
<1>1. /\ d \in Seq(Nat) /\ Len(d) = Len(c) + 1
      /\ \A i \in 1..Len(c) : d[i] = c[i]
      /\ d[Len(c) + 1] = Len(c) + 1
  BY AppendProperties
<1>2. \A i \in 1..Len(c) : c[i] = i
  BY DEF UpTo
<1>3. \A i \in 1..Len(d) : d[i] = i
  BY <1>1, <1>2
<1>4. d = [i \in 1..Len(d) |-> d[i]]
  BY <1>1
<1>. QED  BY <1>3, <1>4 DEF UpTo

\* The head of the queue is the next line of its stream.
LEMMA HeadIsNext ==
    ASSUME StreamingTypeOK, LinesConserved, line_queue # <<>>
    PROVE  /\ Head(line_queue)[1] \in Stream
           /\ Head(line_queue)[2] \in 1..MaxLines
           /\ Head(line_queue)[2] = Len(collected[Head(line_queue)[1]]) + 1
<1>. DEFINE s == Head(line_queue)[1]
            n == Head(line_queue)[2]
<1>1. /\ line_queue \in Seq(Stream \X (1..MaxLines)) /\ Len(line_queue) \in Nat \ {0}
      /\ Head(line_queue) = line_queue[1] /\ 1 \in DOMAIN line_queue
      /\ DOMAIN line_queue = 1..Len(line_queue)
  BY DEF StreamingTypeOK
<1>2. line_queue[1] \in Stream \X (1..MaxLines)
  BY <1>1
<1>3. s \in Stream /\ n \in 1..MaxLines /\ line_queue[1] = <<s, n>>
  BY <1>1, <1>2
<1>4. MaxLines \in Nat /\ read[s] \in 0..MaxLines /\ Len(collected[s]) \in Nat
  <2>. HIDE DEF s, n
  <2>1. MaxLines \in Nat
    BY StreamingAssumption
  <2>2. read[s] \in 0..MaxLines
    BY <1>3 DEF StreamingTypeOK
  <2>3. collected[s] \in Seq(1..MaxLines)
    BY <1>3 DEF StreamingTypeOK
  <2>4. Len(collected[s]) \in Nat
    BY <2>3
  <2>. QED  BY <2>1, <2>2, <2>4
<1>5. Len(collected[s]) < n /\ n <= read[s]
  BY <1>1, <1>3 DEF LinesConserved, QueueHoldsTheRest
<1>6. ASSUME n # Len(collected[s]) + 1 PROVE FALSE
  <2>. DEFINE m == Len(collected[s]) + 1
  <2>1. m \in 1..MaxLines /\ m < n /\ m <= read[s] /\ Len(collected[s]) < m
    BY <1>3, <1>4, <1>5, <1>6
  <2>2. PICK i \in DOMAIN line_queue : line_queue[i] = <<s, m>>
    BY <1>3, <2>1 DEF LinesConserved, QueueHoldsTheRest
  <2>3. i # 1
    BY <1>3, <2>1, <2>2
  <2>4. 1 < i /\ line_queue[1][1] = line_queue[i][1]
    BY <1>1, <1>3, <2>2, <2>3
  <2>5. line_queue[1][2] < line_queue[i][2]
    BY <1>1, <2>2, <2>4 DEF LinesConserved, QueueInOrder
  <2>. QED  BY <1>3, <1>4, <2>1, <2>2, <2>5
<1>. QED  BY <1>3, <1>6

\* What GetLine and Drain do to the lines: the head goes from the queue to the
\* end of its stream.
Taken ==
    /\ line_queue # <<>>
    /\ line_queue' = Tail(line_queue)
    /\ collected' = [collected EXCEPT ![Head(line_queue)[1]] = Append(@, Head(line_queue)[2])]
    /\ UNCHANGED read

LEMMA TakenTypes ==
    ASSUME StreamingTypeOK, LinesConserved, Taken
    PROVE  /\ line_queue' \in Seq(Stream \X (1..MaxLines))
           /\ collected' \in [Stream -> Seq(1..MaxLines)]
<1>. DEFINE s == Head(line_queue)[1]
            n == Head(line_queue)[2]
<1>1. s \in Stream /\ n \in 1..MaxLines
  BY HeadIsNext DEF Taken
<1>2. Append(collected[s], n) \in Seq(1..MaxLines)
  BY <1>1, AppendProperties DEF StreamingTypeOK
<1>3. collected' \in [Stream -> Seq(1..MaxLines)]
  BY <1>1, <1>2 DEF Taken, StreamingTypeOK
<1>4. line_queue' \in Seq(Stream \X (1..MaxLines))
  BY HeadTailProperties DEF Taken, StreamingTypeOK
<1>. QED  BY <1>3, <1>4

LEMMA TakenConserved ==
    ASSUME StreamingTypeOK, LinesConserved, Taken
    PROVE  LinesConserved'
<1>. DEFINE s == Head(line_queue)[1]
            n == Head(line_queue)[2]
            Entry == Stream \X (1..MaxLines)
<1>1. /\ line_queue \in Seq(Entry) /\ Len(line_queue) \in Nat \ {0}
      /\ Head(line_queue) = line_queue[1] /\ DOMAIN line_queue = 1..Len(line_queue)
  BY DEF StreamingTypeOK, Taken
<1>2. /\ line_queue' \in Seq(Entry) /\ Len(line_queue') = Len(line_queue) - 1
      /\ DOMAIN line_queue' = 1..(Len(line_queue) - 1)
      /\ \A i \in 1..(Len(line_queue) - 1) : line_queue'[i] = line_queue[i + 1]
  BY <1>1, HeadTailProperties DEF Taken
<1>3. /\ s \in Stream /\ n \in 1..MaxLines /\ n = Len(collected[s]) + 1
      /\ line_queue[1] = <<s, n>>
  <2>1. line_queue[1] \in Entry
    BY <1>1
  <2>. QED  BY <1>1, <2>1, HeadIsNext DEF Taken
<1>4. MaxLines \in Nat
  BY StreamingAssumption
<1>5. /\ collected[s] \in Seq(1..MaxLines) /\ Len(collected[s]) \in Nat
      /\ collected'[s] = Append(collected[s], n)
      /\ \A t \in Stream \ {s} : collected'[t] = collected[t]
  <2>1. /\ collected \in [Stream -> Seq(1..MaxLines)]
        /\ collected' = [collected EXCEPT ![s] = Append(@, n)]
    BY DEF Taken, StreamingTypeOK
  <2>2. s \in Stream
    BY <1>3
  <2>. HIDE DEF s, n
  <2>3. collected[s] \in Seq(1..MaxLines)
    BY <2>1, <2>2
  <2>4. Len(collected[s]) \in Nat
    BY <2>3
  <2>. QED  BY <2>1, <2>2, <2>3, <2>4
<1>6. Len(collected'[s]) = n
  BY <1>3, <1>5, AppendProperties
<1>7. CollectedInOrder'
  <2>1. ASSUME NEW t \in Stream
        PROVE  Len(collected'[t]) <= read[t] /\ collected'[t] = UpTo(Len(collected'[t]))
    <3>1. CASE t # s
      BY <1>5, <3>1 DEF LinesConserved, CollectedInOrder
    <3>2. CASE t = s
      <4>0. \A c \in Seq(1..MaxLines) : c \in Seq(Nat)
        BY <1>4
      <4>1. collected[s] \in Seq(Nat) /\ collected[s] = UpTo(Len(collected[s]))
        BY <1>3, <1>5, <4>0 DEF LinesConserved, CollectedInOrder
      <4>2. n <= read[s]
        <5>1. 1 \in DOMAIN line_queue
          BY <1>1
        <5>. QED  BY <1>3, <5>1 DEF LinesConserved, QueueHoldsTheRest
      <4>. QED  BY <1>3, <1>5, <1>6, <3>2, <4>1, <4>2, AppendUpTo
    <3>. QED  BY <3>1, <3>2
  <2>2. read' = read
    BY DEF Taken
  <2>. QED  BY <2>1, <2>2 DEF CollectedInOrder
<1>8. QueueInOrder'
  <2>1. ASSUME NEW i \in 1..(Len(line_queue) - 1), NEW j \in 1..(Len(line_queue) - 1),
               i < j, line_queue'[i][1] = line_queue'[j][1]
        PROVE  line_queue'[i][2] < line_queue'[j][2]
    <3>1. i + 1 \in DOMAIN line_queue /\ j + 1 \in DOMAIN line_queue /\ i + 1 < j + 1
      BY <1>1, <2>1
    <3>. QED  BY <1>2, <2>1, <3>1 DEF LinesConserved, QueueInOrder
  <2>. QED  BY <1>2, <2>1 DEF QueueInOrder
<1>9. QueueHoldsTheRest'
  <2>1. ASSUME NEW t \in Stream, NEW k \in 1..MaxLines
        PROVE  (\E i \in DOMAIN line_queue' : line_queue'[i] = <<t, k>>)
                 <=> Len(collected'[t]) < k /\ k <= read[t]
    <3>. DEFINE Before == \E i \in DOMAIN line_queue : line_queue[i] = <<t, k>>
                After == \E i \in DOMAIN line_queue' : line_queue'[i] = <<t, k>>
    <3>0. Before <=> Len(collected[t]) < k /\ k <= read[t]
      BY DEF LinesConserved, QueueHoldsTheRest
    <3>1. After => Before
      <4>1. SUFFICES ASSUME NEW i \in 1..(Len(line_queue) - 1), line_queue'[i] = <<t, k>>
                     PROVE  Before
        BY <1>2
      <4>2. i + 1 \in DOMAIN line_queue
        BY <1>1
      <4>3. line_queue[i + 1] = <<t, k>>
        BY <1>2, <4>1
      <4>. QED  BY <4>2, <4>3
    <3>2. ASSUME Before, <<t, k>> # <<s, n>> PROVE After
      <4>1. PICK i \in DOMAIN line_queue : line_queue[i] = <<t, k>>
        BY <3>2
      <4>2. i # 1
        BY <1>3, <3>2, <4>1
      <4>3. i \in 1..Len(line_queue) /\ i - 1 \in 1..(Len(line_queue) - 1) /\ (i - 1) + 1 = i
        BY <1>1, <4>1, <4>2
      <4>4. i - 1 \in DOMAIN line_queue' /\ line_queue'[i - 1] = line_queue[i]
        BY <1>2, <4>3
      <4>. QED  BY <4>1, <4>4
    <3>3. ASSUME t = s, k = n PROVE ~After
      <4>1. SUFFICES ASSUME NEW i \in 1..(Len(line_queue) - 1), line_queue'[i] = <<s, n>>
                     PROVE FALSE
        BY <1>2, <3>3
      <4>2. i + 1 \in DOMAIN line_queue /\ 1 \in DOMAIN line_queue /\ 1 < i + 1
        BY <1>1, <1>2
      <4>3. line_queue[i + 1] = <<s, n>>
        BY <1>2, <4>1
      <4>4. line_queue[1][2] < line_queue[i + 1][2]
        BY <1>3, <4>2, <4>3 DEF LinesConserved, QueueInOrder
      <4>. QED  BY <1>3, <1>4, <4>3, <4>4
    <3>4. CASE t # s
      BY <1>5, <3>0, <3>1, <3>2, <3>4
    <3>5. CASE t = s /\ k # n
      <4>1. Len(collected[s]) < k /\ k # n <=> n < k
        BY <1>3, <1>4, <1>5, <3>5
      <4>. QED  BY <1>6, <3>0, <3>1, <3>2, <3>5, <4>1
    <3>6. CASE t = s /\ k = n
      BY <1>3, <1>4, <1>6, <3>3, <3>6
    <3>. QED  BY <3>4, <3>5, <3>6
  <2>2. read' = read
    BY DEF Taken
  <2>. QED  BY <2>1, <2>2 DEF QueueHoldsTheRest
<1>. QED  BY <1>7, <1>8, <1>9 DEF LinesConserved
-----------------------------------------------------------------------------
\* The environment and the readers change neither the result nor where the
\* calling thread is.
LEMMA WriteKeeps ==
    ASSUME StreamingInv, NEW s \in Stream, Write(s)
    PROVE  StreamingInv'
<1>1. StreamingTypeOK'
  <2>1. /\ written \in [Stream -> 0..MaxLines] /\ MaxLines \in Nat /\ written[s] < MaxLines
        /\ written' = [written EXCEPT ![s] = @ + 1]
    BY StreamingAssumption DEF StreamingInv, StreamingTypeOK, Write
  <2>2. written' \in [Stream -> 0..MaxLines]
    BY <2>1
  <2>. QED  BY <2>2 DEF StreamingInv, StreamingTypeOK, Write, readerVars, callerVars, outcome, clock
<1>2. ReadersInv'
  BY DEF StreamingInv, StreamingTypeOK, ReadersInv, Write, readerVars, PipesOpen
<1>3. LeavingInv'
  BY DEF StreamingInv, LeavingInv, CleanRun, Write, readerVars, callerVars, outcome
<1>4. LinesConserved'
  BY DEF StreamingInv, LinesConserved, CollectedInOrder, QueueHoldsTheRest, QueueInOrder,
         Write, readerVars, callerVars
<1>. QED  BY <1>1, <1>2, <1>3, <1>4 DEF StreamingInv

LEMMA EnvironmentKeeps ==
    ASSUME StreamingInv, ToolExits \/ ChildExits \/ Cancel \/ DeadlinePasses
    PROVE  StreamingInv'
<1>. USE DEF ToolExits, ChildExits, Cancel, DeadlinePasses
<1>1. StreamingTypeOK'
  BY DEF StreamingInv, StreamingTypeOK, toolVars, readerVars, callerVars, outcome, clock
<1>2. ReadersInv'
  BY DEF StreamingInv, ReadersInv, PipesOpen, toolVars, readerVars
<1>3. LeavingInv'
  BY DEF StreamingInv, LeavingInv, CleanRun, toolVars, readerVars, callerVars, outcome
<1>4. LinesConserved'
  BY DEF StreamingInv, LinesConserved, CollectedInOrder, QueueHoldsTheRest, QueueInOrder,
         readerVars, callerVars
<1>. QED  BY <1>1, <1>2, <1>3, <1>4 DEF StreamingInv

LEMMA ReadLineConserves ==
    ASSUME StreamingInv, NEW s \in Stream, ReadLine(s)
    PROVE  /\ line_queue' \in Seq(Stream \X (1..MaxLines))
           /\ LinesConserved'
<1>. DEFINE Entry == Stream \X (1..MaxLines)
            e == <<s, read[s] + 1>>
<1>1. /\ line_queue \in Seq(Entry) /\ Len(line_queue) \in Nat
      /\ DOMAIN line_queue = 1..Len(line_queue)
      /\ MaxLines \in Nat /\ \A t \in Stream : read[t] \in Nat /\ written[t] \in 0..MaxLines
      /\ read \in [Stream -> 0..MaxLines]
      /\ \A t \in Stream : Len(collected[t]) \in Nat
  BY StreamingAssumption DEF StreamingInv, StreamingTypeOK
<1>2. /\ read[s] < written[s] /\ read' = [read EXCEPT ![s] = @ + 1]
      /\ line_queue' = Append(line_queue, e) /\ collected' = collected
  BY DEF ReadLine, callerVars
<1>3. e \in Entry /\ read[s] + 1 \in 1..MaxLines
  BY <1>1, <1>2
<1>4. /\ line_queue' \in Seq(Entry) /\ Len(line_queue') = Len(line_queue) + 1
      /\ DOMAIN line_queue' = 1..(Len(line_queue) + 1)
      /\ \A i \in 1..Len(line_queue) : line_queue'[i] = line_queue[i]
      /\ line_queue'[Len(line_queue) + 1] = e
  <2>. HIDE DEF e, Entry
  <2>. QED  BY <1>1, <1>2, <1>3, AppendProperties
<1>5. \A t \in Stream : Len(collected[t]) <= read[t] /\ read[t] <= read'[t]
  <2>1. \A t \in Stream : read'[t] = IF t = s THEN read[s] + 1 ELSE read[t]
    BY <1>1, <1>2
  <2>2. \A t \in Stream : read[t] <= read'[t]
    <3>1. \A t \in Stream : read[t] \in Nat
      BY <1>1
    <3>. QED  BY <2>1, <3>1
  <2>3. \A t \in Stream : Len(collected[t]) <= read[t]
    BY DEF StreamingInv, LinesConserved, CollectedInOrder
  <2>. QED  BY <2>2, <2>3
<1>6. CollectedInOrder'
  <2>1. \A t \in Stream : read'[t] \in Nat
    BY <1>1, <1>2
  <2>. QED  BY <1>1, <1>2, <1>5, <2>1 DEF StreamingInv, LinesConserved, CollectedInOrder
<1>7. QueueInOrder'
  <2>1. ASSUME NEW i \in 1..(Len(line_queue) + 1), NEW j \in 1..(Len(line_queue) + 1),
               i < j, line_queue'[i][1] = line_queue'[j][1]
        PROVE  line_queue'[i][2] < line_queue'[j][2]
    <3>0. i \in 1..Len(line_queue)
      BY <1>1, <2>1
    <3>1. i \in DOMAIN line_queue /\ line_queue'[i] = line_queue[i] /\ line_queue[i] \in Entry
      <4>. HIDE DEF e, Entry
      <4>. QED  BY <1>1, <1>4, <3>0
    <3>2. CASE j # Len(line_queue) + 1
      <4>0. j \in 1..Len(line_queue)
        BY <1>1, <3>2
      <4>1. j \in DOMAIN line_queue /\ line_queue'[j] = line_queue[j]
        <5>. HIDE DEF e, Entry
        <5>. QED  BY <1>1, <1>4, <4>0
      <4>. QED  BY <2>1, <3>1, <4>1 DEF StreamingInv, LinesConserved, QueueInOrder
    <3>3. CASE j = Len(line_queue) + 1
      <4>1. line_queue[i] = <<s, line_queue[i][2]>> /\ line_queue[i][2] \in 1..MaxLines
        BY <1>4, <2>1, <3>1, <3>3
      <4>2. line_queue[i][2] <= read[s]
        BY <3>1, <4>1 DEF StreamingInv, LinesConserved, QueueHoldsTheRest
      <4>. QED  BY <1>1, <1>4, <3>1, <3>3, <4>1, <4>2
    <3>. QED  BY <3>2, <3>3
  <2>. QED  BY <1>4, <2>1 DEF QueueInOrder
<1>8. QueueHoldsTheRest'
  <2>1. ASSUME NEW t \in Stream, NEW k \in 1..MaxLines
        PROVE  (\E i \in DOMAIN line_queue' : line_queue'[i] = <<t, k>>)
                 <=> Len(collected[t]) < k /\ k <= read'[t]
    <3>. DEFINE Before == \E i \in DOMAIN line_queue : line_queue[i] = <<t, k>>
                After == \E i \in DOMAIN line_queue' : line_queue'[i] = <<t, k>>
    <3>0. Len(line_queue) + 1 \in 1..(Len(line_queue) + 1)
          /\ \A i \in 1..(Len(line_queue) + 1) : i \in 1..Len(line_queue) \/ i = Len(line_queue) + 1
      BY <1>1
    <3>1. ASSUME Before PROVE After
      <4>1. PICK i \in 1..Len(line_queue) : line_queue[i] = <<t, k>>
        BY <1>1, <3>1
      <4>2. i \in DOMAIN line_queue' /\ line_queue'[i] = <<t, k>>
        <5>1. i \in 1..(Len(line_queue) + 1)
          BY <1>1
        <5>. QED  BY <1>4, <4>1, <5>1
      <4>. QED  BY <4>2
    <3>2. ASSUME After PROVE Before \/ <<t, k>> = e
      <4>1. PICK i \in 1..(Len(line_queue) + 1) : line_queue'[i] = <<t, k>>
        BY <1>4, <3>2
      <4>. QED  BY <1>1, <1>4, <3>0, <4>1
    <3>3. <<t, k>> = e => After
      BY <1>4, <3>0
    <3>4. Before <=> Len(collected[t]) < k /\ k <= read[t]
      BY DEF StreamingInv, LinesConserved, QueueHoldsTheRest
    <3>5. read'[t] = IF t = s THEN read[s] + 1 ELSE read[t]
      BY <1>1, <1>2
    <3>6. <<t, k>> = e <=> t = s /\ k = read[s] + 1
      OBVIOUS
    <3>7. Len(collected[t]) < k /\ k <= read'[t]
            <=> (Len(collected[t]) < k /\ k <= read[t]) \/ (t = s /\ k = read[s] + 1)
      BY <1>1, <1>5, <3>5
    <3>. QED  BY <3>1, <3>2, <3>3, <3>4, <3>6, <3>7
  <2>. QED  BY <1>2, <2>1 DEF QueueHoldsTheRest
<1>. QED  BY <1>4, <1>6, <1>7, <1>8 DEF LinesConserved

LEMMA ReaderKeeps ==
    ASSUME StreamingInv, NEW s \in Stream, Reader(s)
    PROVE  StreamingInv'
<1>1. CASE ReadLine(s)
  <2>1. line_queue' \in Seq(Stream \X (1..MaxLines)) /\ LinesConserved'
    BY <1>1, ReadLineConserves
  <2>2. read' \in [Stream -> 0..MaxLines]
    <3>1. /\ read \in [Stream -> 0..MaxLines] /\ written[s] \in 0..MaxLines
          /\ read[s] < written[s] /\ read' = [read EXCEPT ![s] = @ + 1]
      BY <1>1 DEF ReadLine, StreamingInv, StreamingTypeOK
    <3>2. read[s] + 1 \in 0..MaxLines
      BY <3>1, StreamingAssumption
    <3>. QED  BY <3>1, <3>2
  <2>3. StreamingTypeOK'
    BY <1>1, <2>1, <2>2
       DEF ReadLine, StreamingInv, StreamingTypeOK, toolVars, callerVars, outcome, clock
  <2>4. ReadersInv'
    <3>1. /\ MaxLines \in Nat /\ read[s] < written[s] /\ read' = [read EXCEPT ![s] = @ + 1]
          /\ read \in [Stream -> 0..MaxLines] /\ written \in [Stream -> 0..MaxLines]
          /\ reader[s] = "reading" /\ UNCHANGED <<reader, written, tool, child>>
      BY <1>1, StreamingAssumption DEF ReadLine, StreamingInv, StreamingTypeOK, toolVars
    <3>2. read'[s] <= written[s] /\ \A t \in Stream : t # s => read'[t] = read[t]
      BY <3>1
    <3>. QED  BY <3>1, <3>2 DEF StreamingInv, ReadersInv, PipesOpen
  <2>5. LeavingInv'
    <3>1. ~CleanRun
      BY <1>1 DEF ReadLine, StreamingInv, StreamingTypeOK, LeavingInv, CleanRun, Place, Loop
    <3>. QED  BY <1>1, <3>1 DEF ReadLine, StreamingInv, LeavingInv, CleanRun, toolVars,
                                callerVars, outcome
  <2>. QED  BY <2>1, <2>3, <2>4, <2>5 DEF StreamingInv
<1>2. CASE ReadEnd(s) \/ ReadFails(s)
  <2>. USE DEF ReadEnd, ReadFails
  <2>0. /\ reader' \in [Stream -> {"reading", "finished", "crashed"}]
        /\ undecodable' \in 0..MaxUndecodable
        /\ \A t \in Stream : reader[t] # "reading" => reader'[t] # "reading"
        /\ UNCHANGED <<toolVars, read, line_queue, callerVars, clock>>
    <3>1. /\ reader \in [Stream -> {"reading", "finished", "crashed"}]
          /\ undecodable \in 0..MaxUndecodable /\ MaxUndecodable \in Nat
      BY StreamingAssumption DEF StreamingInv, StreamingTypeOK
    <3>2. CASE ReadEnd(s)
      BY <3>1, <3>2
    <3>3. CASE ReadFails(s)
      BY <3>1, <3>3
    <3>. QED  BY <1>2, <3>2, <3>3
  <2>1. StreamingTypeOK'
    BY <2>0 DEF StreamingInv, StreamingTypeOK, toolVars, callerVars, outcome, clock
  <2>2. ReadersInv'
    BY <1>2, StreamingAssumption
       DEF StreamingInv, StreamingTypeOK, ReadersInv, PipesOpen, toolVars
  <2>3. LeavingInv'
    BY <2>0 DEF StreamingInv, LeavingInv, CleanRun, toolVars, callerVars, outcome
  <2>4. LinesConserved'
    BY <1>2 DEF StreamingInv, LinesConserved, CollectedInOrder, QueueHoldsTheRest,
                QueueInOrder, callerVars
  <2>. QED  BY <2>1, <2>2, <2>3, <2>4 DEF StreamingInv
<1>. QED  BY <1>1, <1>2 DEF Reader

-----------------------------------------------------------------------------
\* The calling thread between two lines.
LEMMA CallerStepKeeps ==
    ASSUME StreamingInv,
           \/ CheckCancel \/ CheckDeadline \/ GetEmpty \/ CheckOver
           \/ Stop \/ Wait \/ Kill \/ Join
    PROVE  StreamingInv'
<1>. USE DEF CheckCancel, CheckDeadline, GetEmpty, CheckOver, Stop, Wait, Kill, Join, GoTo
<1>0. /\ UNCHANGED <<child, written, readerVars, line_queue, collected, delivered, escaping, clock>>
      /\ tool' = tool \/ (tool' = "terminating" /\ tool # "gone") \/ tool' = "gone"
  BY DEF toolVars, outcome
<1>1. StreamingTypeOK'
  <2>1. pc' \in Place
    BY DEF Place
  <2>2. cancelled' \in BOOLEAN /\ timed_out' \in BOOLEAN
    BY DEF StreamingInv, StreamingTypeOK, outcome
  <2>. QED  BY <1>0, <2>1, <2>2 DEF StreamingInv, StreamingTypeOK, readerVars, clock
<1>2. ReadersInv'
  BY <1>0 DEF StreamingInv, StreamingTypeOK, ReadersInv, PipesOpen, readerVars
<1>3. LinesConserved'
  BY <1>0 DEF StreamingInv, LinesConserved, CollectedInOrder, QueueHoldsTheRest, QueueInOrder,
              readerVars
<1>4. LeavingInv'
  <2>. USE DEF StreamingInv, StreamingTypeOK, LeavingInv, CleanRun, Loop, toolVars, readerVars,
               outcome
  <2>1. CASE CheckCancel
    BY <2>1
  <2>2. CASE CheckDeadline
    BY <2>2
  <2>3. CASE GetEmpty
    BY <2>3
  <2>4. CASE CheckOver
    BY <2>4
  <2>5. CASE Stop
    BY <2>5
  <2>6. CASE Wait
    BY <2>6
  <2>7. CASE Kill
    BY <2>7
  <2>8. CASE Join
    BY <2>8
  <2>. QED  BY <2>1, <2>2, <2>3, <2>4, <2>5, <2>6, <2>7, <2>8
<1>. QED  BY <1>1, <1>2, <1>3, <1>4 DEF StreamingInv

LEMMA GetLineKeeps ==
    ASSUME StreamingInv, GetLine
    PROVE  StreamingInv'
<1>1. Taken
  BY DEF GetLine, Taken, readerVars
<1>2. /\ line_queue' \in Seq(Stream \X (1..MaxLines)) /\ collected' \in [Stream -> Seq(1..MaxLines)]
      /\ LinesConserved'
  BY <1>1, TakenTypes, TakenConserved DEF StreamingInv
<1>3. delivered' \in [Stream -> Seq(1..MaxLines)]
  <2>1. /\ Head(line_queue)[1] \in Stream /\ Head(line_queue)[2] \in 1..MaxLines
        /\ delivered \in [Stream -> Seq(1..MaxLines)]
    BY <1>1, HeadIsNext DEF Taken, StreamingInv, StreamingTypeOK
  <2>2. \A s \in Stream, n \in 1..MaxLines : Append(delivered[s], n) \in Seq(1..MaxLines)
    BY <2>1, AppendProperties
  <2>. QED  BY <2>1, <2>2 DEF GetLine
<1>4. StreamingTypeOK'
  BY <1>2, <1>3 DEF GetLine, GoTo, Place, StreamingInv, StreamingTypeOK, toolVars, readerVars, clock
<1>5. ReadersInv'
  BY DEF GetLine, StreamingInv, ReadersInv, PipesOpen, toolVars, readerVars
<1>6. LeavingInv'
  BY <1>4 DEF GetLine, GoTo, StreamingInv, StreamingTypeOK, LeavingInv, CleanRun, Loop
<1>. QED  BY <1>2, <1>4, <1>5, <1>6 DEF StreamingInv

LEMMA DrainKeeps ==
    ASSUME StreamingInv, Drain
    PROVE  StreamingInv'
<1>1. line_queue' \in Seq(Stream \X (1..MaxLines)) /\ collected' \in [Stream -> Seq(1..MaxLines)]
      /\ LinesConserved'
  <2>1. CASE line_queue = <<>>
    BY <2>1 DEF Drain, StreamingInv, StreamingTypeOK, LinesConserved, CollectedInOrder,
                QueueHoldsTheRest, QueueInOrder, readerVars
  <2>2. CASE line_queue # <<>>
    BY <2>2, TakenTypes, TakenConserved DEF Drain, Taken, StreamingInv, readerVars
  <2>. QED  BY <2>1, <2>2
<1>2. StreamingTypeOK'
  BY <1>1 DEF Drain, GoTo, Place, StreamingInv, StreamingTypeOK, toolVars, readerVars, outcome, clock
<1>3. ReadersInv'
  BY DEF Drain, StreamingInv, ReadersInv, PipesOpen, toolVars, readerVars
<1>4. LeavingInv'
  BY DEF Drain, GoTo, StreamingInv, StreamingTypeOK, LeavingInv, CleanRun, Loop, toolVars,
         readerVars, outcome
<1>. QED  BY <1>1, <1>2, <1>3, <1>4 DEF StreamingInv

-----------------------------------------------------------------------------
LEMMA StreamingInvInit == StreamingInit => StreamingInv
<1>. SUFFICES ASSUME StreamingInit PROVE StreamingInv
  OBVIOUS
<1>1. StreamingTypeOK
  <2>1. /\ written \in [Stream -> 0..MaxLines] /\ read \in [Stream -> 0..MaxLines]
        /\ reader \in [Stream -> {"reading", "finished", "crashed"}]
        /\ undecodable \in 0..MaxUndecodable
    BY StreamingAssumption DEF StreamingInit
  <2>2. /\ line_queue \in Seq(Stream \X (1..MaxLines))
        /\ collected \in [Stream -> Seq(1..MaxLines)] /\ delivered \in [Stream -> Seq(1..MaxLines)]
    BY DEF StreamingInit
  <2>. QED  BY <2>1, <2>2 DEF StreamingInit, StreamingTypeOK, Place
<1>2. ReadersInv /\ LeavingInv
  BY DEF StreamingInit, ReadersInv, LeavingInv, CleanRun, Loop
<1>3. LinesConserved
  <2>1. CollectedInOrder
    <3>1. UpTo(0) = <<>>
      <4>1. <<>> \in Seq(Nat) /\ Len(<<>>) = 0 /\ UpTo(0) \in Seq(Nat) /\ Len(UpTo(0)) = 0
        BY DEF UpTo
      <4>. QED  BY <4>1
    <3>2. \A s \in Stream : collected[s] = <<>> /\ read[s] = 0 /\ Len(collected[s]) = 0
      BY DEF StreamingInit
    <3>3. ASSUME NEW s \in Stream
          PROVE  Len(collected[s]) <= read[s] /\ collected[s] = UpTo(Len(collected[s]))
      <4>1. Len(collected[s]) <= read[s]
        BY <3>2
      <4>2. UpTo(Len(collected[s])) = UpTo(0)
        BY <3>2, Zenon
      <4>. QED  BY <3>1, <3>2, <4>1, <4>2
    <3>. QED  BY <3>3 DEF CollectedInOrder
  <2>2. QueueHoldsTheRest /\ QueueInOrder
    BY StreamingAssumption DEF StreamingInit, QueueHoldsTheRest, QueueInOrder
  <2>. QED  BY <2>1, <2>2 DEF LinesConserved
<1>. QED  BY <1>1, <1>2, <1>3 DEF StreamingInv

LEMMA StreamingInvStep ==
    ASSUME StreamingInv, [StreamingNext]_streamingVars
    PROVE  StreamingInv'
<1>1. CASE Caller
  BY <1>1, CallerStepKeeps, GetLineKeeps, DrainKeeps DEF Caller
<1>2. CASE \E s \in Stream : Reader(s) \/ Write(s)
  BY <1>2, ReaderKeeps, WriteKeeps
<1>3. CASE ToolExits \/ ChildExits \/ Cancel \/ DeadlinePasses
  BY <1>3, EnvironmentKeeps
<1>4. CASE UNCHANGED streamingVars
  BY <1>4 DEF streamingVars, toolVars, readerVars, callerVars, outcome, clock, StreamingInv,
              StreamingTypeOK, ReadersInv, PipesOpen, LeavingInv, CleanRun, LinesConserved,
              CollectedInOrder, QueueHoldsTheRest, QueueInOrder
<1>. QED  BY <1>1, <1>2, <1>3, <1>4 DEF StreamingNext

LEMMA StreamingInvariant == StreamingSpec => []StreamingInv
BY StreamingInvInit, StreamingInvStep, PTL DEF StreamingSpec

(***************************************************************************)
(* run_streaming loses no line its readers have read and keeps each stream *)
(* in order, whatever ends the run.                                        *)
(***************************************************************************)
THEOREM LinesAreConserved == StreamingSpec => []LinesConserved
BY StreamingInvariant, PTL DEF StreamingInv

(***************************************************************************)
(* run_streaming returns or raises only when its tool is gone, and gives   *)
(* at most one reason for having stopped it.                               *)
(***************************************************************************)
THEOREM ToolIsGone == StreamingSpec => []NoToolLeftBehind
<1>1. StreamingInv => NoToolLeftBehind
  BY DEF StreamingInv, LeavingInv, NoToolLeftBehind, Ended
<1>. QED  BY <1>1, StreamingInvariant, PTL

(***************************************************************************)
(* A run of run_streaming that ended by itself, and none of whose readers  *)
(* died of undecodable text, has all the tool and its children wrote.      *)
(***************************************************************************)
THEOREM CleanRunsAreComplete == StreamingSpec => []CleanRunIsComplete
<1>1. ASSUME StreamingInv, CleanRun, \A s \in Stream : reader[s] # "crashed"
      PROVE  ~PipesOpen /\ \A s \in Stream : collected[s] = UpTo(written[s])
  <2>1. \A s \in Stream : reader[s] = "finished"
    <3>1. ASSUME NEW s \in Stream PROVE reader[s] # "reading"
      BY <1>1 DEF StreamingInv, LeavingInv, CleanRun, Loop
    <3>2. \A s \in Stream : reader[s] \in {"reading", "finished", "crashed"}
      BY <1>1 DEF StreamingInv, StreamingTypeOK
    <3>. QED  BY <1>1, <3>1, <3>2
  <2>2. ~PipesOpen /\ \A s \in Stream : read[s] = written[s]
    BY <1>1, <2>1, StreamingAssumption DEF StreamingInv, ReadersInv
  <2>3. ASSUME NEW s \in Stream PROVE Len(collected[s]) = read[s]
    <3>1. /\ line_queue = <<>> /\ MaxLines \in Nat /\ read[s] \in 0..MaxLines
          /\ Len(collected[s]) \in Nat /\ Len(collected[s]) <= read[s]
      BY <1>1, StreamingAssumption
         DEF StreamingInv, StreamingTypeOK, LeavingInv, LinesConserved, CollectedInOrder
    <3>2. ASSUME Len(collected[s]) < read[s] PROVE FALSE
      <4>1. read[s] \in 1..MaxLines
        BY <3>1, <3>2
      <4>2. \E i \in DOMAIN line_queue : line_queue[i] = <<s, read[s]>>
        BY <1>1, <3>1, <3>2, <4>1 DEF StreamingInv, LinesConserved, QueueHoldsTheRest
      <4>. QED  BY <3>1, <4>2
    <3>. QED  BY <3>1, <3>2
  <2>. QED  BY <1>1, <2>2, <2>3 DEF StreamingInv, LinesConserved, CollectedInOrder
<1>2. StreamingInv => CleanRunIsComplete
  BY <1>1 DEF CleanRunIsComplete
<1>. QED  BY <1>2, StreamingInvariant, PTL

-----------------------------------------------------------------------------
\* What is kept of a prefix when a line is appended.
LEMMA AppendedPrefix ==
    ASSUME NEW c \in Seq(1..MaxLines), NEW d \in Seq(1..MaxLines), NEW n \in 1..MaxLines,
           Len(d) <= Len(c), d = SubSeq(c, 1, Len(d))
    PROVE  Len(d) <= Len(Append(c, n)) /\ d = SubSeq(Append(c, n), 1, Len(d))
<1>. DEFINE e == Append(c, n)
<1>1. /\ e \in Seq(1..MaxLines) /\ Len(e) = Len(c) + 1 /\ Len(c) \in Nat /\ Len(d) \in Nat
      /\ \A i \in 1..Len(c) : e[i] = c[i]
  BY AppendProperties
<1>. HIDE DEF e
<1>2. /\ SubSeq(c, 1, Len(d)) = [i \in 1..Len(d) |-> c[i]]
      /\ SubSeq(e, 1, Len(d)) = [i \in 1..Len(d) |-> e[i]]
  BY <1>1, SubSeqProperties
<1>3. \A i \in 1..Len(d) : c[i] = e[i]
  BY <1>1
<1>4. Len(d) <= Len(e) /\ d = SubSeq(e, 1, Len(d))
  BY <1>1, <1>2, <1>3
<1>. QED  BY <1>4 DEF e

LEMMA DeliveredStep ==
    ASSUME StreamingInv, StreamingInv', DeliveredInOrder, [StreamingNext]_streamingVars
    PROVE  DeliveredInOrder'
<1>0. /\ collected \in [Stream -> Seq(1..MaxLines)] /\ delivered \in [Stream -> Seq(1..MaxLines)]
      /\ collected' \in [Stream -> Seq(1..MaxLines)]
  BY DEF StreamingInv, StreamingTypeOK
<1>1. CASE GetLine
  <2>1. \A s \in Stream : delivered[s] = collected[s]
    BY <1>1 DEF GetLine, DeliveredInOrder
  <2>2. delivered' = collected'
    <3>1. delivered = collected
      BY <1>0, <2>1
    <3>. QED  BY <1>1, <3>1 DEF GetLine
  <2>3. ASSUME NEW s \in Stream
        PROVE  /\ Len(collected'[s]) <= Len(collected'[s])
               /\ collected'[s] = SubSeq(collected'[s], 1, Len(collected'[s]))
    <3>1. collected'[s] \in Seq(1..MaxLines)
      BY <1>0
    <3>. QED  BY <3>1
  <2>. QED  BY <2>2, <2>3 DEF DeliveredInOrder
<1>2. CASE Drain /\ line_queue # <<>>
  <2>. DEFINE h == Head(line_queue)
  <2>1. h[1] \in Stream /\ h[2] \in 1..MaxLines
    BY <1>2, HeadIsNext DEF StreamingInv
  <2>2. /\ delivered' = delivered /\ pc' = "drain"
        /\ collected' = [collected EXCEPT ![h[1]] = Append(@, h[2])]
    BY <1>2 DEF Drain
  <2>. HIDE DEF h
  <2>3. ASSUME NEW s \in Stream
        PROVE  /\ Len(delivered[s]) <= Len(collected'[s])
               /\ delivered[s] = SubSeq(collected'[s], 1, Len(delivered[s]))
    <3>1. Len(delivered[s]) <= Len(collected[s])
          /\ delivered[s] = SubSeq(collected[s], 1, Len(delivered[s]))
      BY DEF DeliveredInOrder
    <3>2. collected[s] \in Seq(1..MaxLines) /\ delivered[s] \in Seq(1..MaxLines)
      BY <1>0
    <3>3. CASE s = h[1]
      <4>1. collected'[s] = Append(collected[s], h[2])
        BY <1>0, <2>1, <2>2, <3>3
      <4>. QED  BY <2>1, <3>1, <3>2, <4>1, AppendedPrefix
    <3>4. CASE s # h[1]
      BY <1>0, <2>2, <3>1, <3>4
    <3>. QED  BY <3>3, <3>4
  <2>. QED  BY <2>2, <2>3 DEF DeliveredInOrder
<1>3. ASSUME UNCHANGED <<collected, delivered>>,
             pc \in {"drain", "returned", "raised"} => pc' \in {"drain", "returned", "raised"}
      PROVE  DeliveredInOrder'
  BY <1>3 DEF DeliveredInOrder
<1>4. CASE Drain /\ line_queue = <<>>
  BY <1>3, <1>4 DEF Drain, GoTo
<1>5. CASE \/ CheckCancel \/ CheckDeadline \/ GetEmpty \/ CheckOver
           \/ Stop \/ Wait \/ Kill \/ Join
  <2>1. UNCHANGED <<collected, delivered>> /\ pc \notin {"drain", "returned", "raised"}
    BY <1>5 DEF CheckCancel, CheckDeadline, GetEmpty, CheckOver, Stop, Wait, Kill, Join
  <2>. QED  BY <1>3, <2>1
<1>6. CASE \/ \E s \in Stream : Reader(s) \/ Write(s)
           \/ ToolExits \/ ChildExits \/ Cancel \/ DeadlinePasses
           \/ UNCHANGED streamingVars
  <2>1. UNCHANGED <<collected, delivered, pc>>
    BY <1>6 DEF Reader, ReadLine, ReadEnd, ReadFails, Write, ToolExits, ChildExits, Cancel,
                DeadlinePasses, streamingVars, callerVars
  <2>. QED  BY <1>3, <2>1
<1>. QED  BY <1>1, <1>2, <1>4, <1>5, <1>6 DEF StreamingNext, Caller

(***************************************************************************)
(* on_line is called with the lines of the result in order and without a   *)
(* gap, missing at most those drained after the loop.                      *)
(***************************************************************************)
THEOREM DeliveryInOrder == StreamingSpec => []DeliveredInOrder
<1>1. StreamingInit => DeliveredInOrder
  <2>. SUFFICES ASSUME StreamingInit, NEW s \in Stream
                PROVE  /\ Len(delivered[s]) <= Len(collected[s])
                       /\ delivered[s] = SubSeq(collected[s], 1, Len(delivered[s]))
                       /\ delivered[s] = collected[s]
    BY DEF DeliveredInOrder
  <2>1. collected[s] = <<>> /\ delivered[s] = <<>>
    BY DEF StreamingInit
  <2>2. Len(<<>>) = 0
    OBVIOUS
  <2>3. <<>> = SubSeq(<<>>, 1, 0)
    OBVIOUS
  <2>. QED  BY <2>1, <2>2, <2>3
<1>2. StreamingInv /\ StreamingInv' /\ DeliveredInOrder /\ [StreamingNext]_streamingVars
        => DeliveredInOrder'
  BY DeliveredStep
<1>. QED  BY <1>1, <1>2, StreamingInvariant, PTL DEF StreamingSpec
=============================================================================
