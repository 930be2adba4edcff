------------------------ MODULE BackgroundTasksProofs -----------------------
(***************************************************************************)
(* BackgroundTaskRunner answers each task once, whatever the tasks do.     *)
(* The pages that submit to it are proved to use it so, each in its own    *)
(* module.                                                                 *)
(***************************************************************************)
EXTENDS BackgroundTasks, SequenceTheorems, TLAPS

\* Queued tasks and no others are in the queue, each once.
QueueInv ==
    /\ \A i \in DOMAIN pool_queue : future[pool_queue[i]] = "queued"
    /\ \A i, j \in DOMAIN pool_queue : pool_queue[i] = pool_queue[j] => i = j

\* What _poll has looked at, what it has yet to look at, and what is answered.
PollInv ==
    /\ ~polling => to_poll = {} /\ done_jobs = {}
    /\ \A t \in to_poll : answers[t] = <<>>
    /\ \A t \in done_jobs : answers[t] # <<>>
    /\ pending \subseteq handed
    /\ \A t \in handed : future[t] # "none"
    /\ \A t \in Task : answers[t] # <<>> => Done(t) /\ t \in handed

TasksInv == TasksTypeOK /\ QueueInv /\ PollInv /\ AnsweredOnce

-----------------------------------------------------------------------------
LEMMA TasksInvInit == TasksInit => TasksInv
<1>. SUFFICES ASSUME TasksInit PROVE TasksInv
  OBVIOUS
<1>1. pool_queue \in Seq(Task) /\ DOMAIN pool_queue = {}
  BY DEF TasksInit
<1>2. future \in [Task -> Future] /\ answers \in [Task -> Seq({"result", "error"})]
  BY DEF TasksInit, Future
<1>3. QueueInv /\ PollInv /\ AnsweredOnce
  BY <1>1 DEF TasksInit, QueueInv, PollInv, AnsweredOnce
<1>. QED  BY <1>1, <1>2, <1>3 DEF TasksInit, TasksInv, TasksTypeOK

\* run() and the analyses: one more task at the end of the queue.
LEMMA SubmitKeeps ==
    ASSUME TasksInv, NEW t \in Task, Run(t) \/ SubmitAnalysis(t)
    PROVE  TasksInv'
<1>0. /\ future[t] = "none" /\ future' = [future EXCEPT ![t] = "queued"]
      /\ pool_queue' = Append(pool_queue, t)
      /\ UNCHANGED <<pollVars, answers>>
      /\ \/ pending' = pending \cup {t} /\ handed' = handed \cup {t} /\ ticking' = TRUE
         \/ UNCHANGED <<pending, handed, ticking>>
  BY DEF Run, SubmitAnalysis, Submit, historyVars
<1>1. /\ pool_queue \in Seq(Task) /\ future \in [Task -> Future]
      /\ answers \in [Task -> Seq({"result", "error"})]
      /\ answers[t] = <<>> /\ t \notin pending
  BY <1>0 DEF TasksInv, TasksTypeOK, PollInv, Done
<1>2. TasksTypeOK'
  <2>1. pool_queue' \in Seq(Task) /\ future' \in [Task -> Future]
    BY <1>0, <1>1 DEF Future
  <2>. QED  BY <1>0, <2>1 DEF TasksInv, TasksTypeOK, pollVars
<1>3. QueueInv'
  <2>1. /\ DOMAIN pool_queue' = 1..(Len(pool_queue) + 1) /\ DOMAIN pool_queue = 1..Len(pool_queue)
        /\ pool_queue'[Len(pool_queue) + 1] = t /\ Len(pool_queue) \in Nat
        /\ \A i \in DOMAIN pool_queue : pool_queue'[i] = pool_queue[i]
    BY <1>0, <1>1, AppendProperties
  <2>2. \A i \in DOMAIN pool_queue : pool_queue[i] \in Task /\ pool_queue[i] # t
    BY <1>0, <1>1 DEF TasksInv, QueueInv
  <2>3. \A i \in DOMAIN pool_queue' : i = Len(pool_queue) + 1 \/ i \in DOMAIN pool_queue
    BY <2>1
  <2>4. \A i \in DOMAIN pool_queue' : future'[pool_queue'[i]] = "queued"
    BY <1>0, <1>1, <2>1, <2>2, <2>3 DEF TasksInv, QueueInv
  <2>5. \A i, j \in DOMAIN pool_queue' : pool_queue'[i] = pool_queue'[j] => i = j
    BY <2>1, <2>2, <2>3 DEF TasksInv, QueueInv
  <2>. QED  BY <2>4, <2>5 DEF QueueInv
<1>4. PollInv' /\ AnsweredOnce'
  <2>1. \A x \in Task : x # t => future'[x] = future[x]
    BY <1>0, <1>1
  <2>2. future'[t] = "queued"
    BY <1>0, <1>1
  <2>. QED  BY <1>0, <1>1, <2>1, <2>2
            DEF TasksInv, TasksTypeOK, PollInv, AnsweredOnce, Done, pollVars
<1>. QED  BY <1>2, <1>3, <1>4 DEF TasksInv

\* A thread takes the oldest task.
LEMMA TakeUpKeeps ==
    ASSUME TasksInv, NEW t \in Task, TakeUp(t)
    PROVE  TasksInv'
<1>0. /\ pool_queue # <<>> /\ t = Head(pool_queue) /\ pool_queue' = Tail(pool_queue)
      /\ future' = [future EXCEPT ![t] = "running"]
      /\ UNCHANGED <<pending, ticking, polling, to_poll, done_jobs, handed, answers>>
  BY DEF TakeUp, pollVars, historyVars
<1>1. /\ pool_queue \in Seq(Task) /\ future \in [Task -> Future] /\ Len(pool_queue) \in Nat \ {0}
      /\ DOMAIN pool_queue = 1..Len(pool_queue) /\ 1 \in DOMAIN pool_queue
      /\ t = pool_queue[1]
  BY <1>0 DEF TasksInv, TasksTypeOK
<1>2. future[t] = "queued" /\ future'[t] = "running"
      /\ \A x \in Task : x # t => future'[x] = future[x]
  BY <1>0, <1>1 DEF TasksInv, QueueInv
<1>3. TasksTypeOK'
  <2>1. pool_queue' \in Seq(Task) /\ future' \in [Task -> Future]
    BY <1>0, <1>1, HeadTailProperties DEF Future
  <2>. QED  BY <1>0, <2>1 DEF TasksInv, TasksTypeOK
<1>4. QueueInv'
  <2>1. /\ \A i \in DOMAIN pool_queue' : i + 1 \in DOMAIN pool_queue /\ i + 1 # 1
                                       /\ pool_queue'[i] = pool_queue[i + 1]
        /\ DOMAIN pool_queue' \subseteq Nat
    BY <1>0, <1>1, HeadTailProperties
  <2>2. \A i \in DOMAIN pool_queue' : pool_queue'[i] \in Task /\ pool_queue'[i] # t
    BY <1>1, <2>1 DEF TasksInv, QueueInv
  <2>3. \A i \in DOMAIN pool_queue' : future'[pool_queue'[i]] = "queued"
    BY <1>2, <2>1, <2>2 DEF TasksInv, QueueInv
  <2>4. \A i, j \in DOMAIN pool_queue' : pool_queue'[i] = pool_queue'[j] => i = j
    BY <2>1 DEF TasksInv, QueueInv
  <2>. QED  BY <2>3, <2>4 DEF QueueInv
<1>5. PollInv' /\ AnsweredOnce'
  BY <1>0, <1>2 DEF TasksInv, TasksTypeOK, PollInv, AnsweredOnce, Done
<1>. QED  BY <1>3, <1>4, <1>5 DEF TasksInv

\* A callable returns or raises: it was running, so it has not been answered.
LEMMA SettleKeeps ==
    ASSUME TasksInv, NEW t \in Task, NEW how \in {"result", "error"}, Settle(t, how)
    PROVE  TasksInv'
<1>0. /\ future[t] = "running" /\ future' = [future EXCEPT ![t] = how]
      /\ UNCHANGED <<pool_queue, pending, ticking, polling, to_poll, done_jobs, handed, answers>>
  BY DEF Settle, pollVars, historyVars
<1>1. future \in [Task -> Future] /\ pool_queue \in Seq(Task)
  BY DEF TasksInv, TasksTypeOK
<1>2. future'[t] = how /\ \A x \in Task : x # t => future'[x] = future[x]
  BY <1>0, <1>1
<1>3. TasksTypeOK'
  <2>1. future' \in [Task -> Future]
    BY <1>0, <1>1 DEF Future
  <2>. QED  BY <1>0, <2>1 DEF TasksInv, TasksTypeOK
<1>4. QueueInv'
  <2>1. \A i \in DOMAIN pool_queue : pool_queue[i] \in Task /\ pool_queue[i] # t
    BY <1>0, <1>1 DEF TasksInv, QueueInv
  <2>. QED  BY <1>0, <1>2, <2>1 DEF TasksInv, QueueInv
<1>5. PollInv' /\ AnsweredOnce'
  BY <1>0, <1>2 DEF TasksInv, TasksTypeOK, PollInv, AnsweredOnce, Done
<1>. QED  BY <1>3, <1>4, <1>5 DEF TasksInv

LEMMA AnswerKeeps ==
    ASSUME TasksInv, NEW t \in Task, PollAnswer(t)
    PROVE  TasksInv'
<1>0. /\ t \in to_poll /\ Done(t)
      /\ answers' = [answers EXCEPT ![t] = Append(@, future[t])]
      /\ to_poll' = to_poll \ {t} /\ done_jobs' = done_jobs \cup {t}
      /\ UNCHANGED <<pool_queue, future, pending, ticking, polling, handed>>
  BY DEF PollAnswer, poolVars
<1>1. /\ answers \in [Task -> Seq({"result", "error"})] /\ answers[t] = <<>>
      /\ to_poll \subseteq pending /\ polling
  BY <1>0 DEF TasksInv, TasksTypeOK, PollInv
<1>2. /\ answers'[t] = <<future[t]>> /\ answers'[t] \in Seq({"result", "error"})
      /\ answers'[t] # <<>>
      /\ \A x \in Task : x # t => answers'[x] = answers[x]
  BY <1>0, <1>1 DEF Done
<1>3. TasksTypeOK'
  <2>1. answers' \in [Task -> Seq({"result", "error"})]
    BY <1>0, <1>1, <1>2
  <2>. QED  BY <1>0, <1>1, <2>1 DEF TasksInv, TasksTypeOK
<1>4. QueueInv'
  BY <1>0 DEF TasksInv, QueueInv
<1>5. PollInv'
  BY <1>0, <1>1, <1>2 DEF TasksInv, TasksTypeOK, PollInv, Done
<1>6. AnsweredOnce'
  BY <1>0, <1>1, <1>2 DEF TasksInv, TasksTypeOK, PollInv, AnsweredOnce
<1>. QED  BY <1>3, <1>4, <1>5, <1>6 DEF TasksInv

LEMMA PollKeeps ==
    ASSUME TasksInv, PollBegin \/ PollEnd \/ \E t \in Task : PollSkip(t)
    PROVE  TasksInv'
<1>1. CASE PollBegin
  BY <1>1 DEF PollBegin, GuiIdle, poolVars, historyVars, TasksInv, TasksTypeOK, QueueInv, PollInv,
              AnsweredOnce, Done
<1>2. CASE PollEnd
  BY <1>2 DEF PollEnd, poolVars, historyVars, TasksInv, TasksTypeOK, QueueInv, PollInv,
              AnsweredOnce, Done
<1>3. ASSUME NEW t \in Task, PollSkip(t) PROVE TasksInv'
  BY <1>3 DEF PollSkip, poolVars, historyVars, TasksInv, TasksTypeOK, QueueInv, PollInv,
              AnsweredOnce, Done
<1>. QED  BY <1>1, <1>2, <1>3

LEMMA TasksInvStep ==
    ASSUME TasksInv, [TasksNext]_taskVars
    PROVE  TasksInv'
<1>1. CASE UNCHANGED taskVars
  BY <1>1 DEF taskVars, poolVars, pollVars, historyVars, TasksInv, TasksTypeOK, QueueInv, PollInv,
              AnsweredOnce, Done
<1>. QED  BY <1>1, SubmitKeeps, TakeUpKeeps, SettleKeeps, AnswerKeeps, PollKeeps DEF TasksNext

LEMMA TasksInvariant == TasksSpec => []TasksInv
BY TasksInvInit, TasksInvStep, PTL DEF TasksSpec

(***************************************************************************)
(* Whatever the tasks are and however the threads and the poll interleave, *)
(* BackgroundTaskRunner answers no task twice and loses none.              *)
(***************************************************************************)
THEOREM TasksAnsweredOnce == TasksSpec => []AnsweredOnce
BY TasksInvariant, PTL DEF TasksInv
=============================================================================
