--------------------------- MODULE BackgroundTasks --------------------------
(***************************************************************************)
(* BackgroundTaskRunner on TaskScheduler's pool: a page submits a callable *)
(* and is told by a signal when it has returned or raised.  The GUI thread *)
(* polls; the pool's threads are shared with the analyses, which this      *)
(* runner does not poll.                                                   *)
(***************************************************************************)
EXTENDS Naturals, Sequences, FiniteSets

CONSTANTS
    Task,           \* calls of TaskScheduler.submit
    MaxWorkers      \* threads of the pool

ASSUME WorkersAssumption == MaxWorkers \in Nat \ {0}

VARIABLES
    pool_queue,     \* the executor's FIFO
    future,         \* task -> how far its future is
    pending,        \* BackgroundTaskRunner._pending
    ticking,        \* the runner's QTimer is active
    polling,        \* the GUI thread is inside _poll
    to_poll,        \* pending jobs of this _poll not looked at yet
    done_jobs,      \* local of _poll
    handed,         \* tasks given to the runner (history)
    answers         \* task -> finished and failed signals emitted (history)

poolVars == <<pool_queue, future>>
pollVars == <<polling, to_poll, done_jobs>>
historyVars == <<handed, answers>>
taskVars == <<poolVars, pending, ticking, pollVars, historyVars>>

Future == {"none", "queued", "running", "result", "error"}
Done(t) == future[t] \in {"result", "error"}

TasksInit ==
    /\ pool_queue = <<>> /\ future = [t \in Task |-> "none"]
    /\ pending = {} /\ ticking = FALSE
    /\ polling = FALSE /\ to_poll = {} /\ done_jobs = {}
    /\ handed = {} /\ answers = [t \in Task |-> <<>>]

-----------------------------------------------------------------------------
Submit(t) ==
    /\ future[t] = "none"
    /\ future' = [future EXCEPT ![t] = "queued"]
    /\ pool_queue' = Append(pool_queue, t)

\* BackgroundTaskRunner.run
Run(t) ==
    /\ Submit(t)
    /\ pending' = pending \cup {t}
    /\ ticking' = TRUE
    /\ handed' = handed \cup {t}
    /\ UNCHANGED <<pollVars, answers>>

\* An analysis takes a place in the same pool.
SubmitAnalysis(t) ==
    /\ Submit(t)
    /\ UNCHANGED <<pending, ticking, pollVars, historyVars>>

TakeUp(t) ==
    /\ pool_queue # <<>> /\ t = Head(pool_queue)
    /\ Cardinality({x \in Task : future[x] = "running"}) < MaxWorkers
    /\ pool_queue' = Tail(pool_queue)
    /\ future' = [future EXCEPT ![t] = "running"]
    /\ UNCHANGED <<pending, ticking, pollVars, historyVars>>

\* The callable returns or raises; the future keeps what it was.
Settle(t, how) ==
    /\ future[t] = "running"
    /\ future' = [future EXCEPT ![t] = how]
    /\ UNCHANGED <<pool_queue, pending, ticking, pollVars, historyVars>>

-----------------------------------------------------------------------------
\* _poll: a copy of _pending is walked while the threads go on.
GuiIdle == ~polling

PollBegin ==
    /\ ticking /\ GuiIdle
    /\ polling' = TRUE /\ to_poll' = pending
    /\ UNCHANGED <<poolVars, pending, ticking, done_jobs, historyVars>>

PollSkip(t) ==
    /\ t \in to_poll /\ ~Done(t)
    /\ to_poll' = to_poll \ {t}
    /\ UNCHANGED <<poolVars, pending, ticking, polling, done_jobs, historyVars>>

\* finished or failed is emitted; the pages' slots run within.
PollAnswer(t) ==
    /\ t \in to_poll /\ Done(t)
    /\ answers' = [answers EXCEPT ![t] = Append(@, future[t])]
    /\ to_poll' = to_poll \ {t} /\ done_jobs' = done_jobs \cup {t}
    /\ UNCHANGED <<poolVars, pending, ticking, polling, handed>>

\* Mutant: what is no longer waited for is what is done by now.
PollEndForgetting ==
    /\ polling /\ to_poll = {}
    /\ pending' = {t \in pending : ~Done(t)}
    /\ ticking' = (pending' # {})
    /\ polling' = FALSE /\ done_jobs' = {}
    /\ UNCHANGED <<poolVars, to_poll, historyVars>>

PollEnd ==
    /\ polling /\ to_poll = {}
    /\ pending' = pending \ done_jobs
    /\ ticking' = (pending' # {})
    /\ polling' = FALSE /\ done_jobs' = {}
    /\ UNCHANGED <<poolVars, to_poll, historyVars>>

-----------------------------------------------------------------------------
\* Whatever the tasks are.  A slot may call run() inside _poll.
TasksNext ==
    \/ \E t \in Task :
          \/ Run(t) \/ SubmitAnalysis(t)
          \/ TakeUp(t) \/ Settle(t, "result") \/ Settle(t, "error")
          \/ PollSkip(t) \/ PollAnswer(t)
    \/ PollBegin \/ PollEnd

TasksSpec == TasksInit /\ [][TasksNext]_taskVars

-----------------------------------------------------------------------------
TasksTypeOK ==
    /\ pool_queue \in Seq(Task) /\ future \in [Task -> Future]
    /\ pending \subseteq Task /\ to_poll \subseteq pending /\ done_jobs \subseteq pending
    /\ handed \subseteq Task /\ ticking \in BOOLEAN /\ polling \in BOOLEAN
    /\ answers \in [Task -> Seq({"result", "error"})]

(***************************************************************************)
(* Every job given to the runner is answered at most once, with what its   *)
(* callable did, and until then it is polled: no job falls between the     *)
(* copy _poll walks and the set it forgets.                                *)
(***************************************************************************)
AnsweredOnce ==
    /\ \A t \in Task : answers[t] \in {<<>>, <<future[t]>>}
    /\ \A t \in handed : answers[t] = <<>> => t \in pending /\ ticking
    /\ \A t \in pending : answers[t] # <<>> => polling /\ t \in done_jobs
=============================================================================
