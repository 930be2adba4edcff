---------------------------- MODULE ToolStreaming ----------------------------
(***************************************************************************)
(* ToolManager.run_streaming: an external tool writes to two pipes, one    *)
(* reader thread per pipe moves its lines into a queue, and the calling    *)
(* thread takes them out, watching for cancellation and for the deadline.  *)
(* When it leaves the loop it stops the tool and drains the queue.         *)
(*                                                                         *)
(* A line is its number in its stream.  The tool may have started a child  *)
(* that inherits the pipes (adb its server, a shell its pipeline), which   *)
(* keeps them open after the tool itself is gone.                          *)
(***************************************************************************)
EXTENDS Naturals, Sequences

CONSTANTS
    Stream,         \* stdout and stderr
    MaxLines,       \* bound: lines each stream may carry
    MaxUndecodable  \* bound: lines that are not valid text

ASSUME StreamingAssumption == Stream # {} /\ MaxLines \in Nat /\ MaxUndecodable \in Nat

VARIABLES
    tool,         \* the process: running, told to terminate, or gone
    child,        \* a child of the tool holds the pipes
    written,      \* stream -> lines written into its pipe
    reader,       \* stream -> state of its reader thread
    read,         \* stream -> lines its reader has put into the queue
    undecodable,  \* undecodable lines still allowed
    line_queue,   \* queue.Queue of (stream, line)
    collected,    \* stream -> stdout_lines, stderr_lines
    delivered,    \* stream -> lines on_line was called with
    pc,           \* where the calling thread is
    cancelled, timed_out, \* locals of run_streaming
    escaping,     \* on_line raised: the exception leaves after the finally block
    cancel_requested, \* what should_cancel() answers
    late          \* the timeout has passed

toolVars == <<tool, child, written>>
readerVars == <<reader, read, undecodable>>
outcome == <<cancelled, timed_out, escaping>>
callerVars == <<collected, delivered, pc, outcome>>
clock == <<cancel_requested, late>>
streamingVars == <<toolVars, readerVars, line_queue, callerVars, clock>>

StreamingInit ==
    /\ tool = "running"
    /\ child \in BOOLEAN
    /\ written = [s \in Stream |-> 0]
    /\ reader = [s \in Stream |-> "reading"]
    /\ read = [s \in Stream |-> 0]
    /\ undecodable = MaxUndecodable
    /\ line_queue = <<>>
    /\ collected = [s \in Stream |-> <<>>] /\ delivered = [s \in Stream |-> <<>>]
    /\ pc = "cancel?"
    /\ cancelled = FALSE /\ timed_out = FALSE /\ escaping = FALSE
    /\ cancel_requested = FALSE /\ late = FALSE

-----------------------------------------------------------------------------
\* The tool, its child, the user and the clock.
PipesOpen == tool # "gone" \/ child

Write(s) ==
    /\ PipesOpen /\ reader[s] # "crashed"
    /\ written[s] < MaxLines
    /\ written' = [written EXCEPT ![s] = @ + 1]
    /\ UNCHANGED <<tool, child, readerVars, line_queue, callerVars, clock>>

ToolExits ==
    /\ tool # "gone"
    /\ tool' = "gone"
    /\ UNCHANGED <<child, written, readerVars, line_queue, callerVars, clock>>

ChildExits ==
    /\ child
    /\ child' = FALSE
    /\ UNCHANGED <<tool, written, readerVars, line_queue, callerVars, clock>>

Cancel ==
    /\ ~cancel_requested
    /\ cancel_requested' = TRUE
    /\ UNCHANGED <<toolVars, readerVars, line_queue, callerVars, late>>

DeadlinePasses ==
    /\ ~late
    /\ late' = TRUE
    /\ UNCHANGED <<toolVars, readerVars, line_queue, callerVars, cancel_requested>>

-----------------------------------------------------------------------------
\* _reader: readline, put.
ReadLine(s) ==
    /\ reader[s] = "reading" /\ read[s] < written[s]
    /\ read' = [read EXCEPT ![s] = @ + 1]
    /\ line_queue' = Append(line_queue, <<s, read[s] + 1>>)
    /\ UNCHANGED <<toolVars, reader, undecodable, callerVars, clock>>

ReadEnd(s) ==
    /\ reader[s] = "reading" /\ read[s] = written[s]
    /\ ~PipesOpen
    /\ reader' = [reader EXCEPT ![s] = "finished"]
    /\ UNCHANGED <<toolVars, read, undecodable, line_queue, callerVars, clock>>

\* text=True decodes strictly: a bad byte raises in readline, the finally block
\* closes the pipe and the thread dies without a trace in the result.
ReadFails(s) ==
    /\ reader[s] = "reading" /\ read[s] < written[s]
    /\ undecodable > 0
    /\ undecodable' = undecodable - 1
    /\ reader' = [reader EXCEPT ![s] = "crashed"]
    /\ UNCHANGED <<toolVars, read, line_queue, callerVars, clock>>

-----------------------------------------------------------------------------
\* The calling thread.  Cancellation, deadline, queue: in that order, every time.
GoTo(place) == pc' = place

CheckCancel ==
    /\ pc = "cancel?"
    /\ cancelled' = cancel_requested
    /\ GoTo(IF cancel_requested THEN "stop" ELSE "deadline?")
    /\ UNCHANGED <<toolVars, readerVars, line_queue, collected, delivered, timed_out, escaping,
                   clock>>

CheckDeadline ==
    /\ pc = "deadline?"
    /\ timed_out' = late
    /\ GoTo(IF late THEN "stop" ELSE "get")
    /\ UNCHANGED <<toolVars, readerVars, line_queue, collected, delivered, cancelled, escaping,
                   clock>>

\* Mutant: the deadline is looked at with the line in hand.
GetLineUnlessLate ==
    /\ pc = "get" /\ line_queue # <<>>
    /\ line_queue' = Tail(line_queue)
    /\ IF late
       THEN /\ timed_out' = TRUE /\ GoTo("stop")
            /\ UNCHANGED <<collected, delivered, escaping>>
       ELSE LET s == Head(line_queue)[1]
                n == Head(line_queue)[2]
            IN  /\ collected' = [collected EXCEPT ![s] = Append(@, n)]
                /\ delivered' = [delivered EXCEPT ![s] = Append(@, n)]
                /\ GoTo("cancel?")
                /\ UNCHANGED <<timed_out, escaping>>
    /\ UNCHANGED <<toolVars, readerVars, cancelled, clock>>

\* Mutant: a line is kept only once on_line has returned.
GetLineKeptAfter ==
    /\ pc = "get" /\ line_queue # <<>>
    /\ line_queue' = Tail(line_queue)
    /\ escaping' \in BOOLEAN
    /\ LET s == Head(line_queue)[1]
           n == Head(line_queue)[2]
       IN  /\ collected' = IF escaping' THEN collected
                                        ELSE [collected EXCEPT ![s] = Append(@, n)]
           /\ delivered' = [delivered EXCEPT ![s] = Append(@, n)]
    /\ GoTo(IF escaping' THEN "stop" ELSE "cancel?")
    /\ UNCHANGED <<toolVars, readerVars, cancelled, timed_out, clock>>

\* A line: keep it, then call on_line, which may raise.
GetLine ==
    /\ pc = "get" /\ line_queue # <<>>
    /\ line_queue' = Tail(line_queue)
    /\ LET s == Head(line_queue)[1]
           n == Head(line_queue)[2]
       IN  /\ collected' = [collected EXCEPT ![s] = Append(@, n)]
           /\ delivered' = [delivered EXCEPT ![s] = Append(@, n)]
    /\ escaping' \in BOOLEAN
    /\ GoTo(IF escaping' THEN "stop" ELSE "cancel?")
    /\ UNCHANGED <<toolVars, readerVars, cancelled, timed_out, clock>>

\* poll_interval passes with the queue empty.
GetEmpty ==
    /\ pc = "get" /\ line_queue = <<>>
    /\ GoTo("over?")
    /\ UNCHANGED <<toolVars, readerVars, line_queue, collected, delivered, outcome, clock>>

\* Mutant: the loop ends with the tool, whatever its readers still hold.
CheckOverByTool ==
    /\ pc = "over?"
    /\ GoTo(IF tool = "gone" THEN "stop" ELSE "cancel?")
    /\ UNCHANGED <<toolVars, readerVars, line_queue, collected, delivered, outcome, clock>>

\* The process and the two threads are asked one after the other; they never
\* come back to life, so asking all of them at once gives the same answers.
CheckOver ==
    /\ pc = "over?"
    /\ GoTo(IF tool = "gone" /\ \A s \in Stream : reader[s] # "reading"
            THEN "stop" ELSE "cancel?")
    /\ UNCHANGED <<toolVars, readerVars, line_queue, collected, delivered, outcome, clock>>

\* The finally block.
Stop ==
    /\ pc = "stop"
    /\ IF tool = "gone" THEN UNCHANGED tool /\ GoTo("join")
                        ELSE tool' = "terminating" /\ GoTo("wait")
    /\ UNCHANGED <<child, written, readerVars, line_queue, collected, delivered, outcome, clock>>

Wait ==
    /\ pc = "wait" /\ tool = "gone"
    /\ GoTo("join")
    /\ UNCHANGED <<toolVars, readerVars, line_queue, collected, delivered, outcome, clock>>

\* Mutant: a tool that ignores SIGTERM is left alone.
GiveUpWaiting ==
    /\ pc = "wait" /\ tool # "gone"
    /\ GoTo("join")
    /\ UNCHANGED <<toolVars, readerVars, line_queue, collected, delivered, outcome, clock>>

\* Mutant: proc.wait() without a timeout.
WaitForEver ==
    /\ pc = "wait" /\ tool = "gone"
    /\ GoTo("join")
    /\ UNCHANGED <<toolVars, readerVars, line_queue, collected, delivered, outcome, clock>>

\* It did not terminate within 5 seconds: kill, then wait, which returns at once.
Kill ==
    /\ pc = "wait" /\ tool # "gone"
    /\ tool' = "gone"
    /\ GoTo("join")
    /\ UNCHANGED <<child, written, readerVars, line_queue, collected, delivered, outcome, clock>>

\* Both readers are joined, or two seconds passed.
Join ==
    /\ pc = "join"
    /\ GoTo(IF escaping THEN "raised" ELSE "drain")
    /\ UNCHANGED <<toolVars, readerVars, line_queue, collected, delivered, outcome, clock>>

\* Lines found in the queue are kept, but on_line is not called for them.
Drain ==
    /\ pc = "drain"
    /\ IF line_queue = <<>>
       THEN GoTo("returned") /\ UNCHANGED <<line_queue, collected>>
       ELSE /\ line_queue' = Tail(line_queue)
            /\ collected' = [collected EXCEPT
                               ![Head(line_queue)[1]] = Append(@, Head(line_queue)[2])]
            /\ UNCHANGED pc
    /\ UNCHANGED <<toolVars, readerVars, delivered, outcome, clock>>

Caller ==
    \/ CheckCancel \/ CheckDeadline \/ GetLine \/ GetEmpty \/ CheckOver
    \/ Stop \/ Wait \/ Kill \/ Join \/ Drain

Reader(s) == ReadLine(s) \/ ReadEnd(s) \/ ReadFails(s)

StreamingNext ==
    \/ Caller
    \/ \E s \in Stream : Reader(s) \/ Write(s)
    \/ ToolExits \/ ChildExits \/ Cancel \/ DeadlinePasses

StreamingSpec == StreamingInit /\ [][StreamingNext]_streamingVars

\* The calling thread runs: its waits have timeouts.  Nothing is asked of the tool,
\* which may hang and ignore SIGTERM, nor of the readers, which may block in readline.
StreamingFairSpec == StreamingSpec /\ WF_streamingVars(Caller)

-----------------------------------------------------------------------------
Place == {"cancel?", "deadline?", "get", "over?", "stop", "wait", "join", "drain",
          "returned", "raised"}
Ended == pc \in {"returned", "raised"}
UpTo(n) == [i \in 1..n |-> i]

StreamingTypeOK ==
    /\ tool \in {"running", "terminating", "gone"} /\ child \in BOOLEAN
    /\ written \in [Stream -> 0..MaxLines] /\ read \in [Stream -> 0..MaxLines]
    /\ reader \in [Stream -> {"reading", "finished", "crashed"}]
    /\ undecodable \in 0..MaxUndecodable
    /\ line_queue \in Seq(Stream \X (1..MaxLines))
    /\ collected \in [Stream -> Seq(1..MaxLines)] /\ delivered \in [Stream -> Seq(1..MaxLines)]
    /\ pc \in Place
    /\ cancelled \in BOOLEAN /\ timed_out \in BOOLEAN /\ escaping \in BOOLEAN
    /\ cancel_requested \in BOOLEAN /\ late \in BOOLEAN

(***************************************************************************)
(* No line disappears between a reader and the result, and none overtakes  *)
(* another of its stream: the result has the first lines of the stream in  *)
(* order, the queue exactly the further ones its reader has read, in order *)
(* too -- cancellation, timeout and a raising on_line included.            *)
(***************************************************************************)
CollectedInOrder ==
    \A s \in Stream :
        Len(collected[s]) <= read[s] /\ collected[s] = UpTo(Len(collected[s]))

QueueHoldsTheRest ==
    \A s \in Stream : \A n \in 1..MaxLines :
        (\E i \in DOMAIN line_queue : line_queue[i] = <<s, n>>)
            <=> Len(collected[s]) < n /\ n <= read[s]

QueueInOrder ==
    \A i, j \in DOMAIN line_queue :
        i < j /\ line_queue[i][1] = line_queue[j][1] => line_queue[i][2] < line_queue[j][2]

LinesConserved == CollectedInOrder /\ QueueHoldsTheRest /\ QueueInOrder

(***************************************************************************)
(* on_line sees the lines of the result in their order and without a gap:  *)
(* all that is kept while the loop runs, all but the drained tail at the   *)
(* end.                                                                    *)
(***************************************************************************)
DeliveredInOrder ==
    \A s \in Stream :
        /\ Len(delivered[s]) <= Len(collected[s])
        /\ delivered[s] = SubSeq(collected[s], 1, Len(delivered[s]))
        /\ pc \notin {"drain", "returned", "raised"} => delivered[s] = collected[s]

(***************************************************************************)
(* A run that ended by itself -- neither cancelled nor timed out -- has    *)
(* everything the tool and its children wrote, unless a reader crashed.    *)
(***************************************************************************)
CleanRun == pc = "returned" /\ ~cancelled /\ ~timed_out

CleanRunIsComplete ==
    CleanRun /\ (\A s \in Stream : reader[s] # "crashed") =>
        ~PipesOpen /\ \A s \in Stream : collected[s] = UpTo(written[s])

(***************************************************************************)
(* run_streaming never leaves its tool behind, whether it returns or       *)
(* raises, and it never says both cancelled and timed out.                 *)
(***************************************************************************)
NoToolLeftBehind == Ended => tool = "gone" /\ ~(cancelled /\ timed_out)

(***************************************************************************)
(* Cancelling ends the run, and so does the timeout, each by itself and    *)
(* although the tool is silent, ignores SIGTERM or leaves a child that     *)
(* keeps the readers blocked.                                              *)
(***************************************************************************)
EveryRunEnds == cancel_requested \/ late ~> Ended
=============================================================================
