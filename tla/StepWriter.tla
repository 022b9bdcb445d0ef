----------------------------- MODULE StepWriter -----------------------------
(***************************************************************************)
(* The step writer of worker/handler.go: the orchestrator's goroutine      *)
(* queues execution steps on a buffered channel, a background goroutine    *)
(* inserts them into PostgreSQL, and a WaitGroup counts the steps that are *)
(* on their way.  Close is called once, by the same goroutine that writes, *)
(* just before the final execution record is written.                      *)
(*                                                                         *)
(* A step is the number of the Write call that queued it.                  *)
(***************************************************************************)
EXTENDS Integers, Sequences, SequencesExt

CONSTANTS
    BufSize,    \* capacity of the channel (100 in ProcessTask)
    MaxSteps    \* bound on the Write calls of one execution

ASSUME SizesAssumption == BufSize \in Nat \ {0} /\ MaxSteps \in Nat

VARIABLES
    caller,     \* where the orchestrator's goroutine is
    writer,     \* where the background goroutine is
    ch,         \* the buffered channel: a sequence of steps
    closed,     \* ch has been closed
    wg,         \* the counter of the WaitGroup
    hand,       \* the step the background goroutine has received, 0 for none
    next,       \* the step of the next Write call
    dropped,    \* steps the full buffer turned away
    stored,     \* steps inserted into execution_steps, in insertion order
    lost        \* steps whose insert returned an error

writerVars == <<caller, writer, ch, closed, wg, hand, next, dropped, stored, lost>>

Callers == {"open", "writing", "flushing", "closing", "joining", "closed", "recorded"}
Writers == {"receiving", "inserting", "exited"}

WriterTypes ==
    /\ caller \in Callers
    /\ writer \in Writers
    /\ ch \in Seq(1 .. MaxSteps) /\ Len(ch) <= BufSize
    /\ closed \in BOOLEAN
    /\ wg \in Nat
    /\ hand \in 0 .. MaxSteps
    /\ next \in 1 .. MaxSteps + 1
    /\ dropped \subseteq 1 .. MaxSteps
    /\ stored \in Seq(1 .. MaxSteps)
    /\ lost \subseteq 1 .. MaxSteps

-----------------------------------------------------------------------------
\* NewStepWriter: an empty channel and a running background goroutine.
WriterInit ==
    /\ caller = "open" /\ writer = "receiving"
    /\ ch = << >> /\ closed = FALSE /\ wg = 0
    /\ hand = 0 /\ next = 1
    /\ dropped = {} /\ stored = << >> /\ lost = {}

\* Write, first half: the WaitGroup counts the step before it is queued.
WriteAdd ==
    /\ caller = "open" /\ next <= MaxSteps
    /\ wg' = wg + 1
    /\ caller' = "writing"
    /\ UNCHANGED <<writer, ch, closed, hand, next, dropped, stored, lost>>

\* Mutant: a step that is turned away stays on the count.
WriteSendKeepsCount ==
    /\ caller = "writing"
    /\ IF Len(ch) < BufSize
       THEN ch' = Append(ch, next) /\ UNCHANGED dropped
       ELSE dropped' = dropped \cup {next} /\ UNCHANGED ch
    /\ next' = next + 1
    /\ caller' = "open"
    /\ UNCHANGED <<writer, closed, wg, hand, stored, lost>>

\* Write, second half: the select queues the step, or drops it and takes it
\* off the count when the buffer is full.
WriteSend ==
    /\ caller = "writing"
    /\ IF Len(ch) < BufSize
       THEN ch' = Append(ch, next) /\ UNCHANGED <<wg, dropped>>
       ELSE wg' = wg - 1 /\ dropped' = dropped \cup {next} /\ UNCHANGED ch
    /\ next' = next + 1
    /\ caller' = "open"
    /\ UNCHANGED <<writer, closed, hand, stored, lost>>

\* Close is entered: ProcessTask and failExecution call it after their last Write.
StartClose ==
    /\ caller = "open"
    /\ caller' = "flushing"
    /\ UNCHANGED <<writer, ch, closed, wg, hand, next, dropped, stored, lost>>

\* Mutant: Flush looks at the channel and not at the count.
FlushEmptyChannel ==
    /\ caller = "flushing" /\ ch = << >>
    /\ caller' = "closing"
    /\ UNCHANGED <<writer, ch, closed, wg, hand, next, dropped, stored, lost>>

\* Flush returns once the WaitGroup is at zero.
Flush ==
    /\ caller = "flushing" /\ wg = 0
    /\ caller' = "closing"
    /\ UNCHANGED <<writer, ch, closed, wg, hand, next, dropped, stored, lost>>

CloseChannel ==
    /\ caller = "closing"
    /\ closed' = TRUE
    /\ caller' = "joining"
    /\ UNCHANGED <<writer, ch, wg, hand, next, dropped, stored, lost>>

\* Close returns when the background goroutine has closed the done channel.
Join ==
    /\ caller = "joining" /\ writer = "exited"
    /\ caller' = "closed"
    /\ UNCHANGED <<writer, ch, closed, wg, hand, next, dropped, stored, lost>>

\* The caller goes on to write the final execution record.
RecordExecution ==
    /\ caller = "closed"
    /\ caller' = "recorded"
    /\ UNCHANGED <<writer, ch, closed, wg, hand, next, dropped, stored, lost>>

-----------------------------------------------------------------------------
ReceiveStep ==
    /\ writer = "receiving" /\ ch # << >>
    /\ hand' = Head(ch) /\ ch' = Tail(ch)
    /\ writer' = "inserting"
    /\ UNCHANGED <<caller, closed, wg, next, dropped, stored, lost>>

\* InsertExecutionStep succeeds or fails; the error is discarded and the step
\* comes off the count either way.
Insert ==
    /\ writer = "inserting"
    /\ \/ stored' = Append(stored, hand) /\ UNCHANGED lost
       \/ lost' = lost \cup {hand} /\ UNCHANGED stored
    /\ wg' = wg - 1
    /\ hand' = 0
    /\ writer' = "receiving"
    /\ UNCHANGED <<caller, ch, closed, next, dropped>>

\* range ends on a channel that is closed and empty.
Exit ==
    /\ writer = "receiving" /\ closed /\ ch = << >>
    /\ writer' = "exited"
    /\ UNCHANGED <<caller, ch, closed, wg, hand, next, dropped, stored, lost>>

CallerStep ==
    WriteAdd \/ WriteSend \/ StartClose \/ Flush \/ CloseChannel \/ Join \/ RecordExecution

WriterStep == ReceiveStep \/ Insert \/ Exit

\* Both goroutines are over: the only way the component stops.
Terminated == caller = "recorded" /\ writer = "exited" /\ UNCHANGED writerVars

WriterNext == CallerStep \/ WriterStep \/ Terminated

\* The Go scheduler runs every goroutine that can run, and an insert returns.
\* When the caller decides to close is its own affair, once no Write remains it does.
WriterFairness ==
    /\ WF_writerVars(WriterStep)
    /\ WF_writerVars(WriteSend \/ Flush \/ CloseChannel \/ Join \/ RecordExecution)
    /\ WF_writerVars(StartClose /\ next > MaxSteps)

WriterSpec == WriterInit /\ [][WriterNext]_writerVars /\ WriterFairness

-----------------------------------------------------------------------------
\* The steps a Write call has queued: every call that returned, less the drops.
Accepted == (1 .. next - 1) \ dropped

Inserted == ToSet(stored)

\* The counter of the WaitGroup is exactly the steps that are on their way: those
\* in the channel, the one in the writer's hand, and the one a Write in progress
\* has counted and not queued yet.  A negative count would panic, a count that is
\* too high would block Close for ever, one too low would let it return early.
CountIsExact ==
    wg = Len(ch) + (IF hand = 0 THEN 0 ELSE 1) + (IF caller = "writing" THEN 1 ELSE 0)

\* The final execution record is written only after every accepted step has been
\* tried: architecture.md says that all pending step writes are flushed first.
StepsBeforeRecord ==
    caller \in {"closing", "joining", "closed", "recorded"} => Accepted = Inserted \cup lost

\* Close never strands the orchestrator: once it is called it returns, and the
\* background goroutine has ended by then.
CloseReturns == (caller = "flushing") ~> (caller = "recorded" /\ writer = "exited")

=============================================================================
