------------------------------ MODULE Lifecycle ------------------------------
(***************************************************************************)
(* The record of one execution and everyone who writes or reads it:        *)
(*   - the request that invokes the graph (server/api/executions.go),      *)
(*     which creates the row, subscribes to the execution's events when it *)
(*     is synchronous, queues the task and waits;                          *)
(*   - the orchestrator (worker/orchestrator.go), seen from the row: what  *)
(*     the graph does in between is GraphRun;                              *)
(*   - the requests that cancel it, and the clients that stream its events.*)
(* Every update of the row is a read, a change of the copy and a write of  *)
(* the whole copy; nothing locks the row or compares versions.  Events go  *)
(* through Redis pub/sub: who is not subscribed when an event is published *)
(* never sees it.                                                          *)
(***************************************************************************)
EXTENDS Naturals, Sequences, SequencesExt

CONSTANTS
    Canceller,   \* the requests that cancel the execution
    Streamer,    \* the clients that stream its events
    Modes,       \* the modes of the request: a subset of {"sync", "async"}
    NodeEvents,  \* bound on the events of the execution's nodes
    StoreFails,  \* a call of the store may return an error
    QueueFails,  \* a call of the queue may return an error
    EventsLost,  \* a published event may not reach a subscriber
    MayStop      \* the worker may refuse the task, or die

Api == "api"
Listener == Streamer \union {Api}

ASSUME LifecycleAssumption ==
    /\ Api \notin Streamer
    /\ Modes \subseteq {"sync", "async"} /\ Modes # {}
    /\ NodeEvents \in Nat
    /\ {StoreFails, QueueFails, EventsLost, MayStop} \subseteq BOOLEAN

Final == {"completed", "failed", "cancelled"}
Row == [status : {"none", "pending", "running"} \union Final,
        output : BOOLEAN, error : BOOLEAN]
NoRow == [status |-> "none", output |-> FALSE, error |-> FALSE]
Event == {"started", "node"} \union Final

VARIABLES
    mode,       \* the mode of the request
    invoker,    \* where the invoking request is
    answer,     \* what it answered
    row,        \* the row of executions
    orch,       \* where the orchestrator is
    copy,       \* the row it last read
    outcome,    \* how the graph ended
    cancel,     \* where each cancelling request is
    read,       \* the row it read
    stream,     \* the connection of each streaming client
    seen,       \* the events written to it
    inbox,      \* the events on their way to each listener
    published   \* every event published, in order

requestVars == <<mode, invoker, answer>>
orchVars == <<orch, copy, outcome>>
cancelVars == <<cancel, read>>
streamVars == <<stream, seen>>
eventVars == <<inbox, published>>
vars == <<requestVars, row, orchVars, cancelVars, streamVars, eventVars>>

Answers == {"none", "accepted", "error", "timeout"} \union Final

TypeOK ==
    /\ mode \in Modes
    /\ invoker \in {"create", "subscribe", "enqueue", "record", "queued", "waiting", "answered"}
    /\ answer \in Answers /\ (answer # "none") = (invoker = "answered")
    /\ row \in Row /\ copy \in Row
    /\ orch \in {"none", "queued", "reading", "starting", "announcing", "running",
                 "ending", "saving", "telling", "done", "dead"}
    /\ outcome \in {"none", "completed", "failed"}
    /\ cancel \in [Canceller -> {"idle", "checked", "telling", "ok", "conflict", "error"}]
    /\ read \in [Canceller -> Row]
    /\ stream \in [Streamer -> {"idle", "open", "gone", "closed"}]
    /\ seen \in [Streamer -> Seq(Event)]
    /\ inbox \in [Listener -> Seq(Event)]
    /\ published \in Seq(Event)

Init ==
    /\ mode \in Modes /\ invoker = "create" /\ answer = "none"
    /\ row = NoRow
    /\ orch = "none" /\ copy = NoRow /\ outcome = "none"
    /\ cancel = [c \in Canceller |-> "idle"] /\ read = [c \in Canceller |-> NoRow]
    /\ stream = [s \in Streamer |-> "idle"] /\ seen = [s \in Streamer |-> << >>]
    /\ inbox = [l \in Listener |-> << >>] /\ published = << >>

-----------------------------------------------------------------------------
(* The store, the queue and the channel.                                   *)

Outcomes(mayFail) == IF mayFail THEN BOOLEAN ELSE {TRUE}

\* One statement on the row.  One that returns an error may have been committed.
Save(new, ok) == row' \in IF ok THEN {new} ELSE {row, new}

\* Mutant: the subscription is only requested when the task is queued, not confirmed.
ListeningLate ==
    {s \in Streamer : stream[s] = "open"}
        \union {l \in {Api} : invoker = "waiting" /\ mode = "sync"}

\* Who is subscribed: the sync request from before the task is queued.
Listening ==
    {s \in Streamer : stream[s] = "open"}
        \union {l \in {Api} : invoker \in {"enqueue", "record", "queued", "waiting"} /\ mode = "sync"}

Publish(e) ==
    \E missed \in IF EventsLost THEN SUBSET Listening ELSE {{}} :
        /\ inbox' = [l \in Listener |->
                        IF l \in Listening \ missed THEN Append(inbox[l], e) ELSE inbox[l]]
        /\ published' = Append(published, e)

-----------------------------------------------------------------------------
(* The request that invokes the graph.                                     *)

Answer(a) == invoker' = "answered" /\ answer' = a /\ UNCHANGED mode

\* CreateExecution: the row is inserted with status pending.
Create ==
    /\ invoker = "create"
    /\ \E ok \in Outcomes(StoreFails) :
        /\ Save([NoRow EXCEPT !.status = "pending"], ok)
        /\ IF ok THEN /\ invoker' = (IF mode = "sync" THEN "subscribe" ELSE "enqueue")
                      /\ UNCHANGED <<mode, answer>>
                 ELSE Answer("error")
    /\ UNCHANGED <<orchVars, cancelVars, streamVars, eventVars>>

\* A sync request subscribes before it queues the task, and waits until Redis has
\* confirmed it.  On an error the row stays as it was created.
Subscribe ==
    /\ invoker = "subscribe"
    /\ \E ok \in Outcomes(QueueFails) :
        IF ok THEN invoker' = "enqueue" /\ UNCHANGED <<mode, answer>>
              ELSE Answer("error")
    /\ UNCHANGED <<row, orchVars, cancelVars, streamVars, eventVars>>

\* Enqueue.  A call that returned an error may have queued the task all the same.
Enqueue ==
    /\ invoker = "enqueue"
    /\ \E ok \in Outcomes(QueueFails) :
        /\ orch' \in IF ok THEN {"queued"} ELSE {"none", "queued"}
        /\ invoker' = IF ok THEN "queued" ELSE "record"
    /\ UNCHANGED <<mode, answer, row, copy, outcome, cancelVars, streamVars, eventVars>>

\* The call has returned: an async request answers, a sync one starts to listen.  The
\* worker may have taken the task long before.
Queued ==
    /\ invoker = "queued"
    /\ IF mode = "sync" THEN invoker' = "waiting" /\ UNCHANGED <<mode, answer>>
                        ELSE Answer("accepted")
    /\ UNCHANGED <<row, orchVars, cancelVars, streamVars, eventVars>>

\* The record this request created, not the one in the store, is written as failed.
RecordEnqueueFailure ==
    /\ invoker = "record"
    /\ \E ok \in Outcomes(StoreFails) : Save([NoRow EXCEPT !.status = "failed", !.error = TRUE], ok)
    /\ Answer("error")
    /\ UNCHANGED <<orchVars, cancelVars, streamVars, eventVars>>

\* A terminal event becomes the answer; any other is skipped.
Receive ==
    /\ invoker = "waiting" /\ inbox[Api] # << >>
    /\ inbox' = [inbox EXCEPT ![Api] = Tail(@)]
    /\ IF Head(inbox[Api]) \in Final THEN Answer(Head(inbox[Api]))
                                     ELSE UNCHANGED requestVars
    /\ UNCHANGED <<row, orchVars, cancelVars, streamVars, published>>

\* Mutant: every error of ReceiveMessage is retried, that of the expired context too.
SyncTimeoutRetries ==
    /\ invoker = "waiting"
    /\ UNCHANGED vars

\* The request's own clock runs out.  The execution is not told.
SyncTimeout ==
    /\ invoker = "waiting"
    /\ Answer("timeout")
    /\ UNCHANGED <<row, orchVars, cancelVars, streamVars, eventVars>>

-----------------------------------------------------------------------------
(* The orchestrator.                                                       *)

\* The task is taken.  One that does not parse or whose graph is not valid is refused:
\* asynq gives it up, and nothing is written or published.
Take ==
    /\ orch = "queued"
    /\ orch' \in IF MayStop THEN {"reading", "done"} ELSE {"reading"}
    /\ UNCHANGED <<requestVars, row, copy, outcome, cancelVars, streamVars, eventVars>>

\* updateExecutionStatus, its two calls; an error of either is only logged.
ReadStart ==
    /\ orch = "reading"
    /\ \E ok \in Outcomes(StoreFails) :
        IF ok THEN orch' = "starting" /\ copy' = row
              ELSE orch' = "announcing" /\ UNCHANGED copy
    /\ UNCHANGED <<requestVars, row, outcome, cancelVars, streamVars, eventVars>>

WriteStart ==
    /\ orch = "starting"
    /\ \E ok \in Outcomes(StoreFails) : Save([copy EXCEPT !.status = "running"], ok)
    /\ orch' = "announcing"
    /\ UNCHANGED <<requestVars, copy, outcome, cancelVars, streamVars, eventVars>>

Announce ==
    /\ orch = "announcing"
    /\ Publish("started")
    /\ orch' = "running"
    /\ UNCHANGED <<requestVars, row, copy, outcome, cancelVars, streamVars>>

\* The graph runs: events of its nodes, then an end.  Nothing in between reads the row
\* or listens for a cancellation.
EmitNode ==
    /\ orch = "running"
    /\ Len(SelectSeq(published, LAMBDA e : e = "node")) < NodeEvents
    /\ Publish("node")
    /\ UNCHANGED <<requestVars, row, orchVars, cancelVars, streamVars>>

EndGraph ==
    /\ orch = "running"
    /\ outcome' \in {"completed", "failed"}
    /\ orch' = "ending"
    /\ UNCHANGED <<requestVars, row, copy, cancelVars, streamVars, eventVars>>

\* Mutant: the event is published before the row is written.
ReadFinalTells ==
    /\ orch = "ending"
    /\ orch' = "saving" /\ copy' = row
    /\ Publish(outcome)
    /\ UNCHANGED <<requestVars, row, outcome, cancelVars, streamVars>>

\* completeExecution and failExecution: without the row they return, with no event.
ReadFinal ==
    /\ orch = "ending"
    /\ \E ok \in Outcomes(StoreFails) :
        IF ok THEN orch' = "saving" /\ copy' = row
              ELSE orch' = "done" /\ UNCHANGED copy
    /\ UNCHANGED <<requestVars, row, outcome, cancelVars, streamVars, eventVars>>

WriteFinal ==
    /\ orch = "saving"
    /\ \E ok \in Outcomes(StoreFails) :
        Save(IF outcome = "completed"
             THEN [copy EXCEPT !.status = "completed", !.output = TRUE]
             ELSE [copy EXCEPT !.status = "failed", !.error = TRUE], ok)
    /\ orch' = "telling"
    /\ UNCHANGED <<requestVars, copy, outcome, cancelVars, streamVars, eventVars>>

\* The terminal event is published whether the row was written or not.
PublishFinal ==
    /\ orch = "telling"
    /\ Publish(outcome)
    /\ orch' = "done"
    /\ UNCHANGED <<requestVars, row, copy, outcome, cancelVars, streamVars>>

\* The worker dies; the task is not delivered again (MaxRetry 0).
Die ==
    /\ MayStop /\ orch \notin {"none", "queued", "done", "dead"}
    /\ orch' = "dead"
    /\ UNCHANGED <<requestVars, row, copy, outcome, cancelVars, streamVars, eventVars>>

-----------------------------------------------------------------------------
(* A request that cancels the execution.                                   *)

\* Mutant: any execution can be cancelled.
CancelReadUnchecked(c) ==
    /\ cancel[c] = "idle" /\ row # NoRow
    /\ read' = [read EXCEPT ![c] = row]
    /\ cancel' = [cancel EXCEPT ![c] = "checked"]
    /\ UNCHANGED <<requestVars, row, orchVars, streamVars, eventVars>>

\* GetExecution returns an error for a row that is not there, too.
CancelRead(c) ==
    /\ cancel[c] = "idle"
    /\ \E ok \in Outcomes(StoreFails) :
        /\ read' = [read EXCEPT ![c] = IF ok THEN row ELSE @]
        /\ cancel' = [cancel EXCEPT ![c] =
                        IF ~ ok \/ row = NoRow THEN "error"
                        ELSE IF row.status \in {"pending", "running"} THEN "checked"
                        ELSE "conflict"]
    /\ UNCHANGED <<requestVars, row, orchVars, streamVars, eventVars>>

CancelWrite(c) ==
    /\ cancel[c] = "checked"
    /\ \E ok \in Outcomes(StoreFails) :
        /\ Save([read[c] EXCEPT !.status = "cancelled"], ok)
        /\ cancel' = [cancel EXCEPT ![c] = IF ok THEN "telling" ELSE "error"]
    /\ UNCHANGED <<requestVars, orchVars, read, streamVars, eventVars>>

\* Mutant: a cancellation that could not be published is taken back.
CancelPublishOrUndo(c) ==
    /\ cancel[c] = "telling"
    /\ \/ Publish("cancelled") /\ UNCHANGED row
       \/ row' = read[c] /\ UNCHANGED eventVars
    /\ cancel' = [cancel EXCEPT ![c] = "ok"]
    /\ UNCHANGED <<requestVars, orchVars, read, streamVars>>

CancelPublish(c) ==
    /\ cancel[c] = "telling"
    /\ Publish("cancelled")
    /\ cancel' = [cancel EXCEPT ![c] = "ok"]
    /\ UNCHANGED <<requestVars, row, orchVars, read, streamVars>>

-----------------------------------------------------------------------------
(* A client that streams the events.                                       *)

\* The handler subscribes; it looks neither at the row nor at Last-Event-ID.
Connect(s) ==
    /\ stream[s] \in {"idle", "gone"}
    /\ stream' = [stream EXCEPT ![s] = "open"]
    /\ UNCHANGED <<requestVars, row, orchVars, cancelVars, seen, eventVars>>

\* Mutant: only a completed execution ends the stream.
DeliverUntilCompleted(s) ==
    /\ stream[s] = "open" /\ inbox[s] # << >>
    /\ seen' = [seen EXCEPT ![s] = Append(@, Head(inbox[s]))]
    /\ inbox' = [inbox EXCEPT ![s] = Tail(@)]
    /\ stream' = [stream EXCEPT ![s] = IF Head(inbox[s]) = "completed" THEN "closed" ELSE @]
    /\ UNCHANGED <<requestVars, row, orchVars, cancelVars, published>>

\* An event is written to the client; a terminal one ends the stream.
Deliver(s) ==
    /\ stream[s] = "open" /\ inbox[s] # << >>
    /\ seen' = [seen EXCEPT ![s] = Append(@, Head(inbox[s]))]
    /\ inbox' = [inbox EXCEPT ![s] = Tail(@)]
    /\ stream' = [stream EXCEPT ![s] = IF Head(inbox[s]) \in Final THEN "closed" ELSE @]
    /\ UNCHANGED <<requestVars, row, orchVars, cancelVars, published>>

\* The client goes away, and what was on its way is lost.
Disconnect(s) ==
    /\ stream[s] = "open"
    /\ stream' = [stream EXCEPT ![s] = "gone"]
    /\ inbox' = [inbox EXCEPT ![s] = << >>]
    /\ UNCHANGED <<requestVars, row, orchVars, cancelVars, seen, published>>

-----------------------------------------------------------------------------
Requesting == Create \/ Subscribe \/ Enqueue \/ Queued \/ RecordEnqueueFailure \/ Receive
Orchestrating == Take \/ ReadStart \/ WriteStart \/ Announce \/ EndGraph
                    \/ ReadFinal \/ WriteFinal \/ PublishFinal
Cancelling(c) == CancelWrite(c) \/ CancelPublish(c)

Next ==
    \/ Requesting \/ SyncTimeout
    \/ Orchestrating \/ EmitNode \/ Die
    \/ \E c \in Canceller : CancelRead(c) \/ Cancelling(c)
    \/ \E s \in Streamer : Connect(s) \/ Deliver(s) \/ Disconnect(s)

\* The handlers run on, and the sync request's clock does; nobody has to cancel, to
\* connect or to leave, and the worker does not have to die.
Fairness ==
    /\ WF_vars(Requesting) /\ WF_vars(SyncTimeout) /\ WF_vars(Orchestrating)
    /\ \A c \in Canceller : WF_vars(Cancelling(c))
    /\ \A s \in Streamer : WF_vars(Deliver(s))

Spec == Init /\ [][Next]_vars /\ Fairness

-----------------------------------------------------------------------------
(* What the code keeps.                                                    *)

Told == outcome \in ToSet(published)

\* A sync request that still waits after the orchestrator published how the graph ended
\* has that event, or another terminal one, in front of it: it subscribed before the
\* task was queued, so a worker that is quicker than the request cannot be missed.
NoMissedCompletion ==
    invoker = "waiting" /\ Told => \E i \in DOMAIN inbox[Api] : inbox[Api][i] \in Final

\* A row is completed exactly when it has an output and failed exactly when it has an
\* error, whatever copies the requests that cancel and the orchestrator write over each
\* other: no copy that is written back holds an output or an error of before.  A request
\* that answered an error is excepted: its task may be in the queue all the same.
ConsistentRow ==
    invoker # "record" /\ answer # "error" =>
        /\ row.output = (row.status = "completed")
        /\ row.error = (row.status = "failed")

\* As long as no request has written the row as cancelled, what a sync request answers is
\* what the row says from then on: completeExecution and failExecution publish the event
\* after UpdateExecution has returned, so a client that reads the row after the answer does
\* not find it running.  The comment on the answer (server/api/executions.go:206-208) says
\* the opposite, that the event comes before the write can be seen, and takes the answer
\* from the event for that reason.
AnswerMatchesRow ==
    answer \in Final /\ (\A c \in Canceller : cancel[c] \notin {"telling", "ok"}) =>
        row.status = answer

\* Once the orchestrator has ended, and no request is between its write of a cancelled row
\* and the event about it, the row says how the execution ended and an event of that end
\* was published: requests that cancel and the orchestrator write whole rows over each
\* other, but what is left standing is an end that clients were told, not a running row
\* from a stale copy, nor an end that only the table knows.  A request that answered an
\* error is excepted, as in ConsistentRow.
EndIsTold ==
    orch = "done" /\ answer # "error" /\ (\A c \in Canceller : cancel[c] # "telling") =>
        row.status \in Final \cap ToSet(published)

\* A sync request is answered, even if the worker dies or every event is lost.
SyncAnswered ==
    (invoker = "create") ~> (invoker = "answered")

\* A client that is connected before the terminal event, and stays, sees the stream end.
StreamEnds ==
    \A s \in Streamer :
        (stream[s] = "open" /\ ~ Told) ~> (stream[s] # "open")

-----------------------------------------------------------------------------
(* What the code does not keep where an execution is cancelled: the        *)
(* orchestrator writes over a cancelled row, and the cancellation over a   *)
(* completed one.                                                          *)

\* A row that says how the execution ended is not written again.
FinalIsFinal ==
    [][row.status \in Final => row' = row]_row

=============================================================================
