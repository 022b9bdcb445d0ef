------------------------------ MODULE GraphRun ------------------------------
(***************************************************************************)
(* One execution of a graph by the distributed orchestrator                *)
(* (worker/orchestrator.go).  The orchestrator is one graph:start task; it *)
(* walks the groups of the forward pass, fans node tasks out through       *)
(* asynq, pops their results from a Redis list, runs the loops of the      *)
(* back-edges and finalizes the execution.                                 *)
(*                                                                         *)
(* Around it are the workers, which run node tasks in any order, and       *)
(* asynq, which delivers a task again when its worker dies before the task *)
(* is acknowledged.  A worker that dies before it has pushed a result has  *)
(* done nothing anyone can see, so that redelivery is a stuttering step    *)
(* here; one that dies after the push is the action Redeliver.             *)
(***************************************************************************)
EXTENDS GraphData

CONSTANTS
    MaxRetries,     \* Node -> the retry policy's MaxRetries, 0 without a policy
    MaxBRPOPRetries,\* retries of a BRPOP that timed out (3 in the code)
    GraphTimeout,   \* the request carries a timeout
    MayCrash,       \* the orchestrator's process may die
    MaxDup          \* bound on the redeliveries of tasks that had pushed a result

ASSUME RunAssumption ==
    /\ MaxRetries \in [Node -> Nat]
    /\ MaxBRPOPRetries \in Nat
    /\ GraphTimeout \in BOOLEAN /\ MayCrash \in BOOLEAN
    /\ MaxDup \in Nat

VARIABLES
    pc,         \* where ProcessTask is
    status,     \* the status column of the execution's row
    group,      \* index of the group being executed
    todo,       \* runnable nodes of the group that are not dispatched yet
    pending,    \* nodes of the group that are dispatched
    collected,  \* results the fan-in loop of the group has popped
    attempt,    \* BRPOP timeouts of the result being waited for
    loop,       \* index of the back-edge being looped
    iter,       \* its iteration
    loopRan,    \* it ran at least once
    pos,        \* the next position of the topological order to look at
    backValue,  \* the back-edge's source port carried a value
    done,       \* nodes with an entry in nodeOutputs
    out,        \* Node -> that entry: the dispatch it comes from and its live ports
    skipped,    \* the skipped map
    dead,       \* the deadEdges map
    state,      \* Field -> the writes it holds, as <<binding, dispatch>>
    event,      \* Node -> its last event
    steps,      \* rows of execution_steps, by their key
    reports,    \* Node -> results of the node the orchestrator consumed
    runs,       \* Node -> how often it was dispatched
    expired,    \* which contexts are done: "no", "graph" (execCtx), "task" (both)
    tasks,      \* node tasks that are queued or running
    unacked,    \* node tasks that pushed or re-enqueued and are not acknowledged
    nextId,     \* the next asynq task ID
    dups,       \* redeliveries so far
    results,    \* the list exec:{id}:results, oldest first
    due         \* history: the bindings of every result pushed to it, with the run

orchVars == <<pc, status, group, todo, pending, collected, attempt>>
loopVars == <<loop, iter, loopRan, pos, backValue>>
dataVars == <<done, out, skipped, dead, state>>
logVars == <<event, steps, reports>>
queueVars == <<tasks, unacked, nextId, dups, due>>
vars == <<orchVars, loopVars, dataVars, logVars, runs, expired, queueVars, results>>

Waits == {"collect", "bodyWait", "downWait"}
Active == {"enter", "dispatch", "loop", "body", "down", "finish", "commit", "fail"} \cup Waits
Over == {"done", "dead"}

Task == [id : Nat, node : Node, run : Nat, try : Nat]
Result == [node : Node, run : Nat, ok : BOOLEAN, keys : SUBSET Port, live : SUBSET Port]

TypeOK ==
    /\ pc \in {"queued"} \cup Active \cup Over
    /\ status \in {"pending", "running", "completed", "failed"}
    /\ group \in 1 .. Len(Group) + 1
    /\ todo \subseteq Node
    /\ pending \in Nat /\ collected \in Nat /\ attempt \in 0 .. MaxBRPOPRetries
    /\ loop \in 1 .. Len(BackEdge) + 1 /\ iter \in Nat /\ pos \in 1 .. Len(TopoOrder) + 1
    /\ loopRan \in BOOLEAN /\ backValue \in BOOLEAN
    /\ done \subseteq Node
    /\ out \in [Node -> [run : Nat, live : SUBSET Port]]
    /\ skipped \subseteq Node /\ dead \subseteq Edge
    /\ DOMAIN state = Field /\ \A f \in ArrayField : state[f] \in Seq(StateWrite \X Nat)
    /\ event \in [Node -> {"idle", "started", "completed", "failed", "skipped"}]
    /\ steps \subseteq Node \X Nat
    /\ reports \in [Node -> Nat] /\ runs \in [Node -> Nat]
    /\ expired \in {"no", "graph", "task"}
    /\ tasks \subseteq Task /\ unacked \subseteq Task
    /\ nextId \in Nat /\ dups \in Nat
    /\ results \in Seq(Result) /\ due \subseteq StateWrite \X Nat

-----------------------------------------------------------------------------
(* Shared pieces of the handlers.                                          *)

\* A conditional passes its "value" input to the port that fires; without a value
\* the port carries nil.  Back tells whether the back-edge's value is injected.
ValueReaches(n, back) ==
    \/ n \in HasValue
    \/ \E e \in ForwardIn(n) : e.dport = "value" /\ e.src \in done /\ e.port \in out[e.src].live
    \/ back

\* The ports of an in-process run that carry a value.
Live(n, keys, back) == IF Kind[n] = "conditional" /\ ~ValueReaches(n, back) THEN {} ELSE keys

\* Mutant: the bindings are looked up by the port alone, whatever node they are of.
WriteStateOfAll(n, r) ==
    state' = [f \in Field |->
        IF f \in ArrayField
        THEN state[f] \o SetToSeq({w \in StateWrite : w.field = f /\ w.port \in r.keys} \X {r.run})
        ELSE state[f]]

\* applyStateWrites, the bindings of node n and the outputs of result r.
WriteState(n, r) == state' = Written(state, n, r.run, r.keys)

StoreOutputs(r) ==
    /\ done' = done \cup {r.node}
    /\ out' = [out EXCEPT ![r.node] = [run |-> r.run, live |-> r.live]]

\* What the bindings of its node make of a result.
Due(r) == {w \in StateWrite : w.node = r.node /\ w.port \in r.keys} \X {r.run}

PushResult(r) == results' = Append(results, r) /\ due' = due \cup Due(r)

\* dispatchNode: an asynq task for the node, or an in-process execution whose
\* result is pushed to the same list, except when the context is already done.
\* A node of an unknown type is dispatched to nobody.
DispatchNode(n, back) ==
    /\ runs' = [runs EXCEPT ![n] = @ + 1]
    /\ \/ /\ Kind[n] \in DispatchedKinds
          /\ tasks' = tasks \cup {[id |-> nextId, node |-> n, run |-> runs[n] + 1, try |-> 0]}
          /\ nextId' = nextId + 1
          /\ UNCHANGED <<results, due>>
       \/ /\ Kind[n] \in LocalKinds \ {"human_in_the_loop"}
          /\ \E keys \in Keys(n) :
                LET r == [node |-> n, run |-> runs[n] + 1, ok |-> TRUE,
                          keys |-> keys, live |-> Live(n, keys, back)]
                IN  IF expired = "no" THEN PushResult(r) ELSE UNCHANGED <<results, due>>
          /\ UNCHANGED <<tasks, nextId>>
       \/ Kind[n] = "unknown" /\ UNCHANGED <<tasks, nextId, results, due>>
    /\ UNCHANGED <<unacked, dups>>

\* A step row is keyed by node and iteration; a second row with the key of the
\* first is refused and the error discarded.
RecordStep(n, i) == steps' = steps \cup {<<n, i>>}

Pop == results' = Tail(results)

-----------------------------------------------------------------------------
Init ==
    /\ pc = "queued" /\ status = "pending"
    /\ group = 1 /\ todo = {} /\ pending = 0 /\ collected = 0 /\ attempt = 0
    /\ loop = 1 /\ iter = 0 /\ loopRan = FALSE /\ pos = 1 /\ backValue = FALSE
    /\ done = {} /\ out = [n \in Node |-> [run |-> 0, live |-> OutPort[n]]]
    /\ skipped = {} /\ dead = {}
    /\ state = [f \in Field |-> << >>]
    /\ event = [n \in Node |-> "idle"] /\ steps = {}
    /\ reports = [n \in Node |-> 0] /\ runs = [n \in Node |-> 0]
    /\ expired = "no"
    /\ tasks = {} /\ unacked = {} /\ nextId = 0 /\ dups = 0
    /\ results = << >> /\ due = {}

\* ProcessTask up to the forward pass: the row becomes running, the input nodes
\* have their outputs.  (Expire is called on the result key, which does not exist yet.)
Start ==
    /\ pc = "queued"
    /\ pc' = "enter" /\ status' = "running"
    /\ done' = Inputs
    /\ UNCHANGED <<group, todo, pending, collected, attempt, loopVars, out, skipped, dead, state>>
    /\ UNCHANGED <<logVars, runs, expired, queueVars, results>>

Runnable(i) == {n \in Group[i] : Kind[n] # "input" /\ n \notin skipped /\ n \notin done}

\* executeGroup, first part: filterRunnable emits node_skipped for the skipped nodes.
EnterGroup ==
    /\ pc = "enter" /\ group <= Len(Group)
    /\ event' = [n \in Node |->
            IF n \in Group[group] /\ Kind[n] # "input" /\ n \in skipped THEN "skipped" ELSE event[n]]
    /\ todo' = Runnable(group)
    /\ pending' = 0 /\ collected' = 0 /\ attempt' = 0
    /\ IF Runnable(group) = {}
       THEN group' = group + 1 /\ UNCHANGED pc
       ELSE pc' = "dispatch" /\ UNCHANGED group
    /\ UNCHANGED <<status, loopVars, dataVars, steps, reports, runs, expired, queueVars, results>>

\* executeGroup, fan-out of one node.  The groups come out of a Go map, so the
\* order in which they are dispatched is arbitrary.
DispatchInGroup(n) ==
    /\ pc = "dispatch" /\ n \in todo
    /\ event' = [event EXCEPT ![n] = "started"]
    /\ DispatchNode(n, FALSE)
    /\ todo' = todo \ {n}
    /\ pending' = pending + 1
    /\ pc' = IF todo = {n} THEN "collect" ELSE "dispatch"
    /\ UNCHANGED <<status, group, collected, attempt, loopVars, dataVars, steps, reports, expired>>

\* A dispatch that returns an error ends the execution: a template that does not
\* render, an enqueue that fails, an in-process node that fails (which also emits
\* node_failed).
DispatchFails(n) ==
    /\ pc = "dispatch" /\ n \in todo
    /\ Kind[n] # "unknown"
    /\ IF Kind[n] \in LocalKinds
       THEN event' = [event EXCEPT ![n] = "failed"] /\ RecordStep(n, 0)
       ELSE event' = [event EXCEPT ![n] = "started"] /\ UNCHANGED steps
    /\ pc' = "fail"
    /\ UNCHANGED <<status, group, todo, pending, collected, attempt, loopVars, dataVars>>
    /\ UNCHANGED <<reports, runs, expired, queueVars, results>>

\* A conditional kills the edges of its dead ports and what hangs on them.
PropagateSkips(r) ==
    LET kill == IF Kind[r.node] = "conditional" THEN DeadPorts(r.node, r.live) ELSE {}
        skips == IF kill = {} THEN skipped ELSE SkipsOf(dead \cup kill, skipped)
    IN  /\ skipped' = skips
        /\ dead' = dead \cup kill \cup UNION {OutEdges(n) : n \in skips \ skipped}

\* processNodeResult: a failed result is reported and otherwise ignored; a
\* completed one stores the outputs, writes the state and, for a conditional,
\* propagates the skips of the ports that did not fire.
ProcessNodeResult(r) ==
    /\ reports' = [reports EXCEPT ![r.node] = @ + 1]
    /\ RecordStep(r.node, 0)
    /\ event' = [event EXCEPT ![r.node] = IF r.ok THEN "completed" ELSE "failed"]
    /\ IF r.ok
       THEN /\ StoreOutputs(r)
            /\ WriteState(r.node, r)
            /\ PropagateSkips(r)
       ELSE UNCHANGED dataVars

\* Mutant: the fan-in loop ends one result early.
CollectOneTooFew ==
    /\ pc = "collect" /\ expired = "no" /\ results # << >>
    /\ ProcessNodeResult(Head(results))
    /\ Pop
    /\ collected' = collected + 1
    /\ attempt' = 0
    /\ IF collected + 1 >= pending - 1
       THEN pc' = "enter" /\ group' = group + 1
       ELSE UNCHANGED <<pc, group>>
    /\ UNCHANGED <<status, todo, pending, loopVars, runs, expired, queueVars>>

\* executeGroup, fan-in: the loop pops as many results as it dispatched nodes,
\* whatever nodes they are of.
Collect ==
    /\ pc = "collect" /\ expired = "no" /\ results # << >>
    /\ ProcessNodeResult(Head(results))
    /\ Pop
    /\ collected' = collected + 1
    /\ attempt' = 0
    /\ IF collected + 1 = pending
       THEN pc' = "enter" /\ group' = group + 1
       ELSE UNCHANGED <<pc, group>>
    /\ UNCHANGED <<status, todo, pending, loopVars, runs, expired, queueVars>>

\* Mutant: the wait is retried without a bound.
WaitForEver ==
    /\ pc \in Waits /\ expired = "no" /\ results = << >>
    /\ attempt' = 0
    /\ UNCHANGED <<pc, status, group, todo, pending, collected, loopVars, dataVars, logVars>>
    /\ UNCHANGED <<runs, expired, queueVars, results>>

\* Mutant: a wait of the loop pass that timed out is taken as an empty result.
WaitThenGoOn ==
    /\ pc \in Waits /\ expired = "no" /\ results = << >>
    /\ IF attempt < MaxBRPOPRetries
       THEN attempt' = attempt + 1 /\ UNCHANGED <<pc, pos>>
       ELSE /\ UNCHANGED attempt
            /\ IF pc = "collect"
               THEN pc' = "fail" /\ UNCHANGED pos
               ELSE pc' = (IF pc = "bodyWait" THEN "body" ELSE "down") /\ pos' = pos + 1
    /\ UNCHANGED <<status, group, todo, pending, collected, loop, iter, loopRan, backValue>>
    /\ UNCHANGED <<dataVars, logVars, runs, expired, queueVars, results>>

\* waitForResult: a BRPOP that times out is retried, MaxBRPOPRetries times.
WaitTimeout ==
    /\ pc \in Waits /\ expired = "no" /\ results = << >>
    /\ IF attempt < MaxBRPOPRetries
       THEN attempt' = attempt + 1 /\ UNCHANGED pc
       ELSE pc' = "fail" /\ UNCHANGED attempt
    /\ UNCHANGED <<status, group, todo, pending, collected, loopVars, dataVars, logVars>>
    /\ UNCHANGED <<runs, expired, queueVars, results>>

\* waitForResult: a context that is done fails the wait at once.
WaitCancelled ==
    /\ pc \in Waits /\ expired # "no"
    /\ pc' = "fail"
    /\ UNCHANGED <<status, group, todo, pending, collected, attempt, loopVars, dataVars, logVars>>
    /\ UNCHANGED <<runs, expired, queueVars, results>>

\* Mutant: the loop over the groups leaves the last one out.
EndForwardPassEarly ==
    /\ pc = "enter" /\ group \in Len(Group) .. Len(Group) + 1
    /\ pc' = "loop"
    /\ UNCHANGED <<status, group, todo, pending, collected, attempt, loopVars, dataVars, logVars>>
    /\ UNCHANGED <<runs, expired, queueVars, results>>

EndForwardPass ==
    /\ pc = "enter" /\ group = Len(Group) + 1
    /\ pc' = "loop"
    /\ UNCHANGED <<status, group, todo, pending, collected, attempt, loopVars, dataVars, logVars>>
    /\ UNCHANGED <<runs, expired, queueVars, results>>

-----------------------------------------------------------------------------
(* executeLoopPass.                                                        *)

Looped == BackEdge[loop]
Current == TopoOrder[pos]
AtEnd == pos = Len(TopoOrder) + 1

\* The nodes the walk along the topological order stops at: those of the body
\* other than inputs, those downstream of it.
Stops == CASE pc = "body" -> BodyOf[loop] \ Inputs
           [] pc = "down" -> DownstreamOf[loop]
           [] OTHER -> {}

\* The condition holds and the limit is not reached: the body's outputs and skips
\* are cleared and its nodes run again.  The dead edges are not cleared.
Iterate ==
    /\ pc = "loop" /\ loop <= Len(BackEdge) /\ iter < MaxIter[Looped]
    /\ iter' = iter + 1
    /\ backValue' = (Looped.src \in done /\ Looped.port \in out[Looped.src].live)
    /\ done' = done \ BodyOf[loop]
    /\ skipped' = skipped \ BodyOf[loop]
    /\ pos' = 1
    /\ pc' = "body"
    /\ UNCHANGED <<status, group, todo, pending, collected, attempt, loop, loopRan, out, dead, state>>
    /\ UNCHANGED <<logVars, runs, expired, queueVars, results>>

\* The condition is false, or the limit is reached.
LeaveLoop ==
    /\ pc = "loop" /\ loop <= Len(BackEdge)
    /\ IF loopRan
       THEN pc' = "down" /\ pos' = 1 /\ UNCHANGED <<loop, iter, loopRan>>
       ELSE loop' = loop + 1 /\ iter' = 0 /\ UNCHANGED <<pc, pos, loopRan>>
    /\ UNCHANGED <<status, group, todo, pending, collected, attempt, backValue, dataVars, logVars>>
    /\ UNCHANGED <<runs, expired, queueVars, results>>

\* The condition does not evaluate.
ConditionFails ==
    /\ pc = "loop" /\ loop <= Len(BackEdge)
    /\ pc' = "fail"
    /\ UNCHANGED <<status, group, todo, pending, collected, attempt, loopVars, dataVars, logVars>>
    /\ UNCHANGED <<runs, expired, queueVars, results>>

\* Nodes the walk does not stop at are stepped over: the body's inputs among them.
StepOver ==
    /\ pc \in {"body", "down"} /\ ~AtEnd /\ Current \notin Stops
    /\ pos' = pos + 1
    /\ UNCHANGED <<orchVars, loop, iter, loopRan, backValue, dataVars, logVars, runs, expired>>
    /\ UNCHANGED <<queueVars, results>>

\* One node is dispatched, and waited for before the next.  The back-edge's value is
\* injected at its target, in the body only.
LoopDispatch ==
    /\ pc \in {"body", "down"} /\ ~AtEnd /\ Current \in Stops
    /\ DispatchNode(Current,
            pc = "body" /\ backValue /\ Looped.dst = Current /\ Looped.dport = "value")
    /\ pc' = IF pc = "body" THEN "bodyWait" ELSE "downWait"
    /\ attempt' = 0
    /\ UNCHANGED <<status, group, todo, pending, collected, loopVars, dataVars, logVars, expired>>

\* The popped result is stored under its own node, and written to the state and
\* reported as the node that was dispatched.  A failed one ends the execution.
BodyCollect ==
    /\ pc = "bodyWait" /\ expired = "no" /\ results # << >>
    /\ Pop
    /\ LET n == Current
           r == Head(results)
       IN  /\ reports' = [reports EXCEPT ![r.node] = @ + 1]
           /\ IF r.ok
              THEN /\ StoreOutputs(r) /\ WriteState(n, r)
                   /\ event' = [event EXCEPT ![n] = "completed"]
                   /\ RecordStep(n, iter)
                   /\ pc' = "body" /\ pos' = pos + 1
              ELSE pc' = "fail" /\ UNCHANGED <<done, out, state, event, steps, pos>>
    /\ UNCHANGED <<status, group, todo, pending, collected, attempt, loop, iter, loopRan, backValue>>
    /\ UNCHANGED <<skipped, dead, runs, expired, queueVars>>

EndIteration ==
    /\ pc = "body" /\ AtEnd
    /\ loopRan' = TRUE
    /\ pc' = "loop"
    /\ UNCHANGED <<status, group, todo, pending, collected, attempt, loop, iter, pos, backValue>>
    /\ UNCHANGED <<dataVars, logVars, runs, expired, queueVars, results>>

\* What is downstream runs again, one node after the other, whether it was skipped
\* or not.  The status of a result is not looked at: a failed one stores nil outputs.
\* No event is emitted.
DownCollect ==
    /\ pc = "downWait" /\ expired = "no" /\ results # << >>
    /\ Pop
    /\ LET r == Head(results) IN
       /\ reports' = [reports EXCEPT ![r.node] = @ + 1]
       /\ StoreOutputs(r)
       /\ WriteState(Current, r)
    /\ pc' = "down" /\ pos' = pos + 1
    /\ UNCHANGED <<status, group, todo, pending, collected, attempt, loop, iter, loopRan, backValue>>
    /\ UNCHANGED <<skipped, dead, event, steps, runs, expired, queueVars>>

EndLoop ==
    /\ pc = "down" /\ AtEnd
    /\ loop' = loop + 1 /\ iter' = 0 /\ loopRan' = FALSE
    /\ pc' = "loop"
    /\ UNCHANGED <<status, group, todo, pending, collected, attempt, pos, backValue, dataVars, logVars>>
    /\ UNCHANGED <<runs, expired, queueVars, results>>

\* A dispatch that returns an error in the loop pass; an in-process node that fails
\* emits node_failed, without the iteration.
LoopDispatchFails ==
    /\ pc \in {"body", "down"} /\ ~AtEnd /\ Current \in Stops
    /\ Kind[Current] \notin {"input", "unknown"}
    /\ IF Kind[Current] \in LocalKinds
       THEN event' = [event EXCEPT ![Current] = "failed"] /\ RecordStep(Current, 0)
       ELSE UNCHANGED <<event, steps>>
    /\ pc' = "fail"
    /\ UNCHANGED <<status, group, todo, pending, collected, attempt, loopVars, dataVars, reports>>
    /\ UNCHANGED <<runs, expired, queueVars, results>>

EndLoopPass ==
    /\ pc = "loop" /\ loop = Len(BackEdge) + 1
    /\ pc' = "finish"
    /\ UNCHANGED <<status, group, todo, pending, collected, attempt, loopVars, dataVars, logVars>>
    /\ UNCHANGED <<runs, expired, queueVars, results>>

-----------------------------------------------------------------------------
(* The end of ProcessTask.  A context that is done makes the Redis and the *)
(* store calls of that context fail; completeExecution and failExecution   *)
(* use the context of the task, not the one of the graph timeout.          *)

DeleteKey ==
    IF expired = "task" THEN UNCHANGED results ELSE results' = << >>

\* The outputs are collected, the result key is deleted and the step writer closed.
CleanUp ==
    /\ pc = "finish"
    /\ DeleteKey
    /\ pc' = "commit"
    /\ UNCHANGED <<status, group, todo, pending, collected, attempt, loopVars, dataVars, logVars>>
    /\ UNCHANGED <<runs, expired, queueVars>>

\* completeExecution.
CompleteExecution ==
    /\ pc = "commit"
    /\ status' = IF expired = "task" THEN status ELSE "completed"
    /\ pc' = "done"
    /\ UNCHANGED <<group, todo, pending, collected, attempt, loopVars, dataVars, logVars>>
    /\ UNCHANGED <<runs, expired, queueVars, results>>

\* failExecution; it returns early when the execution cannot be read.
FailExecution ==
    /\ pc = "fail"
    /\ status' = IF expired = "task" THEN status ELSE "failed"
    /\ DeleteKey
    /\ pc' = "done"
    /\ UNCHANGED <<group, todo, pending, collected, attempt, loopVars, dataVars, logVars>>
    /\ UNCHANGED <<runs, expired, queueVars>>

\* The timeout of the request ends execCtx.
GraphTimesOut ==
    /\ GraphTimeout /\ pc \in Active /\ expired = "no"
    /\ expired' = "graph"
    /\ UNCHANGED <<orchVars, loopVars, dataVars, logVars, runs, queueVars, results>>

\* The timeout of the asynq task: that of the graph plus 60 seconds, or 30 minutes.
TaskTimesOut ==
    /\ pc \in Active
    /\ expired = (IF GraphTimeout THEN "graph" ELSE "no")
    /\ expired' = "task"
    /\ UNCHANGED <<orchVars, loopVars, dataVars, logVars, runs, queueVars, results>>

\* The orchestrator's process dies.  graph:start has MaxRetry(0): nobody takes over.
OrchestratorDies ==
    /\ MayCrash /\ pc \in Active
    /\ pc' = "dead"
    /\ UNCHANGED <<status, group, todo, pending, collected, attempt, loopVars, dataVars, logVars>>
    /\ UNCHANGED <<runs, expired, queueVars, results>>

-----------------------------------------------------------------------------
(* The workers and asynq.                                                  *)

Push(t, ok) ==
    LET set == IF ok THEN OutPort[t.node] ELSE {}
    IN  PushResult([node |-> t.node, run |-> t.run, ok |-> ok, keys |-> set, live |-> set])

\* forEach, subgraph and superagent tasks carry no retry policy.
Retries(n) == IF Kind[n] \in {"llm", "tool", "api_tool"} THEN MaxRetries[n] ELSE 0

Succeed(t) ==
    /\ t \in tasks
    /\ Push(t, TRUE)
    /\ tasks' = tasks \ {t} /\ unacked' = unacked \cup {t}
    /\ UNCHANGED <<orchVars, loopVars, dataVars, logVars, runs, expired, nextId, dups>>

\* shouldRetry: the call failed and attempts are left, so the task is enqueued
\* again with the next attempt and nothing is pushed.
Retry(t) ==
    /\ t \in tasks /\ t.try < Retries(t.node)
    /\ tasks' = (tasks \ {t}) \cup {[t EXCEPT !.id = nextId, !.try = @ + 1]}
    /\ nextId' = nextId + 1
    /\ unacked' = unacked \cup {t}
    /\ UNCHANGED <<orchVars, loopVars, dataVars, logVars, runs, expired, dups, due, results>>

\* The last attempt failed, or the enqueue of the next one.
GiveUp(t) ==
    /\ t \in tasks
    /\ Push(t, FALSE)
    /\ tasks' = tasks \ {t} /\ unacked' = unacked \cup {t}
    /\ UNCHANGED <<orchVars, loopVars, dataVars, logVars, runs, expired, nextId, dups>>

\* The handler has returned nil and asynq marks the task done.
Acknowledge(t) ==
    /\ t \in unacked
    /\ unacked' = unacked \ {t}
    /\ UNCHANGED <<orchVars, loopVars, dataVars, logVars, runs, expired>>
    /\ UNCHANGED <<tasks, nextId, dups, due, results>>

\* The worker dies before that, and asynq delivers the task to another one.
Redeliver(t) ==
    /\ t \in unacked /\ dups < MaxDup
    /\ unacked' = unacked \ {t}
    /\ tasks' = tasks \cup {t}
    /\ dups' = dups + 1
    /\ UNCHANGED <<orchVars, loopVars, dataVars, logVars, runs, expired, nextId, due, results>>

\* Nothing is left to happen.
Quiescent == pc \in Over /\ tasks = {} /\ unacked = {} /\ UNCHANGED vars

-----------------------------------------------------------------------------
ForwardPass ==
    \/ Start \/ EnterGroup \/ Collect \/ EndForwardPass
    \/ \E n \in Node : DispatchInGroup(n) \/ DispatchFails(n)

LoopPass ==
    \/ Iterate \/ LeaveLoop \/ ConditionFails
    \/ StepOver \/ LoopDispatch
    \/ BodyCollect \/ EndIteration \/ DownCollect \/ EndLoop
    \/ LoopDispatchFails \/ EndLoopPass

Orchestrator ==
    \/ ForwardPass \/ LoopPass
    \/ WaitTimeout \/ WaitCancelled
    \/ CleanUp \/ CompleteExecution \/ FailExecution

Worker == \E t \in tasks : Succeed(t) \/ Retry(t) \/ GiveUp(t)
Asynq == \E t \in unacked : Acknowledge(t) \/ Redeliver(t)
Environment == GraphTimesOut \/ TaskTimesOut \/ OrchestratorDies

Next == Orchestrator \/ Worker \/ Asynq \/ Environment \/ Quiescent

\* The orchestrator's goroutine runs, and a BRPOP returns within its timeout.
\* Nothing is assumed of the workers.
Spec == Init /\ [][Next]_vars /\ WF_vars(Orchestrator)

-----------------------------------------------------------------------------
(* Properties.  Those that count results hold when no task that has pushed *)
(* its result is delivered a second time (MaxDup = 0); the run with        *)
(* redeliveries shows that the fan-in depends on it.                       *)

InForwardPass == pc \in {"queued", "enter", "dispatch", "collect"}

\* A node is settled once a result of it was consumed, or it is left out, or given.
Settled(n) == reports[n] > 0 \/ n \in skipped \/ n \in Inputs

\* The barrier between groups (executeGroup): while a group is being executed every
\* node of every earlier group has settled, so no node runs ahead of its inputs.
GroupBarrier ==
    InForwardPass => \A i \in 1 .. group - 1 : \A n \in Group[i] : Settled(n)

\* An edge is really dead: its source is skipped, or a conditional that ran and put
\* no value on that port.
ReallyDead(e) ==
    \/ e.src \in skipped
    \/ Kind[e.src] = "conditional" /\ e.src \in done /\ e.port \notin out[e.src].live

\* Branching (propagateSkips, markSkipped): in the forward pass exactly the nodes all
\* of whose forward edges are really dead are skipped, however the results of the
\* conditionals of a group are ordered, and a skipped node never ran.
SkipsAreExact ==
    InForwardPass => \A n \in Node :
        /\ n \in skipped => runs[n] = 0 /\ \A e \in ForwardIn(n) : ReallyDead(e)
        /\ ForwardIn(n) # {} /\ (\A e \in ForwardIn(n) : ReallyDead(e)) => n \in skipped

\* In an iteration of a loop the nodes already walked over hold the outputs of this
\* iteration's dispatch, not of an earlier one or of another node (executeLoopPass),
\* as long as no result was delivered twice.
FreshBody ==
    pc \in {"body", "bodyWait"} /\ dups = 0 =>
        \A i \in 1 .. pos - 1 : LET n == TopoOrder[i] IN
            n \in BodyOf[loop] \ Inputs => n \in done /\ out[n].run = runs[n]

\* An execution that completes has consumed the result of every dispatch: no task is
\* left that could still push one, and the result list is gone.
CompletedIsClean == status = "completed" => tasks = {} /\ results = << >>

\* The execution ends, whatever the workers do: every wait is bounded.
Finishes == <>(pc \in Over)

\* The state (applyStateWrites): when an execution completes, an array field holds one
\* element for every result that was pushed and every binding of its node whose port the
\* result sets, and no other.  No result is lost or applied twice between the workers, which
\* push in any order, the groups, which pop in any order, and the loop pass, which writes
\* what it popped as the output of the node it waited for; as long as no result was pushed
\* twice.
StateKept ==
    status = "completed" /\ dups = 0 => \A f \in ArrayField :
        /\ ToSet(state[f]) = {d \in due : d[1].field = f}
        /\ IsInjective(state[f])

-----------------------------------------------------------------------------
(* What the documentation says and the code does not do: each is refuted   *)
(* by a run.                                                               *)

\* docs/concepts/execution.md: an execution is completed when all nodes finished
\* successfully.  processNodeResult only logs a failed result.
CompletedMeansSucceeded == status = "completed" => \A n \in Node : event[n] # "failed"

\* docs/concepts/loops.md: each iteration makes an independent routing decision, so no
\* node of the body runs whose branch was not taken.  executeLoopPass never looks at it.
RoutedEachIteration ==
    pc = "bodyWait" =>
        ForwardIn(Current) = {} \/ \E e \in ForwardIn(Current) : ~ReallyDead(e)

-----------------------------------------------------------------------------
\* The abstraction: outside the forward pass every node has settled.
Phase(n) ==
    IF \/ group = Len(Group) + 1
       \/ pc # "queued" /\ n \in Inputs
       \/ n \in skipped \/ reports[n] > 0
    THEN "settled"
    ELSE IF runs[n] > 0 THEN "running" ELSE "idle"

Abstract == INSTANCE Dataflow WITH
    Dep <- [n \in Node |-> Preds(n)],
    phase <- [n \in Node |-> Phase(n)],
    outcome <- CASE status = "completed" -> "completed" [] status = "failed" -> "failed" [] OTHER -> "open"

\* GraphRun implements Dataflow.
ImplementsDataflow == Abstract!Spec

=============================================================================
