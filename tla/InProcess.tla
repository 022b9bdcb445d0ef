----------------------------- MODULE InProcess ------------------------------
(***************************************************************************)
(* One execution of a validated graph inside a single process              *)
(* (engine/orchestrator): the inner graphs of foreach and subgraph nodes.  *)
(* The nodes of a group run in goroutines that share the maps of Execute   *)
(* under one mutex; the loops of the back-edges run afterwards, one node   *)
(* at a time.                                                              *)
(*                                                                         *)
(* The loop that starts the goroutines of a group reads the skipped map    *)
(* without the mutex, while a conditional of the same group may be writing *)
(* it.  Go's maps detect that and end the process; when they do not, the   *)
(* read sees the map before or after the write.                            *)
(***************************************************************************)
EXTENDS GraphData

CONSTANTS
    Items,          \* the length of a foreach node's "items"
    Concurrency,    \* its concurrency, 0 for no limit
    Abort           \* on_item_error is "abort"

ASSUME InProcessAssumption ==
    /\ Items \in Nat /\ Concurrency \in Nat /\ Abort \in BOOLEAN

VARIABLES
    pc,         \* where Execute is
    group,      \* index of the group being executed
    todo,       \* its nodes the loop has not come to
    task,       \* Node -> where the node's goroutine is
    writing,    \* the nodes the holder of the mutex is adding to skipped
    item,       \* foreach node -> where each item's goroutine is
    loop,       \* index of the back-edge being looped
    iter,       \* its iteration
    loopRan,    \* it ran at least once
    walk,       \* the nodes still to run again
    backValue,  \* the back-edge's source port carried a value
    have,       \* nodes with an entry in nodeOutputs
    out,        \* Node -> that entry: the run it comes from and its live ports
    seen,       \* Node -> the values its last run resolved: <<edge, run of the source>>
    runs,       \* Node -> how often it was run
    skipped, dead,
    state,      \* Field -> the writes it holds, as <<binding, run>>
    log         \* Node -> its step records: the status, the run, the ports it set

flowVars == <<pc, group, todo, task, writing, item>>
loopVars == <<loop, iter, loopRan, walk, backValue>>
dataVars == <<have, out, seen, runs, skipped, dead, state, log>>
vars == <<flowVars, loopVars, dataVars>>

None == "none"
Each == {n \in Node : Kind[n] = "foreach"}
ItemStates == {"new", "spawned", "running", "ok", "failed", "left"}

TypeOK ==
    /\ pc \in {"begin", "groups", "loops", "body", "down", "completed", "failed", "died"}
    /\ group \in 1 .. Len(Group) + 1 /\ todo \subseteq Node
    /\ task \in [Node -> {None, "started", "running", "propagate", "writing", "ended"}]
    /\ writing \subseteq Node
    /\ item \in [Each -> [1 .. Items -> ItemStates]]
    /\ loop \in 1 .. Len(BackEdge) + 1 /\ iter \in Nat
    /\ loopRan \in BOOLEAN /\ backValue \in BOOLEAN /\ walk \subseteq Node
    /\ have \subseteq Node /\ out \in [Node -> [run : Nat, live : SUBSET Port]]
    /\ seen \in [Node -> SUBSET (Edge \X Nat)] /\ runs \in [Node -> Nat]
    /\ skipped \subseteq Node /\ dead \subseteq Edge
    /\ state \in [Field -> Seq(StateWrite \X Nat)]
    /\ log \in [Node -> Seq([status : {"completed", "failed", "skipped"},
                             run : Nat, keys : SUBSET Port])]

-----------------------------------------------------------------------------
Is(t) == {n \in Node : task[n] = t}
Unlocked == Is("writing") = {}

\* resolveInputs, the edges: what the outputs of the sources carry now.
Resolved(n) ==
    {<<e, out[e.src].run>> : e \in {f \in ForwardIn(n) : f.src \in have /\ f.port \in out[f.src].live}}

\* A conditional sends its "value" input to one port or to none; without a value
\* the port that fires carries nil.
ValueReaches(n, values, back) ==
    n \in HasValue \/ back \/ \E v \in values : v[1].dport = "value"

\* The ports of a run that carry a value.
Live(n, keys, values, back) ==
    IF Kind[n] = "conditional" /\ ~ValueReaches(n, values, back) THEN {} ELSE keys

Logged(n, s, run, keys) ==
    log' = [log EXCEPT ![n] = Append(@, [status |-> s, run |-> run, keys |-> keys])]

\* Mutant: a binding replaces what an array field holds.
WriteReplacing(n, run, keys) ==
    state' = Written([f \in Field |-> IF Given(n, f, keys) = {} THEN state[f] ELSE << >>], n, run, keys)

WriteState(n, run, keys) == state' = Written(state, n, run, keys)

\* The outputs, the state and the step of a run, in one critical section.
Store(n, run, keys, live) ==
    /\ have' = have \cup {n}
    /\ out' = [out EXCEPT ![n] = [run |-> run, live |-> live]]
    /\ WriteState(n, run, keys)
    /\ Logged(n, "completed", run, keys)

-----------------------------------------------------------------------------
Init ==
    /\ pc = "begin" /\ group = 1 /\ todo = {}
    /\ task = [n \in Node |-> None] /\ writing = {}
    /\ item = [n \in Each |-> [i \in 1 .. Items |-> "new"]]
    /\ loop = 1 /\ iter = 0 /\ loopRan = FALSE /\ walk = {} /\ backValue = FALSE
    /\ have = {} /\ out = [n \in Node |-> [run |-> 0, live |-> OutPort[n]]]
    /\ seen = [n \in Node |-> {}] /\ runs = [n \in Node |-> 0]
    /\ skipped = {} /\ dead = {}
    /\ state = [f \in Field |-> << >>] /\ log = [n \in Node |-> << >>]

\* The outputs of the input nodes are the inputs of the execution.
Begin ==
    /\ pc = "begin"
    /\ have' = Inputs
    /\ pc' = "groups" /\ todo' = Group[1]
    /\ UNCHANGED <<group, task, writing, item, loopVars, out, seen, runs, skipped, dead, state, log>>

\* The loop over the group comes to a node, in the order of a Go map: inputs are passed
\* over, a node found in skipped is recorded, any other gets a goroutine.  The map is
\* read as it is, also while a conditional writes it.
Visit(n) ==
    /\ pc = "groups" /\ n \in todo
    /\ todo' = todo \ {n}
    /\ \/ /\ Kind[n] = "input"
          /\ UNCHANGED <<task, log>>
       \/ /\ Kind[n] # "input" /\ n \in skipped \cup writing
          /\ Logged(n, "skipped", 0, {})
          /\ UNCHANGED task
       \/ /\ Kind[n] # "input" /\ n \notin skipped
          /\ task' = [task EXCEPT ![n] = "started"]
          /\ UNCHANGED log
    /\ UNCHANGED <<pc, group, writing, item, loopVars, have, out, seen, runs, skipped, dead, state>>

\* The same read, found to be concurrent with a write: the runtime ends the process.
MapRace(n) ==
    /\ pc = "groups" /\ n \in todo /\ Kind[n] # "input"
    /\ ~Unlocked
    /\ pc' = "died"
    /\ UNCHANGED <<group, todo, task, writing, item, loopVars, dataVars>>

\* Mutant: the group is left as soon as the outputs of its nodes are stored.
NextGroupEarly ==
    /\ pc = "groups" /\ todo = {} /\ Is("started") \cup Is("running") = {}
    /\ IF group < Len(Group)
       THEN group' = group + 1 /\ todo' = Group[group + 1] /\ UNCHANGED pc
       ELSE pc' = "loops" /\ group' = group + 1 /\ UNCHANGED todo
    /\ UNCHANGED <<task, writing, item, loopVars, dataVars>>

\* wg.Wait.
NextGroup ==
    /\ pc = "groups" /\ todo = {} /\ Is(None) \cup Is("ended") = Node
    /\ IF group < Len(Group)
       THEN group' = group + 1 /\ todo' = Group[group + 1] /\ UNCHANGED pc
       ELSE pc' = "loops" /\ group' = group + 1 /\ UNCHANGED todo
    /\ UNCHANGED <<task, writing, item, loopVars, dataVars>>

-----------------------------------------------------------------------------
(* The goroutine of a node.                                                *)

\* resolveInputs and the snapshot of the state.  A node of an unknown type is
\* recorded as failed, without an event.
Resolve(n) ==
    /\ pc = "groups" /\ task[n] = "started" /\ Unlocked
    /\ seen' = [seen EXCEPT ![n] = Resolved(n)]
    /\ IF Kind[n] = "unknown"
       THEN task' = [task EXCEPT ![n] = "ended"] /\ Logged(n, "failed", runs[n], {}) /\ UNCHANGED runs
       ELSE /\ task' = [task EXCEPT ![n] = "running"] /\ UNCHANGED log
            /\ runs' = [runs EXCEPT ![n] = @ + 1]
    /\ UNCHANGED <<pc, group, todo, writing, item, loopVars, have, out, skipped, dead, state>>

AnyFailed(n) == \E i \in 1 .. Items : item[n][i] = "failed"
ItemsDone(n) == \A i \in 1 .. Items : item[n][i] \in {"ok", "failed", "left"}

\* A foreach node fails at once when "items" is missing or no array, and after the items
\* when one of them failed and that is to abort it.
MayFail(n) ==
    n \in Each => \/ \A i \in 1 .. Items : item[n][i] = "new"
                  \/ ItemsDone(n) /\ Abort /\ AnyFailed(n)
MaySucceed(n) ==
    /\ Kind[n] # "human_in_the_loop"
    /\ n \in Each => ItemsDone(n) /\ ~(Abort /\ AnyFailed(n))

\* The executor returns an error: it is recorded and the execution goes on.
NodeFails(n) ==
    /\ pc = "groups" /\ task[n] = "running" /\ Unlocked
    /\ MayFail(n)
    /\ Logged(n, "failed", runs[n], {})
    /\ task' = [task EXCEPT ![n] = "ended"]
    /\ UNCHANGED <<pc, group, todo, writing, item, loopVars>>
    /\ UNCHANGED <<have, out, seen, runs, skipped, dead, state>>

NodeSucceeds(n) ==
    /\ pc = "groups" /\ task[n] = "running" /\ Unlocked
    /\ MaySucceed(n)
    /\ \E keys \in Keys(n) : Store(n, runs[n], keys, Live(n, keys, seen[n], FALSE))
    /\ task' = [task EXCEPT ![n] = IF Kind[n] = "conditional" THEN "propagate" ELSE "ended"]
    /\ UNCHANGED <<pc, group, todo, writing, item, loopVars, seen, runs, skipped, dead>>

Killed(n) == DeadPorts(n, out[n].live)

\* propagateSkips takes the mutex again, after the outputs were stored and reported.
Propagate(n) ==
    /\ pc = "groups" /\ task[n] = "propagate" /\ Unlocked
    /\ task' = [task EXCEPT ![n] = "writing"]
    /\ writing' = IF Killed(n) = {} THEN {} ELSE SkipsOf(dead \cup Killed(n), skipped) \ skipped
    /\ UNCHANGED <<pc, group, todo, item, loopVars, dataVars>>

Propagated(n) ==
    /\ pc = "groups" /\ task[n] = "writing"
    /\ task' = [task EXCEPT ![n] = "ended"]
    /\ skipped' = skipped \cup writing
    /\ dead' = dead \cup Killed(n) \cup UNION {OutEdges(m) : m \in writing}
    /\ writing' = {}
    /\ UNCHANGED <<pc, group, todo, item, loopVars, have, out, seen, runs, state, log>>

-----------------------------------------------------------------------------
(* The goroutines of a foreach node's items.                               *)

Running(n) == pc = "groups" /\ task[n] = "running"
ItemGoes(n, i, s) ==
    /\ item' = [item EXCEPT ![n][i] = s]
    /\ UNCHANGED <<pc, group, todo, task, writing, loopVars, dataVars>>

\* The loop over the items, in order; once an item has failed it may break.
Spawn(n, i) ==
    /\ Running(n) /\ item[n][i] = "new" /\ \A j \in 1 .. i - 1 : item[n][j] # "new"
    /\ ItemGoes(n, i, IF Abort /\ AnyFailed(n) THEN "left" ELSE "spawned")

\* The item has the semaphore and looks once more for a failure.
StartItem(n, i) ==
    /\ Running(n) /\ item[n][i] = "spawned"
    /\ Concurrency = 0 \/ Cardinality({j \in 1 .. Items : item[n][j] = "running"}) < Concurrency
    /\ ItemGoes(n, i, IF Abort /\ AnyFailed(n) THEN "left" ELSE "running")

EndItem(n, i, s) ==
    /\ Running(n) /\ item[n][i] = "running"
    /\ ItemGoes(n, i, s)

-----------------------------------------------------------------------------
(* executeLoops.                                                           *)

Looped == BackEdge[loop]

\* What runs again runs in topological order.
First == CHOOSE n \in walk : \A m \in walk : IndexOf(n) <= IndexOf(m)

\* The condition holds: the back-edge's value is kept, the outputs and the skips of the
\* body are cleared - its input nodes' outputs with them - and the body runs again.
Iterate ==
    /\ pc = "loops" /\ loop <= Len(BackEdge) /\ iter < MaxIter[Looped]
    /\ iter' = iter + 1
    /\ backValue' = (Looped.src \in have /\ Looped.port \in out[Looped.src].live)
    /\ have' = have \ BodyOf[loop]
    /\ skipped' = skipped \ BodyOf[loop]
    /\ walk' = BodyOf[loop] \ Inputs
    /\ pc' = "body"
    /\ UNCHANGED <<group, todo, task, writing, item, loop, loopRan>>
    /\ UNCHANGED <<out, seen, runs, dead, state, log>>

EndIteration ==
    /\ pc = "body" /\ walk = {}
    /\ loopRan' = TRUE /\ pc' = "loops"
    /\ UNCHANGED <<group, todo, task, writing, item, loop, iter, walk, backValue, dataVars>>

\* Mutant: only what the body feeds directly runs again.
LeaveLoopDirect ==
    /\ pc = "loops" /\ loop <= Len(BackEdge)
    /\ IF loopRan
       THEN /\ pc' = "down"
            /\ walk' = {n \in DownstreamOf[loop] : Preds(n) \cap BodyOf[loop] # {}}
            /\ UNCHANGED <<loop, iter>>
       ELSE loop' = loop + 1 /\ iter' = 0 /\ UNCHANGED <<pc, walk>>
    /\ UNCHANGED <<group, todo, task, writing, item, loopRan, backValue, dataVars>>

\* The condition is false or the limit reached: what is downstream runs again.
LeaveLoop ==
    /\ pc = "loops" /\ loop <= Len(BackEdge)
    /\ IF loopRan
       THEN pc' = "down" /\ walk' = DownstreamOf[loop] /\ UNCHANGED <<loop, iter>>
       ELSE loop' = loop + 1 /\ iter' = 0 /\ UNCHANGED <<pc, walk>>
    /\ UNCHANGED <<group, todo, task, writing, item, loopRan, backValue, dataVars>>

EndDownstream ==
    /\ pc = "down" /\ walk = {}
    /\ loop' = loop + 1 /\ iter' = 0 /\ loopRan' = FALSE /\ pc' = "loops"
    /\ UNCHANGED <<group, todo, task, writing, item, walk, backValue, dataVars>>

\* A node of the body, or downstream, runs again, in line: skipped is not looked at.
\* The back-edge's value is given to its target.
RunAgain ==
    /\ pc \in {"body", "down"} /\ walk # {}
    /\ LET n == First IN
       /\ Kind[n] \notin {"unknown", "human_in_the_loop"}
       /\ seen' = [seen EXCEPT ![n] = Resolved(n)]
       /\ runs' = [runs EXCEPT ![n] = @ + 1]
       /\ \E keys \in Keys(n) :
            Store(n, runs[n] + 1, keys, Live(n, keys, Resolved(n),
                pc = "body" /\ backValue /\ Looped.dst = n /\ Looped.dport = "value"))
    /\ walk' = walk \ {First}
    /\ UNCHANGED <<flowVars, loop, iter, loopRan, backValue, skipped, dead>>

\* Here a node that fails ends the execution; one of an unknown type leaves no step.
RunAgainFails ==
    /\ pc \in {"body", "down"} /\ walk # {}
    /\ IF Kind[First] = "unknown" THEN UNCHANGED log ELSE Logged(First, "failed", runs[First], {})
    /\ pc' = "failed"
    /\ UNCHANGED <<group, todo, task, writing, item, loopVars>>
    /\ UNCHANGED <<have, out, seen, runs, skipped, dead, state>>

ConditionFails ==
    /\ pc = "loops" /\ loop <= Len(BackEdge)
    /\ pc' = "failed"
    /\ UNCHANGED <<group, todo, task, writing, item, loopVars, dataVars>>

\* The outputs are collected; nothing is asked about nodes that failed.
Complete ==
    /\ pc = "loops" /\ loop > Len(BackEdge)
    /\ pc' = "completed"
    /\ UNCHANGED <<group, todo, task, writing, item, loopVars, dataVars>>

Over == pc \in {"completed", "failed", "died"} /\ UNCHANGED vars

-----------------------------------------------------------------------------
GroupStep ==
    \/ Begin
    \/ \E n \in Node : Visit(n) \/ MapRace(n)
    \/ NextGroup

Goroutine(n) == Resolve(n) \/ NodeFails(n) \/ NodeSucceeds(n) \/ Propagate(n) \/ Propagated(n)

ItemStep ==
    \E n \in Each : \E i \in 1 .. Items :
        Spawn(n, i) \/ StartItem(n, i) \/ EndItem(n, i, "ok") \/ EndItem(n, i, "failed")

LoopStep ==
    \/ Iterate \/ EndIteration \/ LeaveLoop \/ EndDownstream
    \/ RunAgain \/ RunAgainFails \/ ConditionFails \/ Complete

Next == GroupStep \/ (\E n \in Node : Goroutine(n)) \/ ItemStep \/ LoopStep \/ Over

Spec == Init /\ [][Next]_vars

-----------------------------------------------------------------------------
\* The unlocked read of skipped (Execute, loop over a group) gives the same answer before,
\* during and after any write of it that can be under way: what a conditional of the group
\* adds is never a node the loop has still to come to.  Only the crash is left of the race.
\* It takes a graph whose loops are entered by forward edges: where the target of a
\* back-edge has no other, the end of the loop skips it, and the group with it.
SkipReadsAgree == group <= Len(Group) => writing \cap Group[group] = {}

\* What the step records of n say that field f has been given.
Due(f, n) == UNION {Given(n, f, s.keys) \X {s.run} : s \in ToSet(log[n])}

\* An array field holds an element for every run that completed and every binding of its
\* node to the field whose port the run set, through all iterations of the loops, each of
\* them once and nothing else, however the goroutines of a group interleave
\* (applyStateWrites, the critical section of a completed node).
AppendsKept ==
    \A f \in ArrayField :
        /\ ToSet(state[f]) = UNION {Due(f, n) : n \in Node}
        /\ IsInjective(state[f])

\* When the execution completes, no node is left with a value its source has replaced:
\* whatever a loop changed, all that depends on it ran again afterwards (executeLoops).
Consistent ==
    pc = "completed" =>
        \A n \in have \ Inputs : \A s \in seen[n] : s[2] = out[s[1].src].run

\* loops.go, "Skip input nodes -- they keep their original outputs."
InputsKept == pc # "begin" => Inputs \subseteq have

-----------------------------------------------------------------------------
Phase(n) ==
    IF \/ group > Len(Group)
       \/ (pc # "begin" /\ n \in Inputs) \/ n \in skipped \/ task[n] \in {"writing", "ended"}
       \/ Kind[n] # "conditional" /\ task[n] = "propagate"
    THEN "settled"
    ELSE IF task[n] # None THEN "running" ELSE "idle"

Abstract == INSTANCE Dataflow WITH
    Dep <- [n \in Node |-> Preds(n)],
    phase <- [n \in Node |-> Phase(n)],
    outcome <- CASE pc = "completed" -> "completed" [] pc = "failed" -> "failed" [] OTHER -> "open"

\* The in-process orchestrator keeps the same promise as the distributed one.
ImplementsDataflow == Abstract!Spec

=============================================================================
