--------------------------- MODULE GraphRunProofs ---------------------------
(***************************************************************************)
(* Proofs about one execution of any validated graph: the types; and, as   *)
(* long as asynq delivers no task again that has pushed its result, that   *)
(* no group starts before every node of the groups before it has settled,  *)
(* that a completed execution leaves nothing behind, which nodes the       *)
(* branches leave out, what an iteration of a loop holds, what is appended *)
(* to the state, and that the orchestrator implements Dataflow.            *)
(***************************************************************************)
EXTENDS GraphRun, SequenceTheorems, FiniteSetTheorems, TLAPS

USE GraphAssumption, RunAssumption

\* The assumptions as the proofs use them.
LEMMA GraphFacts ==
    /\ Len(Group) \in Nat /\ Len(TopoOrder) \in Nat /\ Len(BackEdge) \in Nat
    /\ \A i \in 1 .. Len(Group) : Group[i] \subseteq Node
    /\ \A i \in 1 .. Len(TopoOrder) : TopoOrder[i] \in Node
    /\ \A i \in 1 .. Len(BackEdge) : BackEdge[i] \in Edge
    /\ \A n \in Node : OutPort[n] \in SUBSET Port
<1>1. Group \in Seq(SUBSET Node) /\ TopoOrder \in Seq(Node) /\ BackEdge \in Seq(Edge)
    BY DEF GraphAssumption
<1>2. \A n \in Node : OutPort[n] \in SUBSET Port
    BY DEF GraphAssumption
<1> QED
    BY <1>1, <1>2

-----------------------------------------------------------------------------
(* Types.                                                                  *)

\* Where the indices point while a group or a loop is being executed.
InRange ==
    /\ pc \in {"dispatch", "collect"} => group <= Len(Group)
    /\ pc \in {"body", "bodyWait", "down", "downWait"} => loop <= Len(BackEdge)
    /\ pc \in {"bodyWait", "downWait"} => pos <= Len(TopoOrder)

ControlTypes ==
    /\ pc \in {"queued"} \cup Active \cup Over
    /\ status \in {"pending", "running", "completed", "failed"}
    /\ group \in 1 .. Len(Group) + 1
    /\ todo \subseteq Node
    /\ pending \in Nat /\ collected \in Nat /\ attempt \in 0 .. MaxBRPOPRetries
    /\ loop \in 1 .. Len(BackEdge) + 1 /\ iter \in Nat /\ pos \in 1 .. Len(TopoOrder) + 1
    /\ loopRan \in BOOLEAN /\ backValue \in BOOLEAN
    /\ expired \in {"no", "graph", "task"}

\* An element of an array field: the binding it was written by, and the run.
Entry == StateWrite \X Nat

DataTypes ==
    /\ done \subseteq Node
    /\ out \in [Node -> [run : Nat, live : SUBSET Port]]
    /\ skipped \subseteq Node /\ dead \subseteq Edge
    /\ DOMAIN state = Field /\ \A f \in ArrayField : state[f] \in Seq(Entry)
    /\ event \in [Node -> {"idle", "started", "completed", "failed", "skipped"}]
    /\ steps \subseteq Node \X Nat
    /\ reports \in [Node -> Nat]

QueueTypes ==
    /\ runs \in [Node -> Nat]
    /\ tasks \subseteq Task /\ unacked \subseteq Task
    /\ nextId \in Nat /\ dups \in Nat
    /\ results \in Seq(Result) /\ due \subseteq Entry

TypeInv == ControlTypes /\ InRange /\ DataTypes /\ QueueTypes

LEMMA TypeParts == TypeOK <=> ControlTypes /\ DataTypes /\ QueueTypes
BY DEF TypeOK, ControlTypes, DataTypes, QueueTypes, Entry

LEMMA InitTypes == Init => TypeInv
<1> SUFFICES ASSUME Init PROVE TypeInv
    OBVIOUS
<1>1. ControlTypes
    <2>1. loopRan \in BOOLEAN /\ backValue \in BOOLEAN
        BY DEF Init
    <2>2. group \in 1 .. Len(Group) + 1 /\ loop \in 1 .. Len(BackEdge) + 1
        BY GraphFacts DEF Init
    <2>3. pos \in 1 .. Len(TopoOrder) + 1 /\ attempt \in 0 .. MaxBRPOPRetries
        BY GraphFacts DEF Init, RunAssumption
    <2> QED
        BY <2>1, <2>2, <2>3 DEF Init, ControlTypes
<1>2. InRange
    BY DEF Init, InRange
<1>3. DataTypes
    <2>1. DOMAIN state = Field /\ \A f \in ArrayField : state[f] \in Seq(Entry)
        BY DEF Init, GraphAssumption
    <2> QED
        BY <2>1, GraphFacts DEF Init, DataTypes
<1>4. QueueTypes
    BY DEF Init, QueueTypes
<1> QED
    BY <1>1, <1>2, <1>3, <1>4 DEF TypeInv

\* What a run sets are ports, with a value or without.
LEMMA KeysTyped ==
    ASSUME NEW n \in Node, NEW keys \in Keys(n), NEW back
    PROVE  keys \in SUBSET Port /\ Live(n, keys, back) \in SUBSET Port
<1>1. OutPort[n] \in SUBSET Port
    BY GraphFacts
<1>2. keys \in SUBSET Port
    BY <1>1 DEF Keys
<1> QED
    BY <1>2 DEF Live

\* What an in-process run pushes.
LocalResult(n, keys, back) ==
    [node |-> n, run |-> runs[n] + 1, ok |-> TRUE, keys |-> keys, live |-> Live(n, keys, back)]

\* The task of a dispatch.
NewTask(n) == [id |-> nextId, node |-> n, run |-> runs[n] + 1, try |-> 0]

\* The fan-out of a node: a task, a result of its own, or nothing.
LEMMA DispatchCases ==
    ASSUME NEW n, NEW back, DispatchNode(n, back)
    PROVE  /\ runs' = [runs EXCEPT ![n] = @ + 1] /\ unacked' = unacked /\ dups' = dups
           /\ \/ tasks' = tasks \cup {NewTask(n)} /\ nextId' = nextId + 1 /\ UNCHANGED <<results, due>>
              \/ /\ \E keys \in Keys(n) : PushResult(LocalResult(n, keys, back))
                 /\ UNCHANGED <<tasks, nextId>>
              \/ UNCHANGED <<tasks, nextId, results, due>>
BY DEF DispatchNode, LocalResult, NewTask

LEMMA PushedTyped ==
    ASSUME TypeInv, NEW r \in Result, PushResult(r)
    PROVE  results' \in Seq(Result) /\ due' \subseteq Entry
<1>1. r.run \in Nat
    BY DEF Result
<1>2. Due(r) \subseteq Entry
    BY <1>1 DEF Due, Entry
<1>3. results \in Seq(Result) /\ results' = Append(results, r)
    BY DEF PushResult, TypeInv, QueueTypes
<1>4. due \subseteq Entry /\ due' = due \cup Due(r)
    BY DEF PushResult, TypeInv, QueueTypes
<1>5. results' \in Seq(Result)
    BY <1>3
<1> QED
    BY <1>2, <1>4, <1>5

LEMMA DispatchTypes ==
    ASSUME TypeInv, NEW n \in Node, NEW back, DispatchNode(n, back)
    PROVE  QueueTypes'
<1>0. runs' = [runs EXCEPT ![n] = @ + 1]
    BY DispatchCases
<1>1. runs[n] + 1 \in Nat /\ runs' \in [Node -> Nat]
    BY <1>0 DEF TypeInv, QueueTypes
<1>2. unacked' = unacked /\ dups' = dups
    BY DispatchCases
<1>3. CASE tasks' = tasks \cup {NewTask(n)} /\ nextId' = nextId + 1 /\ UNCHANGED <<results, due>>
    BY <1>1, <1>2, <1>3 DEF TypeInv, QueueTypes, Task, NewTask
<1>4. CASE /\ \E keys \in Keys(n) : PushResult(LocalResult(n, keys, back))
           /\ UNCHANGED <<tasks, nextId>>
    <2>1. PICK keys \in Keys(n) : PushResult(LocalResult(n, keys, back))
        BY <1>4
    <2>2. LocalResult(n, keys, back) \in Result
        BY <1>1, KeysTyped DEF LocalResult, Result
    <2>3. results' \in Seq(Result) /\ due' \subseteq Entry
        BY <2>1, <2>2, PushedTyped
    <2> QED
        BY <1>1, <1>2, <1>4, <2>3 DEF TypeInv, QueueTypes
<1>5. CASE UNCHANGED <<tasks, nextId, results, due>>
    BY <1>1, <1>2, <1>5 DEF TypeInv, QueueTypes
<1> QED
    BY <1>3, <1>4, <1>5, DispatchCases

\* The node the loop pass looks at.
LEMMA CurrentIsNode ==
    ASSUME TypeInv, pos <= Len(TopoOrder)
    PROVE  Current \in Node
BY GraphFacts DEF TypeInv, ControlTypes, Current

\* The forward pass and its waits keep the program counter and the indices in range.
LEMMA ForwardControl ==
    ASSUME TypeInv, ForwardPass \/ WaitTimeout \/ WaitCancelled
    PROVE  ControlTypes' /\ InRange'
<1> USE GraphFacts DEF TypeInv, ControlTypes, InRange, Active, Waits, Over, loopVars
<1>1. CASE Start
    BY <1>1 DEF Start
<1>2. CASE EnterGroup
    <2>1. Runnable(group) \subseteq Node
        BY <1>2 DEF EnterGroup, Runnable
    <2> QED
        BY <1>2, <2>1, 0 \in 0 .. MaxBRPOPRetries DEF EnterGroup, RunAssumption
<1>3. CASE Collect
    BY <1>3, 0 \in 0 .. MaxBRPOPRetries DEF Collect, RunAssumption
<1>4. CASE EndForwardPass
    BY <1>4 DEF EndForwardPass
<1>5. ASSUME NEW n \in Node, DispatchInGroup(n) PROVE ControlTypes' /\ InRange'
    BY <1>5 DEF DispatchInGroup
<1>6. ASSUME NEW n \in Node, DispatchFails(n) PROVE ControlTypes' /\ InRange'
    BY <1>6 DEF DispatchFails
<1>7. CASE WaitTimeout
    BY <1>7 DEF WaitTimeout, RunAssumption
<1>8. CASE WaitCancelled
    BY <1>8 DEF WaitCancelled
<1> QED
    BY <1>1, <1>2, <1>3, <1>4, <1>5, <1>6, <1>7, <1>8 DEF ForwardPass

\* So does the loop pass.
LEMMA LoopControl ==
    ASSUME TypeInv, LoopPass
    PROVE  ControlTypes' /\ InRange'
<1> USE GraphFacts DEF TypeInv, ControlTypes, InRange, Active, Waits, Over, loopVars, orchVars
<1>1. CASE Iterate
    <2>1. backValue' \in BOOLEAN
        BY <1>1 DEF Iterate
    <2>2. pos' \in 1 .. Len(TopoOrder) + 1
        BY <1>1 DEF Iterate
    <2> QED
        BY <1>1, <2>1, <2>2 DEF Iterate
<1>2. CASE LeaveLoop
    BY <1>2 DEF LeaveLoop
<1>3. CASE ConditionFails
    BY <1>3 DEF ConditionFails
<1>4. CASE StepOver
    BY <1>4 DEF StepOver, AtEnd
<1>5. CASE LoopDispatch
    <2>1. attempt' \in 0 .. MaxBRPOPRetries
        BY <1>5 DEF LoopDispatch, RunAssumption
    <2> QED
        BY <1>5, <2>1 DEF LoopDispatch, AtEnd
<1>6. CASE BodyCollect
    <2>1. /\ pos' \in 1 .. Len(TopoOrder) + 1
          /\ \/ pc' = "body" /\ pc = "bodyWait"
             \/ pc' = "fail"
        BY <1>6 DEF BodyCollect
    <2>2. UNCHANGED <<status, group, todo, pending, collected, attempt, loop, iter, loopRan, backValue, expired>>
        BY <1>6 DEF BodyCollect
    <2>3. InRange'
        BY <2>1, <2>2
    <2>4. ControlTypes'
        BY <2>1, <2>2
    <2> QED
        BY <2>3, <2>4
<1>7. CASE EndIteration
    BY <1>7 DEF EndIteration
<1>8. CASE DownCollect
    BY <1>8 DEF DownCollect
<1>9. CASE EndLoop
    <2>1. loop' \in 1 .. Len(BackEdge) + 1
        BY <1>9 DEF EndLoop
    <2>2. loopRan' \in BOOLEAN
        BY <1>9 DEF EndLoop
    <2>3. InRange'
        BY <1>9 DEF EndLoop
    <2> QED
        BY <1>9, <2>1, <2>2, <2>3 DEF EndLoop
<1>10. CASE LoopDispatchFails
    BY <1>10 DEF LoopDispatchFails
<1>11. CASE EndLoopPass
    BY <1>11 DEF EndLoopPass
<1> QED
    BY <1>1, <1>2, <1>3, <1>4, <1>5, <1>6, <1>7, <1>8, <1>9, <1>10, <1>11 DEF LoopPass

\* And the end of the execution, the workers and the environment.
LEMMA OtherControl ==
    ASSUME TypeInv,
           \/ CleanUp \/ CompleteExecution \/ FailExecution \/ Environment
           \/ Worker \/ Asynq \/ UNCHANGED vars
    PROVE  ControlTypes' /\ InRange'
<1> USE DEF TypeInv, ControlTypes, InRange, Active, Waits, Over, loopVars, orchVars
<1>1. CASE CleanUp
    BY <1>1 DEF CleanUp
<1>2. CASE CompleteExecution
    BY <1>2 DEF CompleteExecution
<1>3. CASE FailExecution
    BY <1>3 DEF FailExecution
<1>4. CASE Environment
    <2>1. CASE GraphTimesOut
        BY <2>1 DEF GraphTimesOut
    <2>2. CASE TaskTimesOut
        BY <2>2 DEF TaskTimesOut
    <2>3. CASE OrchestratorDies
        BY <2>3 DEF OrchestratorDies
    <2> QED
        BY <1>4, <2>1, <2>2, <2>3 DEF Environment
<1>5. CASE Worker \/ Asynq \/ UNCHANGED vars
    <2>1. UNCHANGED <<orchVars, loopVars, expired>>
        <3>1. CASE Worker
            BY <3>1 DEF Worker, Succeed, Retry, GiveUp
        <3>2. CASE Asynq
            BY <3>2 DEF Asynq, Acknowledge, Redeliver
        <3>3. CASE UNCHANGED vars
            BY <3>3 DEF vars
        <3> QED
            BY <1>5, <3>1, <3>2, <3>3
    <2> QED
        BY <2>1
<1> QED
    BY <1>1, <1>2, <1>3, <1>4, <1>5

\* A result that is in the list.
LEMMA HeadTypes ==
    ASSUME TypeInv, results # << >>
    PROVE  /\ Head(results) \in Result /\ Tail(results) \in Seq(Result)
           /\ Head(results).node \in Node
           /\ Head(results).run \in Nat /\ Head(results).live \in SUBSET Port
           /\ Head(results).keys \in SUBSET Port
<1>1. Head(results) \in Result /\ Tail(results) \in Seq(Result)
    BY DEF TypeInv, QueueTypes
<1> QED
    BY <1>1 DEF Result

\* A sequence is a function on the numbers up to its length.
LEMMA SeqFacts ==
    ASSUME NEW S, NEW s \in Seq(S)
    PROVE  /\ Len(s) \in Nat /\ DOMAIN s = 1 .. Len(s) /\ s \in [1 .. Len(s) -> S]
           /\ ToSet(s) \subseteq S
BY LenProperties DEF ToSet

\* Joined lists hold what the two hold, and hold it once if they do and share nothing.
LEMMA Joined ==
    ASSUME NEW S, NEW s \in Seq(S), NEW t \in Seq(S)
    PROVE  /\ s \o t \in Seq(S)
           /\ ToSet(s \o t) = ToSet(s) \cup ToSet(t)
           /\ IsInjective(s) /\ IsInjective(t) /\ ToSet(s) \cap ToSet(t) = {} => IsInjective(s \o t)
<1> DEFINE u == s \o t
           k == Len(s)
           l == Len(t)
<1>1. /\ u \in Seq(S) /\ Len(u) = k + l /\ k \in Nat /\ l \in Nat
      /\ \A i \in 1 .. k + l : u[i] = IF i <= k THEN s[i] ELSE t[i - k]
    BY ConcatProperties, SeqFacts
<1>2. DOMAIN s = 1 .. k /\ DOMAIN t = 1 .. l /\ DOMAIN u = 1 .. k + l
    BY <1>1, SeqFacts
<1> HIDE DEF u, k, l
<1>3. \A i \in 1 .. k : u[i] = s[i] /\ i \in 1 .. k + l
    BY <1>1
<1>4. \A i \in 1 .. l : u[i + k] = t[i] /\ i + k \in 1 .. k + l
    <2> SUFFICES ASSUME NEW i \in 1 .. l PROVE u[i + k] = t[i] /\ i + k \in 1 .. k + l
        OBVIOUS
    <2>1. i + k \in 1 .. k + l /\ ~(i + k <= k) /\ (i + k) - k = i
        BY <1>1
    <2> QED
        BY <1>1, <2>1
<1>5. \A i \in 1 .. k + l : i \in 1 .. k \/ (i - k \in 1 .. l /\ u[i] = t[i - k])
    BY <1>1
<1>6. ToSet(u) = ToSet(s) \cup ToSet(t)
    <2>1. ToSet(s) \subseteq ToSet(u)
        BY <1>2, <1>3 DEF ToSet
    <2>2. ToSet(t) \subseteq ToSet(u)
        <3> SUFFICES ASSUME NEW i \in 1 .. l PROVE t[i] \in ToSet(u)
            BY <1>2 DEF ToSet
        <3> QED
            BY <1>2, <1>4 DEF ToSet
    <2>3. ToSet(u) \subseteq ToSet(s) \cup ToSet(t)
        <3> SUFFICES ASSUME NEW i \in 1 .. k + l PROVE u[i] \in ToSet(s) \cup ToSet(t)
            BY <1>2 DEF ToSet
        <3>1. CASE i \in 1 .. k
            BY <1>2, <1>3, <3>1 DEF ToSet
        <3>2. CASE i - k \in 1 .. l /\ u[i] = t[i - k]
            BY <1>2, <3>2 DEF ToSet
        <3> QED
            BY <1>5, <3>1, <3>2
    <2> QED
        BY <2>1, <2>2, <2>3
<1>7. ASSUME IsInjective(s), IsInjective(t), ToSet(s) \cap ToSet(t) = {}
      PROVE  IsInjective(u)
    <2> SUFFICES ASSUME NEW i \in 1 .. k + l, NEW j \in 1 .. k + l, u[i] = u[j] PROVE i = j
        BY <1>2 DEF IsInjective
    <2>1. CASE i \in 1 .. k /\ j \in 1 .. k
        BY <1>2, <1>3, <1>7, <2>1 DEF IsInjective
    <2>2. CASE i \in 1 .. k /\ j - k \in 1 .. l /\ u[j] = t[j - k]
        BY <1>2, <1>3, <1>7, <2>2 DEF ToSet
    <2>3. CASE j \in 1 .. k /\ i - k \in 1 .. l /\ u[i] = t[i - k]
        BY <1>2, <1>3, <1>7, <2>3 DEF ToSet
    <2>4. CASE i - k \in 1 .. l /\ u[i] = t[i - k] /\ j - k \in 1 .. l /\ u[j] = t[j - k]
        <3>1. i - k = j - k
            BY <1>2, <1>7, <2>4 DEF IsInjective
        <3> QED
            BY <1>1, <3>1
    <2> QED
        BY <1>5, <2>1, <2>2, <2>3, <2>4
<1> QED
    BY <1>1, <1>6, <1>7 DEF u

\* A finite set as a list: all of it, each once.
LEMMA Listed ==
    ASSUME NEW S, IsFiniteSet(S)
    PROVE  SetToSeq(S) \in Seq(S) /\ ToSet(SetToSeq(S)) = S /\ IsInjective(SetToSeq(S))
<1> DEFINE n == Cardinality(S)
           s == SetToSeq(S)
<1>1. n \in Nat /\ ExistsBijection(1 .. n, S)
    BY FS_CardinalityType
<1>2. \E f \in [1 .. n -> S] : IsInjective(f)
    BY <1>1 DEF ExistsBijection, Bijection, Injection
<1>3. s \in [1 .. n -> S] /\ IsInjective(s)
    BY <1>2 DEF SetToSeq
<1> HIDE DEF s, n
<1>4. s \in Seq(S) /\ DOMAIN s = 1 .. n
    BY <1>1, <1>3, SeqDef
<1>5. ToSet(s) \subseteq S
    BY <1>3 DEF ToSet
<1>6. ExistsBijection(1 .. n, ToSet(s))
    <2>1. s \in [1 .. n -> ToSet(s)] /\ \A e \in ToSet(s) : \E i \in 1 .. n : s[i] = e
        BY <1>3, <1>4 DEF ToSet
    <2> QED
        BY <1>3, <2>1 DEF ExistsBijection, Bijection, Injection, Surjection
<1>7. Cardinality(ToSet(s)) = n
    BY <1>1, <1>6, FS_CountingElements
<1>8. ToSet(s) = S
    BY <1>5, <1>7, FS_Subset DEF n
<1> QED
    BY <1>3, <1>4, <1>8 DEF s

\* The list now holds what it held and more, and each once if nothing of it is new.
Grows(old, now, more) ==
    /\ now \in Seq(Entry)
    /\ ToSet(now) = ToSet(old) \cup more
    /\ IsInjective(old) /\ ToSet(old) \cap more = {} => IsInjective(now)

\* What the bindings add to an array field.
LEMMA Grown ==
    ASSUME NEW held, NEW f \in ArrayField, held[f] \in Seq(Entry),
           NEW n, NEW run \in Nat, NEW keys
    PROVE  Grows(held[f], Written(held, n, run, keys)[f], Given(n, f, keys) \X {run})
<1> DEFINE new == Given(n, f, keys) \X {run}
           added == SetToSeq(new)
<1>1. IsFiniteSet(new)
    <2>1. Given(n, f, keys) \in SUBSET StateWrite
        BY DEF Given
    <2>2. IsFiniteSet(Given(n, f, keys)) /\ IsFiniteSet({run})
        BY <2>1, FS_Subset, FS_Singleton DEF GraphAssumption
    <2> QED
        BY <2>2, FS_Product
<1>2. added \in Seq(new) /\ ToSet(added) = new /\ IsInjective(added)
    BY <1>1, Listed
<1>3. new \subseteq Entry
    BY DEF Given, Entry
<1>4. added \in Seq(Entry)
    BY <1>2, <1>3, SeqDef
<1>5. f \in Field /\ Written(held, n, run, keys)[f] = held[f] \o added
    BY DEF Written, GraphAssumption
<1> HIDE DEF added, new
<1> QED
    BY <1>2, <1>4, <1>5, Joined DEF new, Grows

\* What storing a result leaves in the maps of the orchestrator.
LEMMA StoreTypes ==
    ASSUME TypeInv, NEW n \in Node, NEW r \in Result, StoreOutputs(r), WriteState(n, r)
    PROVE  /\ done' \subseteq Node
           /\ out' \in [Node -> [run : Nat, live : SUBSET Port]]
           /\ DOMAIN state' = Field /\ \A f \in ArrayField : state'[f] \in Seq(Entry)
<1>1. r.node \in Node /\ r.run \in Nat /\ r.live \in SUBSET Port
    BY DEF Result
<1>2. done' \subseteq Node
    BY <1>1 DEF StoreOutputs, TypeInv, DataTypes
<1>3. out' \in [Node -> [run : Nat, live : SUBSET Port]]
    BY <1>1 DEF StoreOutputs, TypeInv, DataTypes
<1>4. state' = Written(state, n, r.run, r.keys)
    BY DEF WriteState
<1>5. DOMAIN state' = Field
    BY <1>4 DEF Written
<1>6. ASSUME NEW f \in ArrayField PROVE state'[f] \in Seq(Entry)
    <2>1. Grows(state[f], Written(state, n, r.run, r.keys)[f], Given(n, f, r.keys) \X {r.run})
        BY <1>1, <1>6, Grown DEF TypeInv, DataTypes
    <2> QED
        BY <1>4, <2>1 DEF Grows
<1> QED
    BY <1>2, <1>3, <1>5, <1>6

\* Propagation adds nodes to the skipped ones and edges to the dead ones.
LEMMA SkipTypes ==
    ASSUME TypeInv, NEW r \in Result, PropagateSkips(r)
    PROVE  /\ skipped \subseteq skipped' /\ skipped' \subseteq Node
           /\ dead' \subseteq Edge
<1> DEFINE kill == IF Kind[r.node] = "conditional" THEN DeadPorts(r.node, r.live) ELSE {}
           skips == IF kill = {} THEN skipped ELSE SkipsOf(dead \cup kill, skipped)
<1>1. skipped' = skips /\ dead' = dead \cup kill \cup UNION {OutEdges(n) : n \in skips \ skipped}
    BY DEF PropagateSkips
<1>2. skipped \subseteq Node /\ dead \subseteq Edge
    BY DEF TypeInv, DataTypes
<1>3. kill \subseteq Edge /\ \A n \in Node : OutEdges(n) \subseteq Edge
    BY DEF DeadPorts, OutEdges
<1>4. skipped \subseteq skips /\ skips \subseteq Node
    <2>1. skipped \subseteq SkipsOf(dead \cup kill, skipped) /\ SkipsOf(dead \cup kill, skipped) \subseteq Node
        BY <1>2 DEF SkipsOf
    <2> QED
        BY <1>2, <2>1
<1> QED
    BY <1>1, <1>2, <1>3, <1>4

LEMMA ForwardData ==
    ASSUME TypeInv, ForwardPass
    PROVE  DataTypes'
<1> USE DEF TypeInv, DataTypes, dataVars, logVars
<1>1. CASE Start
    BY <1>1 DEF Start, Inputs
<1>2. CASE EnterGroup
    BY <1>2 DEF EnterGroup
<1>3. CASE Collect
    <2> DEFINE r == Head(results)
    <2>1. r \in Result /\ r.node \in Node
        BY <1>3, HeadTypes DEF Collect
    <2>2. ProcessNodeResult(r)
        BY <1>3 DEF Collect
    <2> HIDE DEF r
    <2>3. /\ reports' \in [Node -> Nat] /\ steps' \subseteq Node \X Nat
          /\ event' \in [Node -> {"idle", "started", "completed", "failed", "skipped"}]
        BY <2>1, <2>2 DEF ProcessNodeResult, RecordStep
    <2>4. CASE r.ok
        <3>1. StoreOutputs(r) /\ WriteState(r.node, r) /\ PropagateSkips(r)
            BY <2>2, <2>4 DEF ProcessNodeResult
        <3> QED
            BY <2>1, <2>3, <3>1, StoreTypes, SkipTypes
    <2>5. CASE ~ r.ok
        BY <2>2, <2>3, <2>5 DEF ProcessNodeResult
    <2> QED
        BY <2>4, <2>5
<1>4. CASE EndForwardPass
    BY <1>4 DEF EndForwardPass
<1>5. ASSUME NEW n \in Node, DispatchInGroup(n) PROVE DataTypes'
    BY <1>5 DEF DispatchInGroup
<1>6. ASSUME NEW n \in Node, DispatchFails(n) PROVE DataTypes'
    <2>1. event' \in [Node -> {"idle", "started", "completed", "failed", "skipped"}]
        BY <1>6 DEF DispatchFails
    <2>2. steps' \subseteq Node \X Nat
        BY <1>6 DEF DispatchFails, RecordStep
    <2>3. UNCHANGED <<dataVars, reports>>
        BY <1>6 DEF DispatchFails
    <2> QED
        BY <2>1, <2>2, <2>3
<1> QED
    BY <1>1, <1>2, <1>3, <1>4, <1>5, <1>6 DEF ForwardPass

LEMMA LoopData ==
    ASSUME TypeInv, LoopPass
    PROVE  DataTypes'
<1> USE DEF TypeInv, DataTypes, dataVars, logVars
<1>1. CASE Iterate
    BY <1>1 DEF Iterate
<1>2. CASE BodyCollect
    <2>1. Head(results) \in Result /\ Head(results).node \in Node
        BY <1>2, HeadTypes DEF BodyCollect
    <2>2. Current \in Node /\ iter \in Nat
        BY <1>2, CurrentIsNode DEF BodyCollect, InRange, ControlTypes
    <2>3. reports' \in [Node -> Nat] /\ skipped' = skipped /\ dead' = dead
        BY <1>2, <2>1 DEF BodyCollect
    <2>4. CASE Head(results).ok
        <3>1. /\ StoreOutputs(Head(results)) /\ WriteState(Current, Head(results))
              /\ event' = [event EXCEPT ![Current] = "completed"]
              /\ RecordStep(Current, iter)
            BY <1>2, <2>4 DEF BodyCollect
        <3>2. /\ event' \in [Node -> {"idle", "started", "completed", "failed", "skipped"}]
              /\ steps' \subseteq Node \X Nat
            BY <2>2, <3>1 DEF RecordStep
        <3> QED
            BY <2>1, <2>2, <2>3, <3>1, <3>2, StoreTypes
    <2>5. CASE ~ Head(results).ok
        <3>1. UNCHANGED <<done, out, state, event, steps>>
            BY <1>2, <2>5 DEF BodyCollect
        <3> QED
            BY <2>3, <3>1
    <2> QED
        BY <2>4, <2>5
<1>3. CASE DownCollect
    <2>1. Head(results) \in Result /\ Head(results).node \in Node
        BY <1>3, HeadTypes DEF DownCollect
    <2>2. Current \in Node
        BY <1>3, CurrentIsNode DEF DownCollect, InRange
    <2>3. /\ reports' \in [Node -> Nat]
          /\ UNCHANGED <<skipped, dead, event, steps>>
          /\ StoreOutputs(Head(results)) /\ WriteState(Current, Head(results))
        BY <1>3, <2>1 DEF DownCollect
    <2> QED
        BY <2>1, <2>2, <2>3, StoreTypes
<1>4. CASE LoopDispatchFails
    <2>1. Current \in Node
        <3>1. pos <= Len(TopoOrder)
            BY <1>4, GraphFacts DEF LoopDispatchFails, AtEnd, ControlTypes
        <3> QED
            BY <3>1, CurrentIsNode
    <2> QED
        <3>1. event' \in [Node -> {"idle", "started", "completed", "failed", "skipped"}]
            BY <1>4, <2>1 DEF LoopDispatchFails
        <3>2. steps' \subseteq Node \X Nat
            BY <1>4, <2>1 DEF LoopDispatchFails, RecordStep
        <3>3. UNCHANGED <<dataVars, reports>>
            BY <1>4 DEF LoopDispatchFails
        <3> QED
            BY <3>1, <3>2, <3>3
<1>5. CASE \/ LeaveLoop \/ ConditionFails \/ StepOver \/ LoopDispatch
           \/ EndIteration \/ EndLoop \/ EndLoopPass
    <2>1. UNCHANGED <<dataVars, logVars>>
        BY <1>5 DEF LeaveLoop, ConditionFails, StepOver, LoopDispatch, EndIteration, EndLoop, EndLoopPass
    <2> QED
        BY <2>1
<1> QED
    BY <1>1, <1>2, <1>3, <1>4, <1>5 DEF LoopPass

LEMMA OtherData ==
    ASSUME TypeInv, [Next]_vars, ~ ForwardPass, ~ LoopPass
    PROVE  DataTypes'
<1>1. UNCHANGED <<dataVars, logVars>>
    BY DEF Next, Orchestrator, WaitTimeout, WaitCancelled, CleanUp, CompleteExecution, FailExecution,
           Worker, Succeed, Retry, GiveUp, Asynq, Acknowledge, Redeliver,
           Environment, GraphTimesOut, TaskTimesOut, OrchestratorDies, Quiescent, vars
<1> QED
    BY <1>1 DEF TypeInv, DataTypes, dataVars, logVars

\* The steps that touch a queue.
LEMMA OrchestratorQueues ==
    ASSUME TypeInv, Orchestrator
    PROVE  QueueTypes'
<1> USE DEF TypeInv, QueueTypes, queueVars
<1>1. ASSUME NEW n \in Node, DispatchInGroup(n) PROVE QueueTypes'
    BY <1>1, DispatchTypes DEF DispatchInGroup
<1>2. CASE LoopDispatch
    <2>1. Current \in Node
        <3>1. pos <= Len(TopoOrder)
            BY <1>2, GraphFacts DEF LoopDispatch, AtEnd, ControlTypes
        <3> QED
            BY <3>1, CurrentIsNode
    <2> QED
        BY <1>2, <2>1, DispatchTypes DEF LoopDispatch
<1>3. CASE Collect \/ BodyCollect \/ DownCollect
    <2>1. results # << >> /\ results' = Tail(results) /\ UNCHANGED <<runs, queueVars>>
        BY <1>3 DEF Collect, BodyCollect, DownCollect, Pop
    <2> QED
        BY <2>1, HeadTypes
<1>4. CASE CleanUp \/ FailExecution
    <2>1. results' \in Seq(Result) /\ UNCHANGED <<runs, queueVars>>
        <3>1. << >> \in Seq(Result) /\ results \in Seq(Result)
            OBVIOUS
        <3>2. UNCHANGED results \/ results' = << >>
            BY <1>4 DEF CleanUp, FailExecution, DeleteKey
        <3>3. UNCHANGED <<runs, queueVars>>
            BY <1>4 DEF CleanUp, FailExecution
        <3> QED
            BY <3>1, <3>2, <3>3
    <2> QED
        BY <2>1
<1>5. CASE \/ Start \/ EnterGroup \/ EndForwardPass \/ \E n \in Node : DispatchFails(n)
           \/ Iterate \/ LeaveLoop \/ ConditionFails \/ StepOver \/ EndIteration
           \/ EndLoop \/ LoopDispatchFails \/ EndLoopPass
           \/ WaitTimeout \/ WaitCancelled \/ CompleteExecution
    <2>1. UNCHANGED <<runs, queueVars, results>>
        BY <1>5 DEF Start, EnterGroup, EndForwardPass, DispatchFails, Iterate, LeaveLoop,
               ConditionFails, StepOver, EndIteration, EndLoop, LoopDispatchFails, EndLoopPass,
               WaitTimeout, WaitCancelled, CompleteExecution
    <2> QED
        BY <2>1
<1> QED
    BY <1>1, <1>2, <1>3, <1>4, <1>5 DEF Orchestrator, ForwardPass, LoopPass

\* What a task's handler pushes.
TaskResult(t, ok) ==
    [node |-> t.node, run |-> t.run, ok |-> ok,
     keys |-> IF ok THEN OutPort[t.node] ELSE {}, live |-> IF ok THEN OutPort[t.node] ELSE {}]

LEMMA PushFacts ==
    ASSUME TypeInv, NEW t \in Task, NEW ok \in BOOLEAN, Push(t, ok)
    PROVE  /\ PushResult(TaskResult(t, ok)) /\ TaskResult(t, ok) \in Result
           /\ results' \in Seq(Result) /\ due' \subseteq Entry
<1>1. t.node \in Node /\ t.run \in Nat
    BY DEF Task
<1>2. (IF ok THEN OutPort[t.node] ELSE {}) \in SUBSET Port
    BY <1>1, GraphFacts
<1>3. TaskResult(t, ok) \in Result
    BY <1>1, <1>2 DEF Result, TaskResult
<1>4. PushResult(TaskResult(t, ok))
    BY DEF Push, TaskResult
<1> QED
    BY <1>3, <1>4, PushedTyped

LEMMA OtherQueues ==
    ASSUME TypeInv, Worker \/ Asynq \/ Environment \/ UNCHANGED vars
    PROVE  QueueTypes'
<1> USE DEF TypeInv, QueueTypes, queueVars
<1>1. ASSUME NEW t \in tasks, Succeed(t) \/ GiveUp(t) PROVE QueueTypes'
    <2>1. t \in Task /\ results' \in Seq(Result) /\ due' \subseteq Entry
        BY <1>1, PushFacts DEF Succeed, GiveUp
    <2>2. /\ tasks' = tasks \ {t} /\ unacked' = unacked \cup {t}
          /\ UNCHANGED <<runs, nextId, dups>>
        BY <1>1 DEF Succeed, GiveUp
    <2> QED
        BY <2>1, <2>2
<1>2. ASSUME NEW t \in tasks, Retry(t) PROVE QueueTypes'
    <2>1. t \in Task
        OBVIOUS
    <2>2. [t EXCEPT !.id = nextId, !.try = @ + 1] \in Task
        <3>1. t.try + 1 \in Nat /\ nextId \in Nat
            BY <2>1 DEF Task
        <3> QED
            BY <2>1, <3>1 DEF Task
    <2>3. /\ tasks' = (tasks \ {t}) \cup {[t EXCEPT !.id = nextId, !.try = @ + 1]}
          /\ unacked' = unacked \cup {t} /\ nextId' = nextId + 1
          /\ UNCHANGED <<runs, dups, due, results>>
        BY <1>2 DEF Retry
    <2> QED
        BY <2>1, <2>2, <2>3
<1>3. ASSUME NEW t \in unacked, Acknowledge(t) \/ Redeliver(t) PROVE QueueTypes'
    BY <1>3 DEF Acknowledge, Redeliver
<1>4. CASE Environment \/ UNCHANGED vars
    <2>1. UNCHANGED <<runs, queueVars, results>>
        BY <1>4 DEF Environment, GraphTimesOut, TaskTimesOut, OrchestratorDies, vars
    <2> QED
        BY <2>1
<1> QED
    BY <1>1, <1>2, <1>3, <1>4 DEF Worker, Asynq

LEMMA TypesKept == TypeInv /\ [Next]_vars => TypeInv'
<1> SUFFICES ASSUME TypeInv, [Next]_vars PROVE TypeInv'
    OBVIOUS
<1>1. Orchestrator \/ Worker \/ Asynq \/ Environment \/ UNCHANGED vars
    BY DEF Next, Quiescent
<1>2. ControlTypes' /\ InRange'
    BY <1>1, ForwardControl, LoopControl, OtherControl DEF Orchestrator
<1>3. DataTypes'
    BY ForwardData, LoopData, OtherData
<1>4. QueueTypes'
    BY <1>1, OrchestratorQueues, OtherQueues
<1> QED
    BY <1>2, <1>3, <1>4 DEF TypeInv

\* The types of the state of an execution, for every validated graph.  The indices stay
\* within the groups, the order and the back-edges: the code never reads past a slice
\* (executeForwardPass, executeLoopPass).
THEOREM TypeCorrect == Spec => []TypeOK
<1>1. TypeInv => TypeOK
    BY TypeParts DEF TypeInv
<1> QED
    BY <1>1, InitTypes, TypesKept, PTL DEF Spec

THEOREM TypesInvariant == Spec => []TypeInv
BY InitTypes, TypesKept, PTL DEF Spec

-----------------------------------------------------------------------------
(* The barrier.  The fan-in only counts, so that it waits for every node   *)
(* of the group needs that what it counts comes from distinct nodes: every *)
(* dispatched node that has not reported has at most one task or result,   *)
(* and nothing else is in the queue or in the list.                        *)

\* The nodes of the current group that were dispatched, those of them that reported.
Sent == {n \in Group[group] : runs[n] > 0}
Reported == {n \in Sent : reports[n] > 0}
Owed == Sent \ Reported

Collecting == pc \in {"dispatch", "collect"}

FanOut ==
    /\ todo \subseteq Group[group] /\ \A n \in todo : runs[n] = 0
    /\ pc = "collect" => todo = {}
    /\ \A n \in Group[group] : Settled(n) \/ n \in todo \/ n \in Sent

Counted == pending = Cardinality(Sent) /\ collected = Cardinality(Reported)

ResultsOwed ==
    \A i \in 1 .. Len(results) :
        /\ results[i].node \in Owed
        /\ \A j \in 1 .. Len(results) : i # j => results[i].node # results[j].node

TasksOwed ==
    \A t \in tasks :
        /\ t.node \in Owed
        /\ \A i \in 1 .. Len(results) : results[i].node # t.node
        /\ \A u \in tasks : t # u => t.node # u.node

\* Nothing was dispatched of the groups to come, and nothing is under way between groups.
Ahead ==
    /\ \A i \in 1 .. Len(Group) : i > group => \A n \in Group[i] : runs[n] = 0
    /\ ~ Collecting =>
        /\ tasks = {} /\ results = << >>
        /\ group <= Len(Group) => \A n \in Group[group] : runs[n] = 0

\* Who reported was dispatched, and an output is an input's or of one that reported.
Traced ==
    /\ \A n \in Node : runs[n] = 0 => reports[n] = 0
    /\ \A n \in done : n \in Inputs \/ reports[n] > 0

PassInv ==
    InForwardPass =>
        /\ GroupBarrier /\ Ahead /\ Traced
        /\ Collecting => FanOut /\ Counted /\ ResultsOwed /\ TasksOwed

LEMMA GroupsDisjoint == \A i, j \in 1 .. Len(Group) : i # j => Group[i] \cap Group[j] = {}
BY DEF GraphAssumption

LEMMA SentFacts ==
    ASSUME TypeInv, group <= Len(Group)
    PROVE  /\ Group[group] \subseteq Node /\ Sent \subseteq Node
           /\ IsFiniteSet(Sent) /\ IsFiniteSet(Reported)
           /\ Reported \subseteq Sent /\ Owed \subseteq Sent
<1>1. Group[group] \subseteq Node
    BY GraphFacts DEF TypeInv, ControlTypes
<1>2. IsFiniteSet(Node)
    BY DEF GraphAssumption
<1>3. Sent \subseteq Node /\ Reported \subseteq Sent /\ Owed \subseteq Sent
    BY <1>1 DEF Sent, Reported, Owed
<1>4. IsFiniteSet(Sent)
    BY <1>2, <1>3, FS_Subset
<1> QED
    BY <1>1, <1>3, <1>4, FS_Subset

\* Popping the oldest of a list.
LEMMA ListFacts ==
    ASSUME NEW S, NEW s \in Seq(S)
    PROVE  /\ Len(s) \in Nat
           /\ s # << >> => /\ Head(s) = s[1] /\ 1 \in 1 .. Len(s)
                           /\ Len(Tail(s)) = Len(s) - 1
                           /\ \A i \in 1 .. Len(Tail(s)) : Tail(s)[i] = s[i + 1] /\ i + 1 \in 1 .. Len(s)
           /\ s = << >> <=> Len(s) = 0
OBVIOUS

\* Adding one at the young end.
LEMMA GrowFacts ==
    ASSUME NEW S, NEW s \in Seq(S), NEW e \in S
    PROVE  /\ Len(s) \in Nat /\ Len(Append(s, e)) = Len(s) + 1
           /\ \A i \in 1 .. Len(s) : Append(s, e)[i] = s[i]
           /\ Append(s, e)[Len(s) + 1] = e
OBVIOUS

LEMMA InitPass == Init => PassInv
<1> SUFFICES ASSUME Init PROVE PassInv
    OBVIOUS
<1>1. GroupBarrier
    BY DEF Init, GroupBarrier
<1>2. Ahead
    BY GraphFacts DEF Init, Ahead
<1>3. Traced
    BY DEF Init, Traced
<1> QED
    BY <1>1, <1>2, <1>3 DEF Init, PassInv, Collecting

LEMMA StartPass == TypeInv /\ PassInv /\ Start => PassInv'
<1> SUFFICES ASSUME TypeInv, PassInv, Start PROVE PassInv'
    OBVIOUS
<1>1. /\ pc = "queued" /\ pc' = "enter" /\ done' = Inputs
      /\ UNCHANGED <<group, skipped, reports, runs, tasks, results>>
    BY DEF Start, logVars, queueVars
<1>2. GroupBarrier /\ Ahead /\ Traced
    BY <1>1 DEF PassInv, InForwardPass
<1>3. GroupBarrier'
    BY <1>1, <1>2 DEF GroupBarrier, InForwardPass, Settled
<1>4. Ahead'
    BY <1>1, <1>2 DEF Ahead, Collecting
<1>5. Traced'
    BY <1>1, <1>2 DEF Traced
<1> QED
    BY <1>1, <1>3, <1>4, <1>5 DEF PassInv, Collecting

LEMMA EnterPass == TypeInv /\ PassInv /\ EnterGroup => PassInv'
<1> SUFFICES ASSUME TypeInv, PassInv, EnterGroup PROVE PassInv'
    OBVIOUS
<1>1. /\ pc = "enter" /\ group \in 1 .. Len(Group) /\ todo' = Runnable(group)
      /\ pending' = 0 /\ collected' = 0
      /\ UNCHANGED <<done, skipped, reports, runs, tasks, results>>
      /\ IF Runnable(group) = {}
         THEN group' = group + 1 /\ pc' = "enter"
         ELSE pc' = "dispatch" /\ group' = group
    BY DEF EnterGroup, dataVars, queueVars, TypeInv, ControlTypes
<1>2. GroupBarrier /\ Ahead /\ Traced /\ tasks = {} /\ results = << >>
    BY <1>1 DEF PassInv, InForwardPass, Ahead, Collecting
<1>3. \A n \in Group[group] : Settled(n) \/ n \in Runnable(group)
    BY <1>1, <1>2, GraphFacts DEF Runnable, Traced, Settled, Inputs
<1>4. Traced'
    BY <1>1, <1>2 DEF Traced
<1>5. \A n \in Node : Settled(n)' = Settled(n)
    BY <1>1 DEF Settled
<1>6. CASE Runnable(group) = {}
    <2>1. GroupBarrier'
        <3> SUFFICES ASSUME NEW i \in 1 .. group, NEW n \in Group[i] PROVE Settled(n)
            BY <1>1, <1>5, <1>6 DEF GroupBarrier, Settled
        <3>1. CASE i = group
            BY <1>3, <1>6, <3>1
        <3>2. CASE i # group
            BY <1>1, <1>2, <3>2 DEF GroupBarrier, InForwardPass
        <3> QED
            BY <3>1, <3>2
    <2>2. Ahead'
        BY <1>1, <1>2, <1>6, GraphFacts DEF Ahead, Collecting
    <2> QED
        BY <1>1, <1>4, <1>6, <2>1, <2>2 DEF PassInv, Collecting
<1>7. CASE Runnable(group) # {}
    <2>1. GroupBarrier'
        BY <1>1, <1>2, <1>7 DEF GroupBarrier, InForwardPass, Settled
    <2>2. Ahead'
        BY <1>1, <1>2, <1>7 DEF Ahead, Collecting
    <2>3. Group[group] \subseteq Node /\ \A n \in Group[group] : runs[n] = 0
        BY <1>1, <1>2, GraphFacts DEF Ahead, Collecting
    <2>4. Sent' = {} /\ Reported' = {}
        BY <1>1, <1>7, <2>3 DEF Sent, Reported
    <2>5. Counted'
        BY <1>1, <2>4, FS_EmptySet DEF Counted
    <2>6. FanOut'
        BY <1>1, <1>3, <1>7, <2>3 DEF FanOut, Runnable, Settled
    <2>7. ResultsOwed' /\ TasksOwed'
        BY <1>1, <1>2 DEF ResultsOwed, TasksOwed
    <2> QED
        BY <1>4, <2>1, <2>2, <2>5, <2>6, <2>7 DEF PassInv
<1> QED
    BY <1>6, <1>7

\* A result consumed is of a node that owes one, which no longer does.
LEMMA CollectPass == TypeInv /\ PassInv /\ Collect => PassInv'
<1> SUFFICES ASSUME TypeInv, PassInv, Collect PROVE PassInv'
    OBVIOUS
<1> DEFINE r == Head(results)
           m == r.node
<1>1. /\ pc = "collect" /\ results # << >> /\ results' = Tail(results)
      /\ collected' = collected + 1
      /\ UNCHANGED <<todo, pending, runs, tasks>>
      /\ IF collected + 1 = pending
         THEN pc' = "enter" /\ group' = group + 1
         ELSE pc' = "collect" /\ group' = group
    BY DEF Collect, Pop, queueVars
<1>2. /\ r \in Result /\ m \in Node
      /\ reports' = [reports EXCEPT ![m] = @ + 1]
      /\ skipped \subseteq skipped'
      /\ done' \subseteq done \cup {m}
    <2>1. r \in Result /\ m \in Node /\ ProcessNodeResult(r)
        BY <1>1, HeadTypes DEF Collect
    <2> HIDE DEF r
    <2>2. CASE r.ok
        BY <2>1, <2>2, SkipTypes DEF ProcessNodeResult, StoreOutputs
    <2>3. CASE ~ r.ok
        BY <2>1, <2>3 DEF ProcessNodeResult, dataVars
    <2> QED
        BY <2>1, <2>2, <2>3 DEF ProcessNodeResult
<1>3. /\ GroupBarrier /\ Ahead /\ Traced
      /\ FanOut /\ Counted /\ ResultsOwed /\ TasksOwed
    BY <1>1 DEF PassInv, InForwardPass, Collecting
<1>4. /\ group \in 1 .. Len(Group) /\ Group[group] \subseteq Node
      /\ Sent \subseteq Node /\ IsFiniteSet(Sent) /\ IsFiniteSet(Reported)
      /\ Reported \subseteq Sent
    BY <1>1, SentFacts DEF TypeInv, ControlTypes, InRange
<1>5. m \in Sent /\ m \notin Reported
    <2>1. 1 \in 1 .. Len(results) /\ m = results[1].node
        BY <1>1, ListFacts DEF TypeInv, QueueTypes
    <2> QED
        BY <1>3, <2>1 DEF ResultsOwed, Owed
<1> HIDE DEF m
<1>6. \A n \in Node : /\ reports[n] \in Nat /\ reports'[n] = IF n = m THEN reports[n] + 1 ELSE reports[n]
                      /\ Settled(n) => Settled(n)'
    BY <1>2 DEF Settled, TypeInv, DataTypes
<1>7. Traced'
    <2>1. runs[m] # 0
        BY <1>4, <1>5 DEF Sent, TypeInv, QueueTypes
    <2> QED
        BY <1>1, <1>2, <1>3, <1>6, <2>1 DEF Traced, TypeInv, DataTypes
<1>8. \A i \in 1 .. group - 1 : \A n \in Group[i] : Settled(n)'
    <2>1. \A i \in 1 .. group - 1 : \A n \in Group[i] : Settled(n)
        BY <1>1, <1>3 DEF GroupBarrier, InForwardPass
    <2>2. \A i \in 1 .. group - 1 : Group[i] \subseteq Node
        <3>1. \A i \in 1 .. group - 1 : i \in 1 .. Len(Group)
            BY <1>4, GraphFacts
        <3> QED
            BY <3>1, GraphFacts
    <2> QED
        BY <1>6, <2>1, <2>2
<1>9. /\ IsFiniteSet(Reported \cup {m})
      /\ Cardinality(Reported \cup {m}) = collected + 1
      /\ Reported \cup {m} \subseteq Sent
    BY <1>3, <1>4, <1>5, FS_AddElement DEF Counted
<1>10. \A n \in Sent : n \in Reported \cup {m} <=> reports'[n] > 0
    BY <1>4, <1>5, <1>6 DEF Reported
<1>11. CASE collected + 1 = pending
    <2>1. Reported \cup {m} = Sent
        BY <1>3, <1>4, <1>9, <1>11, FS_Subset DEF Counted
    <2>2. Owed = {m}
        BY <1>5, <2>1 DEF Owed
    <2>3. results' = << >>
        <3>1. results' \in Seq(Result)
            BY <1>1, HeadTypes
        <3>2. \A i \in 1 .. Len(results') : results'[i].node \in Owed /\ results'[i].node # m
            <4>1. \A i \in 1 .. Len(results') : /\ results'[i] = results[i + 1] /\ i + 1 \in 1 .. Len(results)
                                                /\ i + 1 # 1
                BY <1>1, ListFacts DEF TypeInv, QueueTypes
            <4>2. m = results[1].node /\ 1 \in 1 .. Len(results)
                BY <1>1, ListFacts DEF m, TypeInv, QueueTypes
            <4> QED
                BY <1>3, <4>1, <4>2 DEF ResultsOwed
        <3>3. Len(results') = 0
            BY <2>2, <3>1, <3>2, ListFacts
        <3> QED
            BY <3>1, <3>3, ListFacts
    <2>4. tasks' = {}
        <3>1. m = results[1].node /\ 1 \in 1 .. Len(results)
            BY <1>1, ListFacts DEF m, TypeInv, QueueTypes
        <3> QED
            BY <1>1, <1>3, <2>2, <3>1 DEF TasksOwed
    <2>5. \A n \in Group[group] : Settled(n)'
        BY <1>1, <1>3, <1>4, <1>6, <1>10, <2>1 DEF FanOut, Settled
    <2>6. GroupBarrier'
        <3> SUFFICES ASSUME NEW i \in 1 .. group, NEW n \in Group[i] PROVE Settled(n)'
            BY <1>1, <1>4, <1>11 DEF GroupBarrier
        <3> QED
            BY <1>4, <1>8, <2>5
    <2>7. Ahead'
        BY <1>1, <1>3, <1>4, <1>11, <2>3, <2>4, GraphFacts DEF Ahead, Collecting
    <2> QED
        BY <1>1, <1>7, <1>11, <2>6, <2>7 DEF PassInv, Collecting
<1>12. CASE collected + 1 # pending
    <2>1. pc' = "collect" /\ group' = group
        BY <1>1, <1>12
    <2>2. Sent' = Sent /\ Reported' = Reported \cup {m} /\ Owed' = Owed \ {m}
        <3>1. Sent' = Sent
            BY <1>1, <2>1 DEF Sent
        <3>2. Reported' = Reported \cup {m}
            BY <1>9, <1>10, <3>1 DEF Reported
        <3> QED
            BY <3>1, <3>2 DEF Owed
    <2>3. GroupBarrier'
        BY <1>8, <2>1 DEF GroupBarrier
    <2>4. Ahead'
        BY <1>1, <1>3, <2>1 DEF Ahead, Collecting
    <2>5. FanOut'
        BY <1>1, <1>3, <1>4, <1>6, <2>1, <2>2 DEF FanOut
    <2>6. Counted'
        BY <1>1, <1>3, <1>9, <2>2 DEF Counted
    <2>7. \A i \in 1 .. Len(results') : /\ results'[i] = results[i + 1] /\ i + 1 \in 1 .. Len(results)
                                        /\ i + 1 # 1
        BY <1>1, ListFacts DEF TypeInv, QueueTypes
    <2>8. m = results[1].node /\ 1 \in 1 .. Len(results)
        BY <1>1, ListFacts DEF m, TypeInv, QueueTypes
    <2>9. ResultsOwed'
        BY <1>3, <2>2, <2>7, <2>8 DEF ResultsOwed
    <2>10. TasksOwed'
        BY <1>1, <1>3, <2>2, <2>7, <2>8 DEF TasksOwed
    <2> QED
        BY <1>7, <2>1, <2>3, <2>4, <2>5, <2>6, <2>9, <2>10 DEF PassInv
<1> QED
    BY <1>11, <1>12

\* The list with one more result, of a node that owes one and has none there.
LEMMA OneMore ==
    ASSUME TypeInv, NEW r, NEW owed, r.node \in owed, results' = Append(results, r),
           \A i \in 1 .. Len(results) :
                /\ results[i].node \in owed /\ results[i].node # r.node
                /\ \A j \in 1 .. Len(results) : i # j => results[i].node # results[j].node
    PROVE  \A i \in 1 .. Len(results') :
                /\ results'[i].node \in owed
                /\ results'[i] = r \/ (i \in 1 .. Len(results) /\ results'[i] = results[i])
                /\ \A j \in 1 .. Len(results') : i # j => results'[i].node # results'[j].node
<1>1. /\ Len(results) \in Nat /\ Len(results') = Len(results) + 1
      /\ \A i \in 1 .. Len(results) : results'[i] = results[i]
      /\ results'[Len(results) + 1] = r
    <2>1. results \in Seq(Result \cup {r})
        BY DEF TypeInv, QueueTypes
    <2> QED
        BY <2>1, GrowFacts
<1>2. \A i \in 1 .. Len(results') : i \in 1 .. Len(results) \/ i = Len(results) + 1
    BY <1>1
<1> QED
    BY <1>1, <1>2

\* A node dispatched is new to the fan-in, and owes at most one task or result.
LEMMA DispatchPass ==
    ASSUME TypeInv, PassInv, NEW n \in Node, DispatchInGroup(n)
    PROVE  PassInv'
<1>1. /\ pc = "dispatch" /\ n \in todo /\ todo' = todo \ {n}
      /\ pending' = pending + 1 /\ pc' = (IF todo = {n} THEN "collect" ELSE "dispatch")
      /\ UNCHANGED <<group, collected, done, skipped, reports>>
      /\ runs' = [runs EXCEPT ![n] = @ + 1]
    BY DispatchCases DEF DispatchInGroup, dataVars
<1>2. /\ GroupBarrier /\ Ahead /\ Traced
      /\ FanOut /\ Counted /\ ResultsOwed /\ TasksOwed
    BY <1>1 DEF PassInv, InForwardPass, Collecting
<1>3. /\ group \in 1 .. Len(Group) /\ Group[group] \subseteq Node
      /\ Sent \subseteq Node /\ IsFiniteSet(Sent) /\ Reported \subseteq Sent
    BY <1>1, SentFacts DEF TypeInv, ControlTypes, InRange
<1>4. /\ n \in Group[group] /\ runs[n] = 0 /\ reports[n] = 0
      /\ \A k \in Node : runs[k] \in Nat /\ runs'[k] = IF k = n THEN 1 ELSE runs[k]
    BY <1>1, <1>2 DEF FanOut, Traced, TypeInv, QueueTypes
<1>5. n \notin Sent /\ Sent' = Sent \cup {n} /\ Reported' = Reported /\ Owed' = Owed \cup {n}
    <2>1. n \notin Sent /\ Sent' = Sent \cup {n}
        BY <1>1, <1>3, <1>4 DEF Sent
    <2>2. Reported' = Reported
        BY <1>1, <1>4, <2>1 DEF Reported
    <2> QED
        BY <1>3, <2>1, <2>2 DEF Owed
<1>6. Counted'
    <2>1. Cardinality(Sent \cup {n}) = Cardinality(Sent) + 1
        BY <1>3, <1>5, FS_AddElement
    <2> QED
        BY <1>1, <1>2, <1>5, <2>1 DEF Counted
<1>7. Settled(n)' = Settled(n) /\ \A k \in Node : Settled(k)' = Settled(k)
    BY <1>1 DEF Settled
<1>8. GroupBarrier'
    BY <1>1, <1>2 DEF GroupBarrier, InForwardPass, Settled
<1>9. FanOut'
    BY <1>1, <1>2, <1>3, <1>4, <1>5, <1>7 DEF FanOut
<1>10. Ahead'
    <2>1. \A i \in 1 .. Len(Group) : i > group => n \notin Group[i]
        BY <1>3, <1>4, GroupsDisjoint
    <2> QED
        BY <1>1, <1>2, <1>4, <2>1, GraphFacts DEF Ahead, Collecting
<1>11. Traced'
    BY <1>1, <1>2, <1>4 DEF Traced
<1>12. /\ \A i \in 1 .. Len(results) : results[i].node # n
       /\ \A t \in tasks : t.node # n
    BY <1>2, <1>5 DEF ResultsOwed, TasksOwed, Owed
<1>13. ASSUME tasks' = tasks \cup {NewTask(n)}, results' = results
       PROVE  ResultsOwed' /\ TasksOwed'
    BY <1>2, <1>5, <1>12, <1>13 DEF ResultsOwed, TasksOwed, NewTask
<1>14. ASSUME tasks' = tasks, NEW keys, PushResult(LocalResult(n, keys, FALSE))
       PROVE  ResultsOwed' /\ TasksOwed'
    <2> DEFINE r == LocalResult(n, keys, FALSE)
    <2>1. r.node = n /\ results' = Append(results, r)
        BY <1>14 DEF LocalResult, PushResult
    <2> HIDE DEF r
    <2>2. \A i \in 1 .. Len(results') :
            /\ results'[i].node \in Owed'
            /\ results'[i] = r \/ (i \in 1 .. Len(results) /\ results'[i] = results[i])
            /\ \A j \in 1 .. Len(results') : i # j => results'[i].node # results'[j].node
        BY <1>2, <1>5, <1>12, <2>1, OneMore DEF ResultsOwed
    <2>3. ResultsOwed'
        BY <2>2 DEF ResultsOwed
    <2>4. TasksOwed'
        BY <1>2, <1>5, <1>12, <1>14, <2>1, <2>2 DEF TasksOwed
    <2> QED
        BY <2>3, <2>4
<1>15. ResultsOwed' /\ TasksOwed'
    <2>1. CASE UNCHANGED <<tasks, results>>
        BY <1>2, <1>5, <2>1 DEF ResultsOwed, TasksOwed
    <2> QED
        BY <1>13, <1>14, <2>1, DispatchCases DEF DispatchInGroup
<1> QED
    BY <1>1, <1>6, <1>8, <1>9, <1>10, <1>11, <1>15 DEF PassInv

\* A task that ends turns into one result of its node.
LEMMA WorkerPass ==
    ASSUME TypeInv, PassInv, NEW t \in tasks, Succeed(t) \/ Retry(t) \/ GiveUp(t)
    PROVE  PassInv'
<1>1. /\ UNCHANGED <<pc, group, todo, pending, collected, done, skipped, reports, runs>>
    BY DEF Succeed, Retry, GiveUp, orchVars, dataVars, logVars
<1>2. CASE ~ InForwardPass
    BY <1>1, <1>2 DEF PassInv, InForwardPass
<1>3. CASE InForwardPass
    <2>1. Collecting /\ GroupBarrier /\ Ahead /\ Traced /\ FanOut /\ Counted /\ ResultsOwed /\ TasksOwed
        BY <1>3 DEF PassInv, Ahead
    <2>2. Sent' = Sent /\ Reported' = Reported /\ Owed' = Owed
        BY <1>1 DEF Sent, Reported, Owed
    <2>3. GroupBarrier' /\ Traced' /\ FanOut' /\ Counted' /\ Collecting'
        BY <1>1, <2>1, <2>2 DEF GroupBarrier, InForwardPass, Settled, Traced, FanOut, Counted, Collecting
    <2>4. Ahead'
        BY <1>1, <2>1 DEF Ahead, Collecting
    <2>5. ResultsOwed' /\ TasksOwed'
        <3>1. ASSUME Succeed(t) \/ GiveUp(t) PROVE ResultsOwed' /\ TasksOwed'
            <4>1. PICK ok \in BOOLEAN : Push(t, ok)
                BY <3>1 DEF Succeed, GiveUp
            <4> DEFINE r == TaskResult(t, ok)
            <4>2. r.node = t.node /\ results' = Append(results, r)
                BY <4>1, PushFacts DEF PushResult, TaskResult, TypeInv, QueueTypes
            <4> HIDE DEF r
            <4>3. \A i \in 1 .. Len(results') :
                    /\ results'[i].node \in Owed
                    /\ results'[i] = r \/ (i \in 1 .. Len(results) /\ results'[i] = results[i])
                    /\ \A j \in 1 .. Len(results') : i # j => results'[i].node # results'[j].node
                BY <2>1, <4>2, OneMore DEF ResultsOwed, TasksOwed
            <4>4. tasks' = tasks \ {t}
                BY <3>1 DEF Succeed, GiveUp
            <4>5. ResultsOwed'
                BY <2>2, <4>3 DEF ResultsOwed
            <4>6. TasksOwed'
                BY <2>1, <2>2, <4>2, <4>3, <4>4 DEF TasksOwed
            <4> QED
                BY <4>5, <4>6
        <3>2. ASSUME Retry(t) PROVE ResultsOwed' /\ TasksOwed'
            <4> DEFINE u == [t EXCEPT !.id = nextId, !.try = @ + 1]
            <4>1. u.node = t.node
                BY DEF TypeInv, QueueTypes, Task
            <4>2. tasks' = (tasks \ {t}) \cup {u} /\ results' = results
                BY <3>2 DEF Retry
            <4> HIDE DEF u
            <4> QED
                BY <2>1, <2>2, <4>1, <4>2 DEF ResultsOwed, TasksOwed
        <3> QED
            BY <3>1, <3>2
    <2> QED
        BY <2>1, <2>3, <2>4, <2>5 DEF PassInv
<1> QED
    BY <1>2, <1>3

\* Steps that leave what the invariant speaks of alone.
LEMMA SamePass ==
    ASSUME PassInv,
           UNCHANGED <<pc, group, todo, pending, collected, done, skipped, reports, runs, tasks, results>>
    PROVE  PassInv'
BY DEF PassInv, InForwardPass, GroupBarrier, Settled, Ahead, Traced, Collecting, FanOut, Counted,
       ResultsOwed, TasksOwed, Owed, Reported, Sent

\* The steps that leave the forward pass, and all those after it.
LEMMA PassOver ==
    ASSUME \/ EndForwardPass \/ \E n \in Node : DispatchFails(n)
           \/ LoopPass \/ WaitCancelled \/ CleanUp \/ CompleteExecution \/ FailExecution
           \/ OrchestratorDies
    PROVE  PassInv'
<1>1. pc' \notin {"queued", "enter", "dispatch", "collect"}
    BY DEF EndForwardPass, DispatchFails, WaitCancelled, CleanUp, CompleteExecution, FailExecution,
           OrchestratorDies, LoopPass, Iterate, LeaveLoop, ConditionFails, StepOver, LoopDispatch,
           BodyCollect, EndIteration, DownCollect, EndLoop, LoopDispatchFails, EndLoopPass, orchVars
<1> QED
    BY <1>1 DEF PassInv, InForwardPass

\* Redeliveries are counted.
LEMMA DupsCounted ==
    ASSUME [Next]_vars
    PROVE  dups' = dups \/ (dups < MaxDup /\ dups' = dups + 1 /\ \E t \in unacked : Redeliver(t))
<1> USE DEF queueVars
<1>1. CASE ForwardPass
    BY <1>1 DEF ForwardPass, Start, EnterGroup, Collect, EndForwardPass, DispatchInGroup,
                DispatchFails, DispatchNode
<1>2. CASE LoopPass
    <2>1. CASE Iterate \/ LeaveLoop \/ ConditionFails \/ StepOver \/ LoopDispatch
        BY <2>1 DEF Iterate, LeaveLoop, ConditionFails, StepOver, LoopDispatch, DispatchNode
    <2>2. CASE BodyCollect \/ EndIteration \/ DownCollect
        BY <2>2 DEF BodyCollect, EndIteration, DownCollect
    <2>3. CASE EndLoop \/ LoopDispatchFails \/ EndLoopPass
        BY <2>3 DEF EndLoop, LoopDispatchFails, EndLoopPass
    <2> QED
        BY <1>2, <2>1, <2>2, <2>3 DEF LoopPass
<1>3. CASE WaitTimeout \/ WaitCancelled \/ CleanUp \/ CompleteExecution \/ FailExecution
    BY <1>3 DEF WaitTimeout, WaitCancelled, CleanUp, CompleteExecution, FailExecution
<1>4. CASE Environment
    BY <1>4 DEF Environment, GraphTimesOut, TaskTimesOut, OrchestratorDies
<1>5. CASE Worker
    BY <1>5 DEF Worker, Succeed, Retry, GiveUp
<1>6. CASE Asynq
    BY <1>6 DEF Asynq, Acknowledge, Redeliver
<1>7. CASE UNCHANGED vars
    BY <1>7 DEF vars
<1> QED
    BY <1>1, <1>2, <1>3, <1>4, <1>5, <1>6, <1>7 DEF Next, Orchestrator, Quiescent

\* While none has happened, none has happened before; with a bound of 0 none ever does.
LEMMA NoDups ==
    ASSUME TypeInv, [Next]_vars
    PROVE  /\ dups' = 0 => dups = 0 /\ ~ \E t \in unacked : Redeliver(t)
           /\ MaxDup = 0 /\ dups = 0 => dups' = 0
<1>1. dups \in Nat
    BY DEF TypeInv, QueueTypes
<1>2. \A t \in unacked : Redeliver(t) => dups' = dups + 1
    BY DEF Redeliver
<1> QED
    BY <1>1, <1>2, DupsCounted

LEMMA PassKept ==
    ASSUME dups' = 0, TypeInv, PassInv, [Next]_vars
    PROVE  PassInv'
<1>1. CASE Start \/ EnterGroup \/ Collect \/ \E n \in Node : DispatchInGroup(n)
    BY <1>1, StartPass, EnterPass, CollectPass, DispatchPass
<1>2. CASE \/ EndForwardPass \/ \E n \in Node : DispatchFails(n)
           \/ LoopPass \/ WaitCancelled \/ CleanUp \/ CompleteExecution \/ FailExecution
           \/ OrchestratorDies
    BY <1>2, PassOver
<1>3. CASE WaitTimeout
    <2>1. CASE pc' = "fail"
        BY <2>1 DEF PassInv, InForwardPass
    <2>2. CASE pc' = pc
        BY <1>3, <2>2, SamePass DEF WaitTimeout, dataVars, logVars, queueVars
    <2> QED
        BY <1>3, <2>1, <2>2 DEF WaitTimeout
<1>4. CASE Worker
    BY <1>4, WorkerPass DEF Worker
<1>5. CASE Asynq
    <2>1. ~ \E t \in unacked : Redeliver(t)
        BY NoDups
    <2> QED
        BY <1>5, <2>1, SamePass DEF Asynq, Acknowledge, orchVars, dataVars, logVars
<1>6. CASE GraphTimesOut \/ TaskTimesOut \/ UNCHANGED vars
    BY <1>6, SamePass DEF GraphTimesOut, TaskTimesOut, orchVars, dataVars, logVars, queueVars, vars
<1> QED
    BY <1>1, <1>2, <1>3, <1>4, <1>5, <1>6 DEF Next, Orchestrator, ForwardPass, Environment, Quiescent

\* No task has been delivered a second time.
Once == dups = 0

\* With a bound of 0 none ever is.
LEMMA NeverTwice ==
    ASSUME MaxDup = 0
    PROVE  Spec => []Once
<1>1. Init => Once
    BY DEF Init, Once
<1>2. TypeInv /\ Once /\ [Next]_vars => Once'
    <2> SUFFICES ASSUME TypeInv, dups = 0, [Next]_vars
                 PROVE  dups' = 0
        BY DEF Once
    <2> QED
        BY DupsCounted
<1> QED
    BY <1>1, <1>2, TypesInvariant, PTL DEF Spec

\* What the fan-in counts is right for as long as none has been.
LEMMA PassWhileOnce == Spec => [](Once => PassInv)
<1>1. TypeInv /\ (Once => PassInv) /\ [Next]_vars => (Once' => PassInv')
    <2> SUFFICES ASSUME TypeInv, Once => PassInv, [Next]_vars, dups' = 0
                 PROVE  PassInv'
        BY DEF Once
    <2>1. dups = 0
        BY NoDups
    <2>2. PassInv
        BY <2>1 DEF Once
    <2> QED
        BY <2>2, PassKept
<1> QED
    BY <1>1, InitPass, TypesInvariant, PTL DEF Spec

\* While asynq delivers no task again that has pushed its result, no group starts before
\* every node of the groups before it has reported or is left out, for every graph that
\* validates, whatever fails and however results and timeouts are interleaved
\* (executeGroup).
THEOREM BarrierHolds ==
    ASSUME MaxDup = 0
    PROVE  Spec => []GroupBarrier
<1>1. PassInv => GroupBarrier
    BY DEF PassInv, GroupBarrier
<1> QED
    BY <1>1, NeverTwice, PassWhileOnce, PTL

-----------------------------------------------------------------------------
(* A clean end.  The loop pass waits for each node before the next, so     *)
(* nothing is under way between two of its steps, and nothing when it ends.*)

LateInv ==
    /\ pc \in {"loop", "body", "down", "finish", "commit"} => tasks = {} /\ results = << >>
    /\ pc \in {"bodyWait", "downWait"} =>
        /\ \A t, u \in tasks : t = u
        /\ Len(results) <= 1
        /\ tasks = {} \/ results = << >>
    /\ status = "completed" => pc = "done" /\ tasks = {} /\ results = << >>

LEMMA LoopLate ==
    ASSUME TypeInv, LateInv, LoopPass
    PROVE  LateInv'
<1>1. status' = status /\ pc # "done"
    BY DEF LoopPass, Iterate, LeaveLoop, ConditionFails, StepOver, LoopDispatch,
           BodyCollect, EndIteration, DownCollect, EndLoop, LoopDispatchFails, EndLoopPass, orchVars
<1>2. CASE LoopDispatch
    <2>1. /\ pc' \in {"bodyWait", "downWait"} /\ tasks = {} /\ results = << >>
          /\ \E back : DispatchNode(Current, back)
        BY <1>2 DEF LoopDispatch, LateInv
    <2>2. \/ /\ \A t, u \in tasks' : t = u
             /\ results' = << >>
          \/ /\ tasks' = {}
             /\ results' = << >> \/ \E r : results' = Append(<< >>, r)
        <3>1. PICK back : DispatchNode(Current, back)
            BY <2>1
        <3> QED
            BY <2>1, <3>1, DispatchCases DEF PushResult
    <2>3. Len(results') <= 1
        <3>1. CASE results' = << >>
            BY <3>1
        <3>2. ASSUME NEW r, results' = Append(<< >>, r) PROVE Len(results') <= 1
            <4>1. << >> \in Seq({r}) /\ Len(<< >>) = 0
                OBVIOUS
            <4> QED
                BY <3>2, <4>1, GrowFacts
        <3> QED
            BY <2>2, <3>1, <3>2
    <2> QED
        BY <1>1, <2>1, <2>2, <2>3 DEF LateInv
<1>3. CASE BodyCollect \/ DownCollect
    <2>1. /\ pc \in {"bodyWait", "downWait"} /\ pc' \in {"body", "down", "fail"}
          /\ results # << >> /\ results' = Tail(results) /\ tasks' = tasks
        BY <1>3 DEF BodyCollect, DownCollect, Pop, queueVars
    <2>2. tasks = {} /\ Len(results) = 1
        <3>1. tasks = {} /\ Len(results) <= 1
            BY <2>1 DEF LateInv
        <3>2. results \in Seq(Result)
            BY DEF TypeInv, QueueTypes
        <3>3. Len(results) \in Nat /\ Len(results) # 0
            BY <2>1, <3>2, ListFacts
        <3>4. \A k \in Nat : k # 0 /\ k <= 1 => k = 1
            OBVIOUS
        <3>5. Len(results) = 1
            BY <3>1, <3>3, <3>4, Zenon
        <3> QED
            BY <3>1, <3>5
    <2>3. results' = << >>
        BY <2>1, <2>2, ListFacts, HeadTypes DEF TypeInv, QueueTypes
    <2> QED
        BY <1>1, <2>1, <2>2, <2>3 DEF LateInv
<1>4. CASE \/ Iterate \/ LeaveLoop \/ ConditionFails \/ StepOver
           \/ EndIteration \/ EndLoop \/ LoopDispatchFails \/ EndLoopPass
    <2>1. /\ pc \in {"loop", "body", "down"} /\ pc' \in {"loop", "body", "down", "finish", "fail"}
          /\ UNCHANGED <<tasks, results>>
        BY <1>4 DEF Iterate, LeaveLoop, ConditionFails, StepOver, EndIteration, EndLoop,
               LoopDispatchFails, EndLoopPass, queueVars, orchVars
    <2> QED
        BY <1>1, <2>1 DEF LateInv
<1> QED
    BY <1>2, <1>3, <1>4 DEF LoopPass

LEMMA ForwardLate ==
    ASSUME TypeInv, PassInv, LateInv, ForwardPass
    PROVE  LateInv'
<1>1. status' # "completed"
    BY DEF ForwardPass, Start, EnterGroup, Collect, EndForwardPass, DispatchInGroup, DispatchFails, LateInv
<1>2. CASE EndForwardPass
    <2>1. tasks = {} /\ results = << >> /\ pc' = "loop" /\ UNCHANGED <<tasks, results>>
        BY <1>2 DEF EndForwardPass, PassInv, InForwardPass, Ahead, Collecting, queueVars
    <2> QED
        BY <1>1, <2>1 DEF LateInv
<1>3. CASE Start \/ EnterGroup \/ Collect \/ \E n \in Node : DispatchInGroup(n) \/ DispatchFails(n)
    <2>1. pc' \in {"enter", "dispatch", "collect", "fail"}
        BY <1>3 DEF Start, EnterGroup, Collect, DispatchInGroup, DispatchFails
    <2> QED
        BY <1>1, <2>1 DEF LateInv
<1> QED
    BY <1>2, <1>3 DEF ForwardPass

LEMMA OtherLate ==
    ASSUME dups' = 0, TypeInv, LateInv, [Next]_vars, ~ ForwardPass, ~ LoopPass
    PROVE  LateInv'
<1>1. CASE CleanUp
    <2>1. pc' = "commit" /\ tasks' = {} /\ results' = << >> /\ status' = status /\ pc # "done"
        BY <1>1 DEF CleanUp, DeleteKey, LateInv, queueVars
    <2> QED
        BY <2>1 DEF LateInv
<1>2. CASE CompleteExecution
    BY <1>2 DEF CompleteExecution, LateInv, queueVars
<1>3. CASE FailExecution
    BY <1>3 DEF FailExecution, LateInv
<1>4. CASE WaitTimeout \/ WaitCancelled \/ OrchestratorDies
    <2>1. /\ pc \in Active
          /\ pc' \in {"fail", "dead"} \/ pc' = pc
          /\ UNCHANGED <<status, tasks, results>>
        BY <1>4 DEF WaitTimeout, WaitCancelled, OrchestratorDies, queueVars, Active
    <2> QED
        BY <2>1 DEF LateInv, Active, Waits
<1>5. ASSUME NEW t \in tasks, Succeed(t) \/ Retry(t) \/ GiveUp(t) PROVE LateInv'
    <2>1. pc' = pc /\ status' = status
        BY <1>5 DEF Succeed, Retry, GiveUp, orchVars
    <2>2. CASE pc \in {"bodyWait", "downWait"}
        <3>1. tasks = {t} /\ results = << >>
            BY <2>2 DEF LateInv
        <3>2. CASE Succeed(t) \/ GiveUp(t)
            <4>1. tasks' = {} /\ \E r : results' = Append(<< >>, r)
                BY <3>1, <3>2 DEF Succeed, GiveUp, Push, PushResult
            <4>2. Len(results') <= 1
                <5>1. PICK r : results' = Append(<< >>, r)
                    BY <4>1
                <5>2. << >> \in Seq({r}) /\ Len(<< >>) = 0
                    OBVIOUS
                <5> QED
                    BY <5>1, <5>2, GrowFacts
            <4> QED
                BY <2>1, <2>2, <4>1, <4>2 DEF LateInv
        <3>3. CASE Retry(t)
            <4>1. tasks' = {[t EXCEPT !.id = nextId, !.try = @ + 1]} /\ results' = << >>
                BY <3>1, <3>3 DEF Retry
            <4> QED
                BY <2>1, <2>2, <3>1, <4>1 DEF LateInv
        <3> QED
            BY <1>5, <3>2, <3>3
    <2>3. CASE pc \notin {"bodyWait", "downWait"}
        BY <2>1, <2>3 DEF LateInv
    <2> QED
        BY <2>2, <2>3
<1>6. CASE Asynq
    <2>1. ~ \E t \in unacked : Redeliver(t)
        BY NoDups
    <2>2. UNCHANGED <<pc, status, tasks, results>>
        BY <1>6, <2>1 DEF Asynq, Acknowledge, orchVars
    <2> QED
        BY <2>2 DEF LateInv
<1>7. CASE GraphTimesOut \/ TaskTimesOut \/ UNCHANGED vars
    <2>1. UNCHANGED <<pc, status, tasks, results>>
        BY <1>7 DEF GraphTimesOut, TaskTimesOut, orchVars, queueVars, vars
    <2> QED
        BY <2>1 DEF LateInv
<1> QED
    BY <1>1, <1>2, <1>3, <1>4, <1>5, <1>6, <1>7 DEF Next, Orchestrator, Worker, Environment, Quiescent

LEMMA LateWhileOnce == Spec => [](Once => LateInv)
<1>1. Init => LateInv
    BY DEF Init, LateInv
<1>2. TypeInv /\ (Once => PassInv) /\ (Once => LateInv) /\ [Next]_vars
            => (Once' => LateInv')
    <2> SUFFICES ASSUME TypeInv, Once => PassInv, Once => LateInv, [Next]_vars, dups' = 0
                 PROVE  LateInv'
        BY DEF Once
    <2>1. dups = 0
        BY NoDups
    <2>2. PassInv /\ LateInv
        BY <2>1 DEF Once
    <2> QED
        BY <2>2, ForwardLate, LoopLate, OtherLate
<1> QED
    BY <1>1, <1>2, PassWhileOnce, TypesInvariant, PTL DEF Spec

\* An execution that completes leaves no task of its own behind that could still run, and
\* no result that nobody reads, while asynq delivers no task again that has pushed its
\* result (executeGroup, executeLoopPass).
THEOREM EndIsClean ==
    ASSUME MaxDup = 0
    PROVE  Spec => []CompletedIsClean
<1>1. LateInv => CompletedIsClean
    BY DEF LateInv, CompletedIsClean
<1> QED
    BY <1>1, NeverTwice, LateWhileOnce, PTL

-----------------------------------------------------------------------------
(* Branches.  What a conditional leaves without a value is skipped, and    *)
(* nothing else: the dead edges are those that are really dead, whoever is *)
(* skipped has no other, whoever is not has a live one, and all this never *)
(* reaches back into a group that was dispatched.                          *)

\* What the code does not ask for: the target of a back-edge has a forward edge as well.
\* Without one it is skipped as soon as the back-edge dies, though it has run.
EntriesHaveInputs == \A e \in Edge : e.back => ForwardIn(e.dst) # {}

\* Whoever is not skipped has a reason: no dead edge at all, or a live one.
SkipsSettled(skip, gone) ==
    \A k \in Node \ skip :
        \/ \A e \in InEdges(k) : e \notin gone
        \/ \E e \in ForwardIn(k) : e \notin gone /\ e.src \notin skip

\* A skipped node was left without a live edge before it was dispatched.
SkipsForced == \A n \in skipped : runs[n] = 0 /\ ForwardIn(n) \subseteq dead

\* Neither inputs nor skipped nodes are dispatched.
Dispatchable ==
    /\ Collecting => todo \cap (skipped \cup Inputs) = {}
    /\ \A n \in Inputs : runs[n] = 0

BranchInv ==
    InForwardPass =>
        /\ dead = {e \in Edge : ReallyDead(e)}
        /\ SkipsSettled(skipped, dead)
        /\ SkipsForced
        /\ Dispatchable

LEMMA EdgeEnds ==
    ASSUME NEW e \in Edge
    PROVE  e.src \in Node /\ e.dst \in Node /\ e.back \in BOOLEAN
BY DEF GraphAssumption

LEMMA GroupOf ==
    ASSUME NEW n \in Node
    PROVE  \E i \in 1 .. Len(Group) : n \in Group[i]
BY DEF GraphAssumption

LEMMA OneGroup ==
    ASSUME NEW i \in 1 .. Len(Group), NEW j \in 1 .. Len(Group), NEW n, n \in Group[i], n \in Group[j]
    PROVE  i = j
BY DEF GraphAssumption

\* The groups a node waits for come before its own.
LEMMA EdgesGoOn ==
    ASSUME NEW i \in 1 .. Len(Group), NEW j \in 1 .. Len(Group), NEW e \in Edge, ~e.back,
           e.src \in Group[i], e.dst \in Group[j]
    PROVE  i < j
BY DEF GraphAssumption

\* What markSkipped reaches is closed: a visit of any node it left alone changes nothing.
LEMMA SkipsClosed ==
    ASSUME NEW skip \in SUBSET Node, NEW gone
    PROVE  /\ skip \subseteq SkipsOf(gone, skip)
           /\ SkipsOf(gone, skip) \subseteq Node
           /\ ClosedUnderSkips(SkipsOf(gone, skip), gone, skip)
<1> DEFINE W == SkipsOf(gone, skip)
<1>1. skip \subseteq W /\ W \subseteq Node
    BY DEF SkipsOf
<1>2. ClosedUnderSkips(W, gone, skip)
    <2> DEFINE deadW == gone \cup UNION {OutEdges(n) : n \in W \ skip}
    <2> SUFFICES ASSUME NEW k \in Node \ W
                 PROVE  \/ \A e \in InEdges(k) : e \notin deadW
                        \/ \E e \in ForwardIn(k) : e \notin deadW /\ e.src \notin W
        BY DEF ClosedUnderSkips
    <2>1. PICK S \in SUBSET Node : skip \subseteq S /\ ClosedUnderSkips(S, gone, skip) /\ k \notin S
        BY DEF SkipsOf
    <2> DEFINE deadS == gone \cup UNION {OutEdges(n) : n \in S \ skip}
    <2>2. W \subseteq S
        BY <2>1 DEF SkipsOf
    <2>3. deadW \subseteq deadS
        BY <2>2
    <2>4. \/ \A e \in InEdges(k) : e \notin deadS
          \/ \E e \in ForwardIn(k) : e \notin deadS /\ e.src \notin S
        BY <2>1 DEF ClosedUnderSkips
    <2> QED
        BY <2>2, <2>3, <2>4
<1> QED
    BY <1>1, <1>2

\* It is the least such set: no node is in it that was not skipped before and has a
\* forward edge left alive.
LEMMA SkipsLeast ==
    ASSUME NEW skip \in SUBSET Node, NEW gone,
           \A x \in skip : OutEdges(x) \subseteq gone /\ ForwardIn(x) \subseteq gone
    PROVE  \A n \in SkipsOf(gone, skip) :
                ForwardIn(n) \subseteq gone \cup UNION {OutEdges(x) : x \in SkipsOf(gone, skip) \ skip}
<1> DEFINE W == SkipsOf(gone, skip)
           deadW == gone \cup UNION {OutEdges(x) : x \in W \ skip}
           T == {n \in W : ForwardIn(n) \subseteq deadW}
           deadT == gone \cup UNION {OutEdges(x) : x \in T \ skip}
<1>1. /\ skip \subseteq W /\ W \subseteq Node
      /\ \A k \in Node \ W : \/ \A e \in InEdges(k) : e \notin deadW
                             \/ \E e \in ForwardIn(k) : e \notin deadW /\ e.src \notin W
    BY SkipsClosed DEF ClosedUnderSkips
<1>2. skip \subseteq T /\ T \subseteq W /\ deadT \subseteq deadW
    BY <1>1
<1>3. ClosedUnderSkips(T, gone, skip)
    <2> SUFFICES ASSUME NEW k \in Node \ T
                 PROVE  \/ \A e \in InEdges(k) : e \notin deadT
                        \/ \E e \in ForwardIn(k) : e \notin deadT /\ e.src \notin T
        BY DEF ClosedUnderSkips
    <2>1. CASE k \notin W
        BY <1>1, <1>2, <2>1
    <2>2. CASE k \in W
        <3>1. PICK e \in ForwardIn(k) : e \notin deadW
            BY <2>2
        <3>2. e \in OutEdges(e.src)
            BY DEF ForwardIn, InEdges, OutEdges
        <3>3. e.src \notin W
            BY <3>1, <3>2
        <3> QED
            BY <1>2, <3>1, <3>3
    <2> QED
        BY <2>1, <2>2
<1>4. T \in SUBSET Node
    BY <1>1, <1>2
<1>5. W \subseteq T
    <2> HIDE DEF T
    <2> QED
        BY <1>2, <1>3, <1>4 DEF SkipsOf
<1> QED
    BY <1>5

Later(g) == {x \in Node : \E j \in 1 .. Len(Group) : j > g /\ x \in Group[j]}

\* A conditional of group g skips only nodes of later groups.
LEMMA SkipsComeLater ==
    ASSUME EntriesHaveInputs, NEW g \in 1 .. Len(Group), NEW n \in Group[g],
           NEW skip \in SUBSET Node, NEW gone, SkipsSettled(skip, gone),
           \A x \in skip : OutEdges(x) \subseteq gone,
           NEW killed \in SUBSET OutEdges(n)
    PROVE  SkipsOf(gone \cup killed, skip) \subseteq skip \cup Later(g)
<1> DEFINE S == skip \cup Later(g)
           deadS == (gone \cup killed) \cup UNION {OutEdges(x) : x \in S \ skip}
<1>1. ClosedUnderSkips(S, gone \cup killed, skip)
    <2> SUFFICES ASSUME NEW k \in Node \ S
                 PROVE  \/ \A e \in InEdges(k) : e \notin deadS
                        \/ \E e \in ForwardIn(k) : e \notin deadS /\ e.src \notin S
        BY DEF ClosedUnderSkips
    <2>1. PICK h \in 1 .. Len(Group) : k \in Group[h]
        BY GroupOf
    <2>2. h <= g
        BY <2>1 DEF Later
    <2>3. ASSUME NEW e \in ForwardIn(k), e \notin gone PROVE e \notin deadS /\ e.src \notin S
        <3>1. e \in Edge /\ ~e.back /\ e.dst = k /\ e.src \in Node
            BY EdgeEnds DEF ForwardIn, InEdges
        <3>2. PICK i \in 1 .. Len(Group) : e.src \in Group[i]
            BY <3>1, GroupOf
        <3>3. i < h
            BY <2>1, <3>1, <3>2, EdgesGoOn
        <3>4. e.src \notin Later(g)
            <4> SUFFICES ASSUME NEW j \in 1 .. Len(Group), j > g, e.src \in Group[j] PROVE FALSE
                BY DEF Later
            <4>1. i = j
                BY <3>2, OneGroup
            <4> QED
                BY <2>2, <3>3, <4>1
        <3>5. e.src # n
            <4> SUFFICES ASSUME e.src = n PROVE FALSE
                OBVIOUS
            <4>1. i = g
                BY <3>2, OneGroup
            <4> QED
                BY <2>2, <3>3, <4>1
        <3>6. e \in OutEdges(e.src)
            BY <3>1 DEF OutEdges
        <3>7. e.src \notin skip
            BY <2>3, <3>6
        <3>8. e \notin killed
            BY <3>5 DEF OutEdges
        <3>9. \A x \in S \ skip : e \notin OutEdges(x)
            BY <3>4 DEF OutEdges
        <3> QED
            BY <2>3, <3>4, <3>7, <3>8, <3>9
    <2>4. CASE \E e \in ForwardIn(k) : e \notin gone /\ e.src \notin skip
        BY <2>3, <2>4
    <2>5. CASE \A e \in InEdges(k) : e \notin gone
        <3>1. CASE ForwardIn(k) = {}
            <4>1. \A e \in InEdges(k) : e \in Edge /\ ~e.back
                BY <3>1 DEF EntriesHaveInputs, InEdges
            <4> QED
                BY <3>1, <4>1 DEF ForwardIn, GraphAssumption
        <3>2. CASE ForwardIn(k) # {}
            <4>1. PICK e \in ForwardIn(k) : TRUE
                BY <3>2
            <4>2. e \notin gone
                BY <2>5 DEF ForwardIn
            <4> QED
                BY <2>3, <4>1, <4>2
        <3> QED
            BY <3>1, <3>2
    <2> QED
        BY <2>4, <2>5 DEF SkipsSettled
<1>2. S \in SUBSET Node /\ skip \subseteq S
    BY DEF Later
<1> HIDE DEF S
<1>3. SkipsOf(gone \cup killed, skip) \subseteq S
    BY <1>1, <1>2 DEF SkipsOf
<1> QED
    BY <1>3 DEF S

-----------------------------------------------------------------------------
(* The stages of ProcessTask.                                              *)

AfterPass == {"loop", "body", "bodyWait", "down", "downWait", "finish", "commit"}

\* Nothing is there before the start, the row says running while ProcessTask is at work,
\* and the forward pass is over once all groups are.
StageInv ==
    /\ pc = "queued" =>
        /\ status = "pending" /\ group = 1 /\ done = {} /\ skipped = {}
        /\ \A n \in Node : runs[n] = 0 /\ reports[n] = 0
    /\ pc \in Active => status = "running"
    /\ pc \in AfterPass => group = Len(Group) + 1

LEMMA InitStage == Init => StageInv
BY DEF Init, StageInv, Active, Waits, AfterPass

LEMMA ForwardStage == ASSUME StageInv, ForwardPass PROVE StageInv'
<1> USE DEF StageInv, Active, Waits, AfterPass
<1>1. CASE Start
    BY <1>1 DEF Start
<1>2. CASE EnterGroup
    BY <1>2 DEF EnterGroup
<1>3. CASE Collect
    BY <1>3 DEF Collect
<1>4. CASE EndForwardPass
    BY <1>4 DEF EndForwardPass
<1>5. ASSUME NEW n \in Node, DispatchInGroup(n) PROVE StageInv'
    BY <1>5 DEF DispatchInGroup
<1>6. ASSUME NEW n \in Node, DispatchFails(n) PROVE StageInv'
    BY <1>6 DEF DispatchFails
<1> QED
    BY <1>1, <1>2, <1>3, <1>4, <1>5, <1>6 DEF ForwardPass

\* The loop pass leaves the row and the groups as they are.
LEMMA LoopStays ==
    ASSUME LoopPass
    PROVE  /\ pc \in AfterPass /\ pc' \in AfterPass \cup {"fail"}
           /\ status' = status /\ group' = group
<1> USE DEF AfterPass, orchVars
<1>1. CASE Iterate \/ LeaveLoop \/ ConditionFails \/ StepOver
    BY <1>1 DEF Iterate, LeaveLoop, ConditionFails, StepOver
<1>2. CASE LoopDispatch \/ LoopDispatchFails
    BY <1>2 DEF LoopDispatch, LoopDispatchFails
<1>3. CASE BodyCollect \/ DownCollect
    BY <1>3 DEF BodyCollect, DownCollect
<1>4. CASE EndIteration \/ EndLoop \/ EndLoopPass
    BY <1>4 DEF EndIteration, EndLoop, EndLoopPass
<1> QED
    BY <1>1, <1>2, <1>3, <1>4 DEF LoopPass

LEMMA LoopStage == ASSUME StageInv, LoopPass PROVE StageInv'
BY LoopStays DEF StageInv, Active, Waits, AfterPass

\* What the workers, asynq and the timeouts leave alone.
LEMMA OthersLeave ==
    ASSUME Worker \/ Asynq \/ GraphTimesOut \/ TaskTimesOut \/ UNCHANGED vars
    PROVE  UNCHANGED <<pc, status, group, todo, done, out, skipped, dead, state, reports, runs>>
<1> USE DEF orchVars, dataVars, logVars
<1>1. CASE Worker
    BY <1>1 DEF Worker, Succeed, Retry, GiveUp
<1>2. CASE Asynq
    BY <1>2 DEF Asynq, Acknowledge, Redeliver
<1>3. CASE GraphTimesOut \/ TaskTimesOut
    BY <1>3 DEF GraphTimesOut, TaskTimesOut
<1>4. CASE UNCHANGED vars
    BY <1>4 DEF vars
<1> QED
    BY <1>1, <1>2, <1>3, <1>4

\* The waits that end without a result, the end of ProcessTask, and its death.
LEMMA EndsLeave ==
    ASSUME \/ WaitTimeout \/ WaitCancelled \/ CleanUp \/ CompleteExecution \/ FailExecution
           \/ OrchestratorDies
    PROVE  /\ UNCHANGED <<group, todo, done, out, skipped, dead, state, reports, runs>>
           /\ pc \in Active /\ pc' \in {pc, "fail", "commit", "done", "dead"}
           /\ pc' \in {"done", "dead"} \/ status' = status
           /\ pc' = "commit" => pc \in {"finish", "commit"}
<1> USE DEF orchVars, dataVars, logVars, Active, Waits
<1>1. CASE WaitTimeout \/ WaitCancelled
    BY <1>1 DEF WaitTimeout, WaitCancelled
<1>2. CASE CleanUp
    BY <1>2 DEF CleanUp
<1>3. CASE CompleteExecution \/ FailExecution
    BY <1>3 DEF CompleteExecution, FailExecution
<1>4. CASE OrchestratorDies
    BY <1>4 DEF OrchestratorDies
<1> QED
    BY <1>1, <1>2, <1>3, <1>4

LEMMA StageKept == StageInv /\ [Next]_vars => StageInv'
<1> SUFFICES ASSUME StageInv, [Next]_vars PROVE StageInv'
    OBVIOUS
<1>1. CASE ForwardPass \/ LoopPass
    BY <1>1, ForwardStage, LoopStage
<1>2. CASE \/ WaitTimeout \/ WaitCancelled \/ CleanUp \/ CompleteExecution \/ FailExecution
           \/ OrchestratorDies
    BY <1>2, EndsLeave DEF StageInv, Active, Waits, AfterPass
<1>3. CASE Worker \/ Asynq \/ GraphTimesOut \/ TaskTimesOut \/ UNCHANGED vars
    BY <1>3, OthersLeave DEF StageInv
<1> QED
    BY <1>1, <1>2, <1>3 DEF Next, Orchestrator, Environment, Quiescent

-----------------------------------------------------------------------------
(* The branches, step by step.                                             *)

LEMMA InitBranch == Init => BranchInv
<1> SUFFICES ASSUME Init PROVE BranchInv
    OBVIOUS
<1>1. dead = {} /\ skipped = {} /\ done = {} /\ pc = "queued" /\ \A n \in Node : runs[n] = 0
    BY DEF Init
<1>2. dead = {e \in Edge : ReallyDead(e)}
    BY <1>1 DEF ReallyDead
<1>3. SkipsSettled(skipped, dead) /\ SkipsForced
    BY <1>1 DEF SkipsSettled, SkipsForced
<1>4. Dispatchable
    BY <1>1 DEF Dispatchable, Collecting, Inputs
<1> QED
    BY <1>2, <1>3, <1>4 DEF BranchInv

LEMMA StartBranch == StageInv /\ BranchInv /\ Start => BranchInv'
<1> SUFFICES ASSUME StageInv, BranchInv, Start PROVE BranchInv'
    OBVIOUS
<1>1. /\ pc = "queued" /\ pc' = "enter" /\ done = {} /\ done' = Inputs
      /\ UNCHANGED <<out, skipped, dead, runs>>
    BY DEF Start, StageInv
<1>2. /\ dead = {e \in Edge : ReallyDead(e)} /\ SkipsSettled(skipped, dead)
      /\ SkipsForced /\ Dispatchable
    BY <1>1 DEF BranchInv, InForwardPass
<1>3. \A e \in Edge : ReallyDead(e)' <=> ReallyDead(e)
    BY <1>1 DEF ReallyDead, Inputs
<1>4. dead' = {e \in Edge : ReallyDead(e)'} /\ SkipsSettled(skipped', dead') /\ SkipsForced'
    BY <1>1, <1>2, <1>3 DEF SkipsForced
<1>5. Dispatchable'
    BY <1>1, <1>2 DEF Dispatchable, Collecting
<1> QED
    BY <1>4, <1>5 DEF BranchInv

LEMMA EnterBranch == BranchInv /\ EnterGroup => BranchInv'
<1> SUFFICES ASSUME BranchInv, EnterGroup PROVE BranchInv'
    OBVIOUS
<1>1. /\ pc = "enter" /\ todo' = Runnable(group)
      /\ UNCHANGED <<done, out, skipped, dead, runs>>
    BY DEF EnterGroup, dataVars
<1>2. /\ dead = {e \in Edge : ReallyDead(e)} /\ SkipsSettled(skipped, dead)
      /\ SkipsForced /\ Dispatchable
    BY <1>1 DEF BranchInv, InForwardPass
<1>3. dead' = {e \in Edge : ReallyDead(e)'} /\ SkipsSettled(skipped', dead') /\ SkipsForced'
    BY <1>1, <1>2 DEF SkipsForced, ReallyDead
<1>4. Dispatchable'
    BY <1>1, <1>2 DEF Dispatchable, Runnable, Inputs
<1> QED
    BY <1>3, <1>4 DEF BranchInv

LEMMA DispatchBranch ==
    ASSUME TypeInv, BranchInv, NEW n \in Node, DispatchInGroup(n)
    PROVE  BranchInv'
<1>1. /\ pc = "dispatch" /\ n \in todo /\ todo' = todo \ {n}
      /\ runs' = [runs EXCEPT ![n] = @ + 1]
      /\ UNCHANGED <<done, out, skipped, dead>>
    BY DEF DispatchInGroup, DispatchNode, dataVars
<1>2. /\ dead = {e \in Edge : ReallyDead(e)} /\ SkipsSettled(skipped, dead)
      /\ SkipsForced /\ Dispatchable
    BY <1>1 DEF BranchInv, InForwardPass
<1>3. n \notin skipped /\ n \notin Inputs
    BY <1>1, <1>2 DEF Dispatchable, Collecting
<1>4. dead' = {e \in Edge : ReallyDead(e)'} /\ SkipsSettled(skipped', dead')
    BY <1>1, <1>2 DEF ReallyDead
<1>5. SkipsForced'
    BY <1>1, <1>2, <1>3 DEF SkipsForced, TypeInv, DataTypes, QueueTypes
<1>6. Dispatchable'
    BY <1>1, <1>2, <1>3 DEF Dispatchable, Collecting, Inputs, TypeInv, QueueTypes
<1> QED
    BY <1>4, <1>5, <1>6 DEF BranchInv

\* What a result consumed in the forward pass does to the skipped nodes.
LEMMA CollectSkips ==
    ASSUME EntriesHaveInputs, TypeInv, PassInv, BranchInv, Collect
    PROVE  LET m == Head(results).node IN
           /\ m \in Node /\ m \in Group[group] /\ runs[m] > 0 /\ reports[m] = 0
           /\ reports' = [reports EXCEPT ![m] = @ + 1]
           /\ done' \subseteq done \cup {m}
           /\ skipped \subseteq skipped' /\ skipped' \subseteq skipped \cup Later(group)
           /\ dead' = {e \in Edge : ReallyDead(e)'}
           /\ SkipsSettled(skipped', dead')
           /\ \A n \in skipped' : ForwardIn(n) \subseteq dead'
<1> DEFINE r == Head(results)
           m == r.node
<1>1. pc = "collect" /\ results # << >> /\ ProcessNodeResult(r)
    BY DEF Collect
<1>2. /\ Ahead /\ Traced /\ ResultsOwed
      /\ dead = {e \in Edge : ReallyDead(e)} /\ SkipsSettled(skipped, dead)
      /\ SkipsForced /\ Dispatchable
    BY <1>1 DEF PassInv, BranchInv, InForwardPass, Collecting
<1>3. group \in 1 .. Len(Group) /\ Group[group] \subseteq Node
    BY <1>1, GraphFacts DEF TypeInv, ControlTypes, InRange
<1>4. m \in Group[group] /\ m \in Node /\ runs[m] > 0 /\ reports[m] = 0
    <2>1. m = results[1].node /\ 1 \in 1 .. Len(results)
        BY <1>1, ListFacts DEF TypeInv, QueueTypes
    <2>2. m \in Owed
        BY <1>2, <2>1 DEF ResultsOwed
    <2>3. reports[m] \in Nat
        BY <1>3, <2>2 DEF Owed, Sent, TypeInv, DataTypes
    <2> QED
        BY <1>3, <2>2, <2>3 DEF Owed, Sent, Reported
<1>5. m \notin done /\ m \notin skipped
    <2>1. m \notin Inputs
        BY <1>2, <1>4 DEF Dispatchable
    <2> QED
        BY <1>2, <1>4, <2>1 DEF Traced, SkipsForced
<1>6. r \in Result
    BY <1>1, HeadTypes
<1> HIDE DEF r
<1>7. reports' = [reports EXCEPT ![m] = @ + 1]
    BY <1>1 DEF ProcessNodeResult
<1>8. skipped \subseteq Node /\ \A x \in skipped : OutEdges(x) \subseteq dead /\ ForwardIn(x) \subseteq dead
    BY <1>2 DEF OutEdges, ReallyDead, SkipsForced, TypeInv, DataTypes
<1>9. CASE ~ r.ok
    <2>1. UNCHANGED <<done, out, skipped, dead>>
        BY <1>1, <1>9 DEF ProcessNodeResult, dataVars
    <2>2. dead' = {e \in Edge : ReallyDead(e)'}
        BY <1>2, <2>1 DEF ReallyDead
    <2> QED
        BY <1>2, <1>4, <1>7, <1>8, <2>1, <2>2 DEF r
<1>10. CASE r.ok
    <2> DEFINE kill == IF Kind[m] = "conditional" THEN DeadPorts(m, r.live) ELSE {}
               skips == IF kill = {} THEN skipped ELSE SkipsOf(dead \cup kill, skipped)
    <2>1. /\ skipped' = skips
          /\ dead' = dead \cup kill \cup UNION {OutEdges(n) : n \in skips \ skipped}
          /\ done' = done \cup {m}
          /\ out' = [out EXCEPT ![m] = [run |-> r.run, live |-> r.live]]
        BY <1>1, <1>10 DEF ProcessNodeResult, PropagateSkips, StoreOutputs
    <2>2. kill \subseteq OutEdges(m) /\ \A e \in Edge : e \in kill <=>
            e.src = m /\ Kind[m] = "conditional" /\ e.port \notin r.live
        BY DEF DeadPorts, OutEdges
    <2>3. \A n \in Node : out'[n].live = IF n = m THEN r.live ELSE out[n].live
        BY <1>4, <2>1 DEF TypeInv, DataTypes
    <2> HIDE DEF kill
    <2>4. CASE kill = {}
        <3>1. skipped' = skipped /\ dead' = dead
            BY <2>1, <2>4
        <3>2. \A e \in Edge : ReallyDead(e)' <=> ReallyDead(e)
            <4> TAKE e \in Edge
            <4>1. e.src \in Node
                BY EdgeEnds
            <4>2. CASE e.src = m
                BY <1>5, <2>1, <2>2, <2>3, <2>4, <3>1, <4>1, <4>2 DEF ReallyDead
            <4>3. CASE e.src # m
                BY <2>1, <2>3, <3>1, <4>1, <4>3 DEF ReallyDead
            <4> QED
                BY <4>2, <4>3
        <3>3. dead' = {e \in Edge : ReallyDead(e)'}
            BY <1>2, <3>1, <3>2
        <3> QED
            BY <1>2, <1>4, <1>7, <1>8, <2>1, <3>1, <3>3 DEF r
    <2>5. CASE kill # {}
        <3> DEFINE gone == dead \cup kill
        <3>1. skips = SkipsOf(gone, skipped)
            BY <2>5
        <3>2. dead' = gone \cup UNION {OutEdges(x) : x \in skips \ skipped}
            BY <2>1
        <3>3. /\ skipped \subseteq skips /\ skips \subseteq Node
              /\ ClosedUnderSkips(skips, gone, skipped)
            BY <1>8, <3>1, SkipsClosed
        <3>4. SkipsSettled(skips, dead')
            BY <3>2, <3>3 DEF ClosedUnderSkips, SkipsSettled
        <3>5. \A n \in skips : ForwardIn(n) \subseteq dead'
            <4>1. \A x \in skipped : OutEdges(x) \subseteq gone /\ ForwardIn(x) \subseteq gone
                BY <1>8
            <4> QED
                BY <1>8, <3>1, <3>2, <4>1, SkipsLeast
        <3>6. skips \subseteq skipped \cup Later(group)
            <4>1. \A x \in skipped : OutEdges(x) \subseteq dead
                BY <1>8
            <4> QED
                BY <1>2, <1>3, <1>4, <1>8, <2>2, <3>1, <4>1, SkipsComeLater
        <3> HIDE DEF skips
        <3>7. \A e \in Edge : e \in dead' <=> ReallyDead(e)'
            <4> SUFFICES ASSUME NEW e \in Edge PROVE e \in dead' <=> ReallyDead(e)'
                OBVIOUS
            <4>1. e.src \in Node /\ (\A x \in Node : e \in OutEdges(x) <=> e.src = x)
                BY EdgeEnds DEF OutEdges
            <4>2. e \in dead <=> ReallyDead(e)
                BY <1>2
            <4>3. e \in dead' <=> e \in dead \/ e \in kill \/ e.src \in skips \ skipped
                BY <3>2, <3>3, <4>1
            <4>4. CASE e.src = m
                BY <1>5, <2>1, <2>2, <2>3, <4>1, <4>2, <4>3, <4>4 DEF ReallyDead
            <4>5. CASE e.src # m
                BY <2>1, <2>2, <2>3, <3>3, <4>1, <4>2, <4>3, <4>5 DEF ReallyDead
            <4> QED
                BY <4>4, <4>5
        <3>8. dead' \subseteq Edge
            BY <2>2, <3>2, <1>2 DEF OutEdges
        <3>9. dead' = {e \in Edge : ReallyDead(e)'}
            BY <3>7, <3>8
        <3> QED
            BY <1>4, <1>7, <2>1, <3>3, <3>4, <3>5, <3>6, <3>9 DEF r
    <2> QED
        BY <2>4, <2>5
<1> QED
    BY <1>9, <1>10

LEMMA CollectBranch ==
    ASSUME EntriesHaveInputs, TypeInv, PassInv, BranchInv, Collect
    PROVE  BranchInv'
<1>1. pc = "collect" /\ UNCHANGED <<todo, runs>>
    BY DEF Collect
<1>2. /\ Ahead /\ todo = {} /\ SkipsForced /\ Dispatchable
    BY <1>1 DEF PassInv, BranchInv, InForwardPass, Collecting, FanOut
<1>3. /\ skipped' \subseteq skipped \cup Later(group)
      /\ dead' = {e \in Edge : ReallyDead(e)'}
      /\ SkipsSettled(skipped', dead')
      /\ \A n \in skipped' : ForwardIn(n) \subseteq dead'
    BY CollectSkips
<1>4. SkipsForced'
    <2>1. \A n \in Later(group) : runs[n] = 0
        BY <1>2 DEF Ahead, Later
    <2> QED
        BY <1>1, <1>2, <1>3, <2>1 DEF SkipsForced
<1>5. Dispatchable'
    BY <1>1, <1>2 DEF Dispatchable
<1> QED
    BY <1>3, <1>4, <1>5 DEF BranchInv

LEMMA BranchKept ==
    ASSUME EntriesHaveInputs, TypeInv, StageInv, PassInv, BranchInv, [Next]_vars
    PROVE  BranchInv'
<1>1. CASE Start \/ EnterGroup \/ Collect \/ \E n \in Node : DispatchInGroup(n)
    BY <1>1, StartBranch, EnterBranch, CollectBranch, DispatchBranch
<1>2. CASE \/ EndForwardPass \/ (\E n \in Node : DispatchFails(n)) \/ LoopPass
    <2>1. pc' \notin {"queued", "enter", "dispatch", "collect"}
        <3>1. CASE EndForwardPass \/ \E n \in Node : DispatchFails(n)
            BY <3>1 DEF EndForwardPass, DispatchFails
        <3>2. CASE LoopPass
            <4> USE DEF orchVars
            <4>1. CASE Iterate \/ LeaveLoop \/ ConditionFails \/ StepOver \/ LoopDispatch
                BY <4>1 DEF Iterate, LeaveLoop, ConditionFails, StepOver, LoopDispatch
            <4>2. CASE BodyCollect \/ EndIteration \/ DownCollect
                BY <4>2 DEF BodyCollect, EndIteration, DownCollect
            <4>3. CASE EndLoop \/ LoopDispatchFails \/ EndLoopPass
                BY <4>3 DEF EndLoop, LoopDispatchFails, EndLoopPass
            <4> QED
                BY <3>2, <4>1, <4>2, <4>3 DEF LoopPass
        <3> QED
            BY <1>2, <3>1, <3>2
    <2> QED
        BY <2>1 DEF BranchInv, InForwardPass
<1>3. CASE \/ WaitTimeout \/ WaitCancelled \/ CleanUp \/ CompleteExecution \/ FailExecution
           \/ OrchestratorDies \/ Worker \/ Asynq \/ GraphTimesOut \/ TaskTimesOut \/ UNCHANGED vars
    <2>1. /\ UNCHANGED <<todo, done, out, skipped, dead, runs>>
          /\ pc' = pc \/ pc' \notin {"queued", "enter", "dispatch", "collect"}
        BY <1>3, EndsLeave, OthersLeave
    <2>2. CASE pc' = pc
        BY <2>1, <2>2 DEF BranchInv, InForwardPass, SkipsForced, Dispatchable, Collecting, ReallyDead
    <2>3. CASE pc' \notin {"queued", "enter", "dispatch", "collect"}
        BY <2>3 DEF BranchInv, InForwardPass
    <2> QED
        BY <2>1, <2>2, <2>3
<1> QED
    BY <1>1, <1>2, <1>3 DEF Next, Orchestrator, ForwardPass, Environment, Quiescent

\* In the forward pass exactly the nodes that no live edge leads to are skipped, whatever
\* order the results of conditionals come in, and none of them ever runs, for every
\* validated graph whose loops are entered by forward edges, while asynq delivers no task
\* again that has pushed its result (propagateSkips, markSkipped).
THEOREM BranchesExact ==
    ASSUME MaxDup = 0, EntriesHaveInputs
    PROVE  Spec => []SkipsAreExact
<1>1. Spec => []PassInv
    BY NeverTwice, PassWhileOnce, PTL
<1>2. TypeInv /\ StageInv /\ PassInv /\ BranchInv /\ [Next]_vars => BranchInv'
    BY BranchKept
<1>3. TypeInv /\ BranchInv => SkipsAreExact
    <2> SUFFICES ASSUME TypeInv, BranchInv, InForwardPass, NEW n \in Node
                 PROVE  /\ n \in skipped => runs[n] = 0 /\ \A e \in ForwardIn(n) : ReallyDead(e)
                        /\ ForwardIn(n) # {} /\ (\A e \in ForwardIn(n) : ReallyDead(e)) => n \in skipped
        BY DEF SkipsAreExact
    <2>1. dead = {e \in Edge : ReallyDead(e)} /\ SkipsSettled(skipped, dead) /\ SkipsForced
        BY DEF BranchInv
    <2>2. ForwardIn(n) \subseteq InEdges(n) /\ InEdges(n) \subseteq Edge
        BY DEF ForwardIn, InEdges
    <2>3. n \in skipped => runs[n] = 0 /\ \A e \in ForwardIn(n) : ReallyDead(e)
        BY <2>1 DEF SkipsForced
    <2>4. ASSUME ForwardIn(n) # {}, \A e \in ForwardIn(n) : ReallyDead(e) PROVE n \in skipped
        <3>1. \A e \in ForwardIn(n) : e \in dead /\ e \in InEdges(n)
            BY <2>1, <2>2, <2>4
        <3> QED
            BY <2>1, <2>4, <3>1 DEF SkipsSettled
    <2> QED
        BY <2>3, <2>4
<1> QED
    BY <1>1, <1>2, <1>3, InitStage, InitBranch, StageKept, TypesInvariant, PTL DEF Spec

-----------------------------------------------------------------------------
(* What an execution promises.                                             *)

\* "input nodes have no input ports to wire" (validate.go), and an edge needs a port at
\* either end.
InputsAreSources == \A n \in Inputs : InEdges(n) = {}

\* What the refinement shows of the row.
Outcome == CASE status = "completed" -> "completed" [] status = "failed" -> "failed" [] OTHER -> "open"

FlowInv == TypeInv /\ StageInv /\ PassInv /\ BranchInv

\* Once the forward pass is under way a node is settled, running or idle as its result
\* and its dispatch say.
LEMMA PhaseIs ==
    ASSUME NEW n \in Node, pc # "queued", group # Len(Group) + 1
    PROVE  Phase(n) = IF Settled(n) THEN "settled" ELSE IF runs[n] > 0 THEN "running" ELSE "idle"
BY DEF Phase, Settled

LEMMA PhaseIsNext ==
    ASSUME NEW n \in Node, pc' # "queued", group' # Len(Group) + 1
    PROVE  Phase(n)' = IF Settled(n)' THEN "settled" ELSE IF runs'[n] > 0 THEN "running" ELSE "idle"
BY DEF Phase, Settled

LEMMA PhaseOver ==
    /\ group = Len(Group) + 1 => \A n \in Node : Phase(n) = "settled"
    /\ group' = Len(Group) + 1 => \A n \in Node : Phase(n)' = "settled"
BY DEF Phase

\* A step that moves no node and does not end the execution.
LEMMA SameFlow ==
    ASSUME \A n \in Node : Phase(n)' = Phase(n), Outcome' = Outcome
    PROVE  UNCHANGED Abstract!vars
<1>1. [n \in Node |-> Phase(n)]' = [n \in Node |-> Phase(n)]
    OBVIOUS
<1> QED
    BY <1>1 DEF Abstract!vars, Outcome

LEMMA InitFlow == Init => Abstract!Init
<1> SUFFICES ASSUME Init PROVE Abstract!Init
    OBVIOUS
<1>1. ASSUME NEW n \in Node PROVE Phase(n) = "idle"
    <2>1. group = 1 /\ pc = "queued" /\ skipped = {} /\ reports[n] = 0 /\ runs[n] = 0
        BY DEF Init
    <2>2. group # Len(Group) + 1
        BY <2>1, GroupOf, GraphFacts
    <2> QED
        BY <2>1, <2>2 DEF Phase
<1>2. Outcome = "open"
    BY DEF Init, Outcome
<1> QED
    BY <1>1, <1>2 DEF Abstract!Init, Outcome

\* The inputs of the execution.
LEMMA StartFlow == ASSUME InputsAreSources, FlowInv, Start PROVE Abstract!Provide(Inputs)
<1>1. /\ pc = "queued" /\ pc' = "enter" /\ status = "pending" /\ status' = "running" /\ group = 1
      /\ UNCHANGED <<group, skipped, reports, runs>>
      /\ skipped = {} /\ \A n \in Node : runs[n] = 0 /\ reports[n] = 0
    BY DEF Start, logVars, FlowInv, StageInv
<1>2. ASSUME NEW n \in Node
      PROVE  Phase(n) = "idle" /\ Phase(n)' = IF n \in Inputs THEN "settled" ELSE "idle"
    <2>1. group # Len(Group) + 1
        BY <1>1, GroupOf, GraphFacts
    <2> QED
        BY <1>1, <2>1 DEF Phase
<1>3. Inputs \subseteq Node /\ \A n \in Inputs : Preds(n) = {}
    BY DEF InputsAreSources, Inputs, Preds, ForwardIn
<1>4. Outcome = "open" /\ Outcome' = "open"
    BY <1>1 DEF Outcome
<1>5. Abstract!Bypassed(Inputs, Inputs)
    BY <1>2, <1>3 DEF Abstract!Bypassed, Abstract!In
<1> QED
    BY <1>2, <1>4, <1>5 DEF Abstract!Provide, Outcome

LEMMA EnterFlow == ASSUME FlowInv, FlowInv', EnterGroup PROVE UNCHANGED Abstract!vars
<1>1. /\ pc = "enter" /\ group \in 1 .. Len(Group) /\ pc' \in {"enter", "dispatch"}
      /\ group' = group \/ group' = group + 1
      /\ UNCHANGED <<status, skipped, reports, runs>>
    BY DEF EnterGroup, dataVars, FlowInv, TypeInv, ControlTypes
<1>2. Outcome' = Outcome
    BY <1>1 DEF Outcome
<1>3. group # Len(Group) + 1
    BY <1>1, GraphFacts
<1>4. \A n \in Node : Settled(n)' = Settled(n)
    BY <1>1 DEF Settled
<1>5. CASE group' # Len(Group) + 1
    BY <1>1, <1>2, <1>3, <1>4, <1>5, PhaseIs, PhaseIsNext, SameFlow
<1>6. CASE group' = Len(Group) + 1
    <2>1. GroupBarrier' /\ pc' \in {"enter", "dispatch"}
        BY <1>1 DEF FlowInv, PassInv, InForwardPass
    <2>2. \A i \in 1 .. Len(Group) : \A n \in Group[i] : Settled(n)'
        BY <1>6, <2>1, GraphFacts DEF GroupBarrier, InForwardPass
    <2>3. \A n \in Node : Settled(n)
        BY <1>4, <2>2, GroupOf
    <2> QED
        BY <1>1, <1>2, <1>3, <1>6, <2>3, PhaseIs, PhaseOver, SameFlow
<1> QED
    BY <1>5, <1>6

\* A node is dispatched after all it depends on has settled.
LEMMA DispatchFlow ==
    ASSUME FlowInv, NEW n \in Node, DispatchInGroup(n)
    PROVE  Abstract!Run(n)
<1>1. /\ pc = "dispatch" /\ n \in todo /\ pc' # "queued"
      /\ runs' = [runs EXCEPT ![n] = @ + 1]
      /\ UNCHANGED <<status, group, skipped, reports>>
    BY DEF DispatchInGroup, DispatchNode, dataVars
<1>2. group \in 1 .. Len(Group) /\ group # Len(Group) + 1
    BY <1>1, GraphFacts DEF FlowInv, TypeInv, ControlTypes, InRange
<1>3. /\ status = "running" /\ GroupBarrier /\ Traced
      /\ n \in Group[group] /\ runs[n] = 0 /\ n \notin skipped /\ n \notin Inputs
    BY <1>1 DEF FlowInv, StageInv, Active, PassInv, BranchInv, InForwardPass, Collecting,
                FanOut, Dispatchable
<1>4. reports[n] = 0
    BY <1>3 DEF Traced
<1>5. ~ Settled(n) /\ \A k \in Node : Settled(k)' = Settled(k)
    BY <1>1, <1>3, <1>4 DEF Settled
<1>6. \A k \in Node : runs[k] \in Nat /\ runs'[k] = IF k = n THEN runs[k] + 1 ELSE runs[k]
    BY <1>1 DEF FlowInv, TypeInv, QueueTypes
<1>7. Phase(n) = "idle"
    BY <1>1, <1>2, <1>3, <1>5, PhaseIs
<1>8. \A k \in Node : Phase(k)' = IF k = n THEN "running" ELSE Phase(k)
    BY <1>1, <1>2, <1>3, <1>5, <1>6, PhaseIs, PhaseIsNext
<1>9. \A k \in Preds(n) : k \in Node /\ Phase(k) = "settled"
    <2> SUFFICES ASSUME NEW e \in Edge, ~ e.back, e.dst = n
                 PROVE  e.src \in Node /\ Phase(e.src) = "settled"
        BY DEF Preds, ForwardIn, InEdges
    <2>1. e.src \in Node
        BY EdgeEnds
    <2>2. PICK i \in 1 .. Len(Group) : e.src \in Group[i]
        BY <2>1, GroupOf
    <2>3. i < group
        BY <1>2, <1>3, <2>2, EdgesGoOn
    <2>4. Settled(e.src)
        BY <1>1, <1>2, <1>3, <2>2, <2>3 DEF GroupBarrier, InForwardPass
    <2> QED
        BY <1>1, <1>2, <2>1, <2>4, PhaseIs
<1>10. Outcome = "open" /\ Outcome' = "open"
    BY <1>1, <1>3 DEF Outcome
<1>11. [k \in Node |-> Phase(k)]' = [[k \in Node |-> Phase(k)] EXCEPT ![n] = "running"]
    BY <1>8
<1>12. Preds(n) \subseteq Abstract!In("settled")
    BY <1>9 DEF Abstract!In
<1> QED
    BY <1>7, <1>10, <1>11, <1>12 DEF Abstract!Run, Outcome

\* A result settles its node, and with it the nodes that the ports of a conditional leave
\* without a value.
LEMMA CollectFlow ==
    ASSUME EntriesHaveInputs, FlowInv, FlowInv', Collect
    PROVE  \E n \in Node : \E S \in SUBSET Node : Abstract!Settle(n, S)
<1> DEFINE m == Head(results).node
           S == {n \in skipped' \ skipped : ~ Settled(n)}
<1>1. /\ m \in Node /\ m \in Group[group] /\ runs[m] > 0 /\ reports[m] = 0
      /\ reports' = [reports EXCEPT ![m] = @ + 1]
      /\ done' \subseteq done \cup {m}
      /\ skipped \subseteq skipped' /\ skipped' \subseteq skipped \cup Later(group)
      /\ dead' = {e \in Edge : ReallyDead(e)'}
      /\ \A n \in skipped' : ForwardIn(n) \subseteq dead'
    BY CollectSkips DEF FlowInv
<1> HIDE DEF m
<1>2. /\ pc = "collect" /\ pc' \in {"collect", "enter"} /\ runs' = runs /\ status' = status
      /\ group' = group \/ group' = group + 1
    BY DEF Collect
<1>3. group \in 1 .. Len(Group) /\ group # Len(Group) + 1
    BY <1>2, GraphFacts DEF FlowInv, TypeInv, ControlTypes, InRange
<1>4. status = "running" /\ Ahead /\ Traced /\ SkipsForced /\ Dispatchable
    BY <1>2 DEF FlowInv, StageInv, Active, Waits, PassInv, BranchInv, InForwardPass
<1>5. skipped' \subseteq Node
    BY DEF FlowInv, TypeInv, DataTypes
<1>6. \A n \in Node : /\ reports[n] \in Nat
                      /\ reports'[n] = IF n = m THEN reports[n] + 1 ELSE reports[n]
    BY <1>1 DEF FlowInv, TypeInv, DataTypes
<1>7. ~ Settled(m)
    BY <1>1, <1>4 DEF Settled, SkipsForced, Dispatchable
<1>8. \A n \in Node : Settled(n)' <=> Settled(n) \/ n = m \/ n \in S
    BY <1>1, <1>6 DEF Settled
<1>9. \A n \in S : runs[n] = 0 /\ n \in Node /\ ~ Settled(n)
    BY <1>1, <1>4, <1>5 DEF Ahead, Later
<1>10. Phase(m) = "running" /\ \A n \in S : Phase(n) = "idle"
    BY <1>1, <1>2, <1>3, <1>7, <1>9, PhaseIs
<1>11. \A n \in Node : Phase(n)' = IF n \in S \cup {m} THEN "settled" ELSE Phase(n)
    <2>1. CASE group' # Len(Group) + 1
        BY <1>2, <1>3, <1>8, <2>1, PhaseIs, PhaseIsNext
    <2>2. CASE group' = Len(Group) + 1
        <3>1. GroupBarrier'
            BY <1>2 DEF FlowInv, PassInv, InForwardPass
        <3>2. \A i \in 1 .. Len(Group) : \A n \in Group[i] : Settled(n)'
            BY <1>2, <2>2, <3>1, GraphFacts DEF GroupBarrier, InForwardPass
        <3>3. \A n \in Node : Settled(n)'
            BY <3>2, GroupOf
        <3> QED
            BY <1>2, <1>3, <1>8, <2>2, <3>3, PhaseIs, PhaseOver
    <2> QED
        BY <2>1, <2>2
<1>12. ASSUME NEW n \in S PROVE \A k \in Preds(n) : k \in S \cup {m} \/ (k \in Node /\ Phase(k) = "settled")
    <2> SUFFICES ASSUME NEW e \in ForwardIn(n)
                 PROVE  e.src \in S \cup {m} \/ (e.src \in Node /\ Phase(e.src) = "settled")
        BY DEF Preds
    <2>1. e \in Edge /\ e.src \in Node
        BY EdgeEnds DEF ForwardIn, InEdges
    <2>2. ReallyDead(e)'
        BY <1>1
    <2>3. e.src \in skipped' \/ e.src \in done \/ e.src = m
        BY <1>1, <2>2 DEF ReallyDead
    <2>4. e.src \in S \/ e.src = m \/ Settled(e.src)
        BY <1>4, <2>3 DEF Settled, Traced
    <2> QED
        BY <1>2, <1>3, <2>1, <2>4, PhaseIs
<1>13. S \in SUBSET Node
    BY <1>5
<1> HIDE DEF S
<1>14. Abstract!Bypassed(S, S \cup {m})
    BY <1>10, <1>12, <1>13 DEF Abstract!Bypassed, Abstract!In
<1>15. Outcome = "open" /\ Outcome' = "open"
    BY <1>2, <1>4 DEF Outcome
<1>16. [n \in Node |-> Phase(n)]' = [n \in Node |-> IF n \in S \cup {m} THEN "settled" ELSE Phase(n)]
    BY <1>11
<1>17. Abstract!Settle(m, S)
    BY <1>1, <1>10, <1>14, <1>15, <1>16 DEF Abstract!Settle, Outcome
<1> QED
    BY <1>1, <1>13, <1>17

\* No other step moves a node, and only the last one of ProcessTask ends the execution.
LEMMA PhasesStay ==
    ASSUME \/ pc # "queued" /\ pc' # "queued"
           \/ pc' = pc,
           UNCHANGED <<group, skipped, reports, runs>>
    PROVE  \A n \in Node : Phase(n)' = Phase(n)
BY DEF Phase

LEMMA EndFlow ==
    ASSUME FlowInv, CompleteExecution \/ FailExecution
    PROVE  Abstract!Complete \/ Abstract!Fail \/ UNCHANGED Abstract!vars
<1>1. /\ pc \in {"commit", "fail"} /\ pc' = "done" /\ UNCHANGED <<group, skipped, reports, runs>>
      /\ status' \in {status, IF pc = "commit" THEN "completed" ELSE "failed"}
    BY DEF CompleteExecution, FailExecution, dataVars, logVars
<1>2. status = "running" /\ (pc = "commit" => group = Len(Group) + 1)
    BY <1>1 DEF FlowInv, StageInv, Active, AfterPass
<1>3. \A n \in Node : Phase(n)' = Phase(n)
    BY <1>1, PhasesStay
<1>4. [n \in Node |-> Phase(n)]' = [n \in Node |-> Phase(n)]
    BY <1>3
<1>5. CASE status' = status
    BY <1>3, <1>5, SameFlow DEF Outcome
<1>6. CASE status' = "failed"
    BY <1>2, <1>4, <1>6 DEF Abstract!Fail
<1>7. CASE status' = "completed" /\ pc = "commit"
    <2>1. \A n \in Node : Phase(n) = "settled"
        BY <1>2, <1>7, PhaseOver
    <2>2. Abstract!In("settled") = Node
        BY <2>1 DEF Abstract!In
    <2> QED
        BY <1>2, <1>4, <1>7, <2>2 DEF Abstract!Complete
<1> QED
    BY <1>1, <1>5, <1>6, <1>7

LEMMA LoopFlow == ASSUME FlowInv, LoopPass PROVE UNCHANGED Abstract!vars
<1>1. group = Len(Group) + 1 /\ group' = group /\ status' = status
    BY LoopStays DEF FlowInv, StageInv
<1> QED
    BY <1>1, PhaseOver, SameFlow DEF Outcome

LEMMA StepFlow ==
    ASSUME EntriesHaveInputs, InputsAreSources, FlowInv, FlowInv', [Next]_vars
    PROVE  [Abstract!Next]_Abstract!vars
<1>1. CASE Start
    <2>1. Inputs \in SUBSET Node
        BY DEF Inputs
    <2> QED
        BY <1>1, <2>1, StartFlow DEF Abstract!Next
<1>2. CASE EnterGroup
    BY <1>2, EnterFlow
<1>3. CASE Collect
    BY <1>3, CollectFlow DEF Abstract!Next
<1>4. CASE \E n \in Node : DispatchInGroup(n)
    BY <1>4, DispatchFlow DEF Abstract!Next
<1>5. CASE EndForwardPass \/ \E n \in Node : DispatchFails(n)
    <2>1. /\ pc # "queued" /\ pc' # "queued"
          /\ UNCHANGED <<status, group, skipped, reports, runs>>
        BY <1>5 DEF EndForwardPass, DispatchFails, dataVars, logVars
    <2> QED
        BY <2>1, PhasesStay, SameFlow DEF Outcome
<1>6. CASE LoopPass
    BY <1>6, LoopFlow
<1>7. CASE WaitTimeout \/ WaitCancelled \/ CleanUp \/ OrchestratorDies
    <2>1. /\ pc # "queued" /\ pc' # "queued"
          /\ UNCHANGED <<status, group, skipped, reports, runs>>
        <3>1. status' = status
            BY <1>7 DEF WaitTimeout, WaitCancelled, CleanUp, OrchestratorDies
        <3> QED
            BY <1>7, <3>1, EndsLeave DEF Active, Waits
    <2> QED
        BY <2>1, PhasesStay, SameFlow DEF Outcome
<1>8. CASE CompleteExecution \/ FailExecution
    BY <1>8, EndFlow DEF Abstract!Next
<1>9. CASE Worker \/ Asynq \/ GraphTimesOut \/ TaskTimesOut \/ UNCHANGED vars
    <2>1. UNCHANGED <<pc, status, group, skipped, reports, runs>>
        BY <1>9, OthersLeave
    <2> QED
        BY <2>1, PhasesStay, SameFlow DEF Outcome
<1> QED
    BY <1>1, <1>2, <1>3, <1>4, <1>5, <1>6, <1>7, <1>8, <1>9
    DEF Next, Orchestrator, ForwardPass, Environment, Quiescent

\* The distributed orchestrator implements Dataflow: a node is dispatched once, after
\* everything it depends on has settled, what a branch leaves out settles without running,
\* and an execution completes only when every node has settled - for every validated graph
\* whose loops are entered by forward edges and whose inputs have none, however workers
\* fail, retry and race, while asynq delivers no task again that has pushed its result
\* (ProcessTask).
THEOREM Implements ==
    ASSUME MaxDup = 0, EntriesHaveInputs, InputsAreSources
    PROVE  Spec => ImplementsDataflow
<1>1. Spec => []PassInv
    BY NeverTwice, PassWhileOnce, PTL
<1>2. TypeInv /\ StageInv /\ PassInv /\ BranchInv /\ [Next]_vars => BranchInv'
    BY BranchKept
<1>3. FlowInv /\ FlowInv' /\ [Next]_vars => [Abstract!Next]_Abstract!vars
    BY StepFlow
<1>4. Spec => []FlowInv
    BY <1>1, <1>2, InitStage, InitBranch, StageKept, TypesInvariant, PTL DEF Spec, FlowInv
<1> QED
    BY <1>3, <1>4, InitFlow, PTL DEF Spec, ImplementsDataflow, Abstract!Spec

-----------------------------------------------------------------------------
(* The loop.  One node of the body is dispatched at a time, so that the    *)
(* result popped is the one of the node and of the dispatch waited for.    *)

\* What is under way in a loop comes from the last dispatch of the current node.
LoopOwn ==
    pc \in {"bodyWait", "downWait"} =>
        /\ \A t \in tasks : t.node = Current /\ t.run = runs[Current]
        /\ \A i \in 1 .. Len(results) :
                results[i].node = Current /\ results[i].run = runs[Current]

\* The nodes walked over hold the outputs of this iteration.
Walked ==
    pc \in {"body", "bodyWait"} =>
        \A i \in 1 .. pos - 1 : TopoOrder[i] \in BodyOf[loop] \ Inputs =>
            TopoOrder[i] \in done /\ out[TopoOrder[i]].run = runs[TopoOrder[i]]

InLoop == {"body", "bodyWait", "down", "downWait"}

LEMMA LoopFresh ==
    ASSUME TypeInv, LateInv, LoopOwn, Walked, LoopPass
    PROVE  LoopOwn' /\ Walked'
<1> SUFFICES ASSUME pc' \in InLoop PROVE LoopOwn' /\ Walked'
    BY DEF LoopOwn, Walked, InLoop
<1>1. /\ pos \in Nat /\ \A i \in 1 .. Len(TopoOrder) : TopoOrder[i] \in Node
      /\ \A i, j \in 1 .. Len(TopoOrder) : TopoOrder[i] = TopoOrder[j] => i = j
      /\ Len(TopoOrder) \in Nat /\ pos >= 1
    BY GraphFacts DEF GraphAssumption, TypeInv, ControlTypes
<1>2. CASE Iterate
    BY <1>2 DEF Iterate, LoopOwn, Walked
<1>3. CASE StepOver
    <2>1. /\ pc \in {"body", "down"} /\ pc' = pc /\ pos' = pos + 1
          /\ pc = "body" => TopoOrder[pos] \notin BodyOf[loop] \ Inputs
          /\ UNCHANGED <<loop, done, out, runs>>
        BY <1>3 DEF StepOver, Stops, Current, orchVars, dataVars
    <2>2. \A i \in 1 .. pos' - 1 : i \in 1 .. pos - 1 \/ i = pos
        BY <1>1, <2>1
    <2> QED
        BY <2>1, <2>2 DEF LoopOwn, Walked
<1>4. CASE LoopDispatch
    <2>1. /\ pc \in {"body", "down"} /\ pc' = (IF pc = "body" THEN "bodyWait" ELSE "downWait")
          /\ pos # Len(TopoOrder) + 1
          /\ UNCHANGED <<loop, pos, done, out>>
          /\ \E back : DispatchNode(Current, back)
        BY <1>4 DEF LoopDispatch, AtEnd, loopVars, dataVars
    <2>2. pos \in 1 .. Len(TopoOrder)
        BY <1>1, <2>1 DEF TypeInv, ControlTypes
    <2>3. /\ Current \in Node /\ Current' = Current
          /\ \A i \in 1 .. pos - 1 : TopoOrder[i] \in Node /\ TopoOrder[i] # Current
        BY <1>1, <2>1, <2>2 DEF Current
    <2>4. /\ runs'[Current] = runs[Current] + 1
          /\ \A n \in Node : n # Current => runs'[n] = runs[n]
        BY <2>1, <2>3, DispatchCases DEF TypeInv, QueueTypes
    <2>5. Walked'
        BY <2>1, <2>3, <2>4 DEF Walked
    <2>6. tasks = {} /\ results = << >>
        BY <2>1 DEF LateInv
    <2>7. \/ /\ \A t \in tasks' : t.node = Current /\ t.run = runs[Current] + 1
             /\ results' = << >>
          \/ /\ tasks' = {}
             /\ \/ results' = << >>
                \/ \E r : results' = << r >> /\ r.node = Current /\ r.run = runs[Current] + 1
        <3>1. PICK back : DispatchNode(Current, back)
            BY <2>1
        <3>2. CASE tasks' = tasks \cup {NewTask(Current)} /\ results' = results
            BY <2>6, <3>2 DEF NewTask
        <3>3. ASSUME NEW keys, tasks' = tasks, PushResult(LocalResult(Current, keys, back))
              PROVE  \E r : results' = << r >> /\ r.node = Current /\ r.run = runs[Current] + 1
            BY <2>6, <3>3 DEF PushResult, LocalResult
        <3> QED
            BY <2>6, <3>1, <3>2, <3>3, DispatchCases
    <2>8. LoopOwn'
        BY <2>3, <2>4, <2>7 DEF LoopOwn
    <2> QED
        BY <2>5, <2>8
<1>5. CASE BodyCollect
    <2> DEFINE r == Head(results)
    <2>1. /\ pc = "bodyWait" /\ results # << >> /\ pos' = pos + 1 /\ pc' = "body"
          /\ StoreOutputs(r) /\ UNCHANGED <<loop, runs>>
        BY <1>5 DEF BodyCollect, InLoop
    <2>2. r.node \in Node /\ r.run \in Nat /\ r = results[1] /\ 1 \in 1 .. Len(results)
        BY <2>1, HeadTypes, ListFacts DEF TypeInv, QueueTypes
    <2>3. r.node = Current /\ r.run = runs[Current]
        BY <2>1, <2>2 DEF LoopOwn
    <2> HIDE DEF r
    <2>4. /\ Current \in done' /\ out'[Current].run = runs[Current] /\ done \subseteq done'
          /\ \A n \in Node : n # Current => out'[n] = out[n]
        BY <2>1, <2>2, <2>3 DEF StoreOutputs, TypeInv, DataTypes
    <2>5. pos \in 1 .. Len(TopoOrder)
        BY <1>1, <2>1 DEF TypeInv, InRange
    <2>6. \A i \in 1 .. pos' - 1 : \/ i = pos
                                   \/ i \in 1 .. pos - 1 /\ TopoOrder[i] \in Node /\ TopoOrder[i] # Current
        BY <1>1, <2>1, <2>5 DEF Current
    <2>7. Walked'
        BY <2>1, <2>4, <2>6 DEF Walked, Current
    <2> QED
        BY <2>1, <2>7 DEF LoopOwn
<1>6. CASE DownCollect \/ LeaveLoop
    BY <1>6 DEF DownCollect, LeaveLoop, LoopOwn, Walked, InLoop
<1> QED
    BY <1>2, <1>3, <1>4, <1>5, <1>6 DEF LoopPass, ConditionFails, EndIteration,
        EndLoop, LoopDispatchFails, EndLoopPass, InLoop

LEMMA OtherFresh ==
    ASSUME TypeInv, LateInv, LoopOwn, Walked, [Next]_vars, dups' = 0, ~ LoopPass
    PROVE  LoopOwn' /\ Walked'
<1> SUFFICES ASSUME pc' \in InLoop PROVE LoopOwn' /\ Walked'
    BY DEF LoopOwn, Walked, InLoop
<1>1. ASSUME NEW t \in tasks, Succeed(t) \/ Retry(t) \/ GiveUp(t) PROVE LoopOwn' /\ Walked'
    <2>1. UNCHANGED <<pc, loop, pos, done, out, runs>>
        BY <1>1 DEF Succeed, Retry, GiveUp, orchVars, loopVars, dataVars
    <2>2. Walked' /\ Current' = Current
        BY <2>1 DEF Walked, Current
    <2>3. ASSUME pc \in {"bodyWait", "downWait"} PROVE LoopOwn'
        <3>1. /\ t.node = Current /\ t.run = runs[Current]
              /\ \A u \in tasks : u = t
              /\ results = << >>
            BY <2>3 DEF LoopOwn, LateInv
        <3>2. CASE Succeed(t) \/ GiveUp(t)
            <4>1. tasks' = {} /\ \E r : results' = << r >> /\ r.node = t.node /\ r.run = t.run
                BY <3>1, <3>2 DEF Succeed, GiveUp, Push, PushResult
            <4> QED
                BY <2>1, <2>2, <3>1, <4>1 DEF LoopOwn
        <3>3. CASE Retry(t)
            <4>1. t \in Task
                BY DEF TypeInv, QueueTypes
            <4>2. \A u \in tasks' : u.node = t.node /\ u.run = t.run
                BY <3>1, <3>3, <4>1 DEF Retry, Task
            <4> QED
                BY <2>1, <2>2, <3>1, <3>3, <4>2 DEF LoopOwn, Retry
        <3> QED
            BY <1>1, <3>2, <3>3
    <2> QED
        BY <2>1, <2>2, <2>3 DEF LoopOwn
<1>2. CASE Asynq \/ GraphTimesOut \/ TaskTimesOut \/ UNCHANGED vars
    <2>1. UNCHANGED <<pc, loop, pos, done, out, runs, tasks, results>>
        <3>1. ~ \E t \in unacked : Redeliver(t)
            BY NoDups
        <3>2. CASE Asynq
            BY <3>1, <3>2 DEF Asynq, Acknowledge, orchVars, loopVars, dataVars
        <3>3. CASE GraphTimesOut \/ TaskTimesOut \/ UNCHANGED vars
            BY <3>3 DEF GraphTimesOut, TaskTimesOut, orchVars, loopVars, dataVars, queueVars, vars
        <3> QED
            BY <1>2, <3>2, <3>3
    <2> QED
        BY <2>1 DEF LoopOwn, Walked, Current
<1>3. CASE WaitTimeout
    BY <1>3 DEF WaitTimeout, loopVars, dataVars, queueVars, LoopOwn, Walked, Current
<1>4. ~ ForwardPass
    BY DEF ForwardPass, Start, EnterGroup, Collect, EndForwardPass, DispatchInGroup, DispatchFails, InLoop
<1> QED
    BY <1>1, <1>2, <1>3, <1>4 DEF Next, Orchestrator, Worker, Environment, Quiescent, WaitCancelled,
        CleanUp, CompleteExecution, FailExecution, OrchestratorDies, InLoop

LEMMA FreshWhileOnce == Spec => [](Once => LoopOwn /\ Walked)
<1>1. Init => LoopOwn /\ Walked
    BY DEF Init, LoopOwn, Walked
<1>2. TypeInv /\ (Once => LateInv) /\ (Once => LoopOwn /\ Walked) /\ [Next]_vars
            => (Once' => LoopOwn' /\ Walked')
    <2> SUFFICES ASSUME TypeInv, Once => LateInv, Once => LoopOwn /\ Walked, [Next]_vars, dups' = 0
                 PROVE  LoopOwn' /\ Walked'
        BY DEF Once
    <2>1. dups = 0
        BY NoDups
    <2>2. LateInv /\ LoopOwn /\ Walked
        BY <2>1 DEF Once
    <2> QED
        BY <2>2, LoopFresh, OtherFresh
<1> QED
    BY <1>1, <1>2, LateWhileOnce, TypesInvariant, PTL DEF Spec

\* In an iteration of a loop the nodes already walked over hold the outputs of this
\* iteration, for every validated graph, as long as asynq has delivered no task again that
\* had pushed its result (executeLoopPass).
THEOREM BodyIsFresh == Spec => []FreshBody
<1>1. (Once => Walked) => FreshBody
    BY DEF Once, Walked, FreshBody
<1> QED
    BY <1>1, FreshWhileOnce, PTL

-----------------------------------------------------------------------------
(* The state.  What identifies a result is its node and the dispatch: no   *)
(* two tasks or results that are under way have the same, and none has     *)
(* that of an element of the state.  So the list and the state together    *)
(* hold all that was pushed, and hold it once.                             *)

Same(a, b) == a.node = b.node /\ a.run = b.run

\* Tasks and results are of different dispatches, of those that took place.
TasksApart ==
    \A t \in tasks :
        /\ t.run <= runs[t.node]
        /\ \A i \in 1 .. Len(results) : ~ Same(t, results[i])
        /\ \A u \in tasks : t # u => ~ Same(t, u)

ResultsApart ==
    \A i \in 1 .. Len(results) :
        /\ results[i].run <= runs[results[i].node]
        /\ \A j \in 1 .. Len(results) : i # j => ~ Same(results[i], results[j])
        /\ results[i].ok \/ results[i].keys = {}

Apart == TasksApart /\ ResultsApart

\* The step that appends a result keeps them apart if the result is a new one.
LEMMA OneMoreApart ==
    ASSUME TypeInv, ResultsApart, NEW r \in Result, results' = Append(results, r),
           \A n \in Node : runs[n] <= runs'[n], r.run <= runs'[r.node], r.ok \/ r.keys = {},
           runs' \in [Node -> Nat],
           \A i \in 1 .. Len(results) : ~ Same(r, results[i])
    PROVE  /\ ResultsApart'
           /\ \A i \in 1 .. Len(results') : results'[i] = r \/ \E j \in 1 .. Len(results) : results'[i] = results[j]
<1>1. /\ Len(results) \in Nat /\ Len(results') = Len(results) + 1
      /\ \A i \in 1 .. Len(results) : results'[i] = results[i]
      /\ results'[Len(results) + 1] = r
    BY GrowFacts DEF TypeInv, QueueTypes
<1>2. \A i \in 1 .. Len(results') : i = Len(results) + 1 \/ i \in 1 .. Len(results)
    BY <1>1
<1>3. \A i \in 1 .. Len(results) : results[i] \in Result
    BY DEF TypeInv, QueueTypes
<1>4. ASSUME NEW i \in 1 .. Len(results) PROVE results[i].run <= runs'[results[i].node]
    <2>1. results[i].node \in Node /\ results[i].run \in Nat /\ runs \in [Node -> Nat]
        BY <1>3 DEF Result, TypeInv, QueueTypes
    <2>2. results[i].run <= runs[results[i].node]
        BY DEF ResultsApart
    <2> QED
        BY <2>1, <2>2
<1>5. \A i \in 1 .. Len(results') :
        /\ results'[i].run <= runs'[results'[i].node]
        /\ results'[i].ok \/ results'[i].keys = {}
    BY <1>1, <1>2, <1>4 DEF ResultsApart
<1>6. ASSUME NEW i \in 1 .. Len(results'), NEW j \in 1 .. Len(results'), i # j
      PROVE  ~ Same(results'[i], results'[j])
    <2>1. CASE i \in 1 .. Len(results) /\ j \in 1 .. Len(results)
        BY <1>1, <1>6, <2>1 DEF ResultsApart
    <2>2. CASE i = Len(results) + 1 /\ j \in 1 .. Len(results)
        BY <1>1, <2>2
    <2>3. CASE j = Len(results) + 1 /\ i \in 1 .. Len(results)
        BY <1>1, <2>3 DEF Same
    <2> QED
        BY <1>2, <1>6, <2>1, <2>2, <2>3
<1> QED
    BY <1>1, <1>2, <1>5, <1>6 DEF ResultsApart

\* The one that pops a result leaves the others.
LEMMA OneLess ==
    ASSUME TypeInv, results # << >>, results' = Tail(results)
    PROVE  /\ Head(results) = results[1] /\ 1 \in 1 .. Len(results)
           /\ \A i \in 1 .. Len(results') :
                  results'[i] = results[i + 1] /\ i + 1 \in 1 .. Len(results) /\ i + 1 # 1
           /\ \A i \in 1 .. Len(results) : i = 1 \/ (i - 1 \in 1 .. Len(results') /\ results'[i - 1] = results[i])
           /\ \A i, j \in 1 .. Len(results') : i # j => i + 1 # j + 1
BY ListFacts DEF TypeInv, QueueTypes

LEMMA InitApart == Init => Apart
BY DEF Init, Apart, TasksApart, ResultsApart

\* A dispatch is a new one.
LEMMA DispatchApart ==
    ASSUME TypeInv, Apart, NEW n \in Node, NEW back, DispatchNode(n, back)
    PROVE  Apart'
<1>0. runs' = [runs EXCEPT ![n] = @ + 1]
    BY DispatchCases
<1>1. /\ runs' = [runs EXCEPT ![n] = @ + 1] /\ runs \in [Node -> Nat] /\ runs[n] \in Nat
      /\ tasks \subseteq Task
    BY <1>0 DEF TypeInv, QueueTypes
<1>2. /\ \A k \in Node : runs[k] <= runs'[k]
      /\ runs' \in [Node -> Nat] /\ runs'[n] = runs[n] + 1
    BY <1>1
<1>3. \A i \in 1 .. Len(results) :
        /\ results[i].node \in Node /\ results[i].run \in Nat
        /\ results[i].run <= runs[results[i].node]
    <2>1. \A i \in 1 .. Len(results) : results[i] \in Result
        BY DEF TypeInv, QueueTypes
    <2> QED
        BY <2>1 DEF Result, Apart, ResultsApart
<1>4. \A t \in tasks : t.node \in Node /\ t.run \in Nat /\ t.run <= runs[t.node]
    BY <1>1 DEF Task, Apart, TasksApart
<1>5. ASSUME NEW r, r.node = n, r.run = runs[n] + 1
      PROVE  /\ \A i \in 1 .. Len(results) : ~ Same(r, results[i]) /\ ~ Same(results[i], r)
             /\ \A t \in tasks : ~ Same(r, t) /\ ~ Same(t, r)
             /\ r.run <= runs'[r.node]
    BY <1>1, <1>2, <1>3, <1>4, <1>5 DEF Same
<1>6. /\ \A t \in tasks : t.run <= runs'[t.node]
      /\ \A i \in 1 .. Len(results) : results[i].run <= runs'[results[i].node]
    BY <1>1, <1>2, <1>3, <1>4
<1>7. CASE UNCHANGED <<tasks, results>>
    BY <1>6, <1>7 DEF Apart, TasksApart, ResultsApart
<1>8. CASE tasks' = tasks \cup {NewTask(n)} /\ UNCHANGED results
    <2>1. NewTask(n).node = n /\ NewTask(n).run = runs[n] + 1
        BY DEF NewTask
    <2>2. /\ \A i \in 1 .. Len(results) : ~ Same(NewTask(n), results[i])
          /\ \A t \in tasks : ~ Same(NewTask(n), t) /\ ~ Same(t, NewTask(n))
          /\ NewTask(n).run <= runs'[NewTask(n).node]
        BY <1>5, <2>1
    <2>3. ResultsApart'
        BY <1>6, <1>8 DEF Apart, ResultsApart
    <2>4. TasksApart'
        BY <1>6, <1>8, <2>2 DEF Apart, TasksApart
    <2> QED
        BY <2>3, <2>4 DEF Apart
<1>9. ASSUME NEW keys \in Keys(n), PushResult(LocalResult(n, keys, back)), UNCHANGED tasks
      PROVE  Apart'
    <2> DEFINE r == LocalResult(n, keys, back)
    <2>1. r.node = n /\ r.run = runs[n] + 1 /\ r.ok
        BY DEF LocalResult
    <2>2. r \in Result
        BY <1>1, KeysTyped DEF LocalResult, Result
    <2>3. results' = Append(results, r)
        BY <1>9 DEF PushResult
    <2> HIDE DEF r
    <2>4. /\ \A i \in 1 .. Len(results) : ~ Same(r, results[i])
          /\ \A t \in tasks : ~ Same(t, r)
          /\ r.run <= runs'[r.node]
        BY <1>5, <2>1
    <2>5. /\ ResultsApart'
          /\ \A i \in 1 .. Len(results') : results'[i] = r \/ \E j \in 1 .. Len(results) : results'[i] = results[j]
        BY <1>2, <2>1, <2>2, <2>3, <2>4, OneMoreApart DEF Apart
    <2>6. TasksApart'
        BY <1>6, <1>9, <2>4, <2>5 DEF Apart, TasksApart
    <2> QED
        BY <2>5, <2>6 DEF Apart
<1> QED
    BY <1>7, <1>8, <1>9, DispatchCases

\* A task ends in one result of its dispatch, or in the task of its next attempt.
LEMMA WorkerApart ==
    ASSUME TypeInv, Apart, NEW t \in tasks, Succeed(t) \/ Retry(t) \/ GiveUp(t)
    PROVE  Apart'
<1>1. t \in Task /\ t.node \in Node /\ t.run \in Nat /\ t.run <= runs[t.node]
    BY DEF TypeInv, QueueTypes, Task, Apart, TasksApart
<1>2. runs' = runs /\ runs \in [Node -> Nat]
    BY DEF Succeed, Retry, GiveUp, TypeInv, QueueTypes
<1>3. ASSUME Succeed(t) \/ GiveUp(t) PROVE Apart'
    <2>1. PICK ok \in BOOLEAN : Push(t, ok)
        BY <1>3 DEF Succeed, GiveUp
    <2> DEFINE r == TaskResult(t, ok)
    <2>2. r.node = t.node /\ r.run = t.run
        BY DEF TaskResult
    <2>3. r.ok \/ r.keys = {}
        BY DEF TaskResult
    <2>4. r \in Result /\ results' = Append(results, r)
        BY <1>1, <2>1, PushFacts DEF PushResult
    <2>5. tasks' = tasks \ {t}
        BY <1>3 DEF Succeed, GiveUp
    <2> HIDE DEF r
    <2>6. /\ \A i \in 1 .. Len(results) : ~ Same(r, results[i])
          /\ \A u \in tasks \ {t} : ~ Same(u, r)
        BY <2>2 DEF Apart, TasksApart, Same
    <2>7. \A n \in Node : runs[n] <= runs'[n]
        BY <1>2
    <2>8. r.run <= runs'[r.node]
        BY <1>1, <1>2, <2>2
    <2>9. /\ ResultsApart'
          /\ \A i \in 1 .. Len(results') : results'[i] = r \/ \E j \in 1 .. Len(results) : results'[i] = results[j]
        BY <1>2, <2>3, <2>4, <2>6, <2>7, <2>8, OneMoreApart DEF Apart
    <2>10. TasksApart'
        BY <1>2, <2>5, <2>6, <2>9 DEF Apart, TasksApart
    <2> QED
        BY <2>9, <2>10 DEF Apart
<1>4. ASSUME Retry(t) PROVE Apart'
    <2> DEFINE u == [t EXCEPT !.id = nextId, !.try = @ + 1]
    <2>1. u.node = t.node /\ u.run = t.run
        BY <1>1 DEF Task
    <2>2. tasks' = (tasks \ {t}) \cup {u} /\ results' = results
        BY <1>4 DEF Retry
    <2> HIDE DEF u
    <2>3. ResultsApart'
        BY <1>2, <2>2 DEF Apart, ResultsApart, Same
    <2>4. /\ u.run <= runs'[u.node]
          /\ \A i \in 1 .. Len(results) : ~ Same(u, results[i])
          /\ \A v \in tasks \ {t} : ~ Same(u, v) /\ ~ Same(v, u)
        BY <1>1, <1>2, <2>1 DEF Apart, TasksApart, Same
    <2>5. TasksApart'
        BY <1>2, <2>2, <2>4 DEF Apart, TasksApart
    <2> QED
        BY <2>3, <2>5 DEF Apart
<1> QED
    BY <1>3, <1>4

\* A pop leaves fewer.
LEMMA PopApart ==
    ASSUME TypeInv, Apart, results # << >>, Pop, UNCHANGED <<tasks, runs>>
    PROVE  Apart'
<1>1. results' = Tail(results)
    BY DEF Pop
<1>2. /\ \A i \in 1 .. Len(results') : results'[i] = results[i + 1] /\ i + 1 \in 1 .. Len(results)
      /\ \A i, j \in 1 .. Len(results') : i # j => i + 1 # j + 1
    BY <1>1, OneLess
<1>3. ResultsApart'
    BY <1>2 DEF Apart, ResultsApart
<1>4. TasksApart'
    BY <1>2 DEF Apart, TasksApart
<1> QED
    BY <1>3, <1>4 DEF Apart

LEMMA ApartKept ==
    ASSUME dups' = 0, TypeInv, Apart, [Next]_vars
    PROVE  Apart'
<1>1. CASE \E n \in Node : DispatchInGroup(n)
    BY <1>1, DispatchApart DEF DispatchInGroup
<1>2. CASE LoopDispatch
    <2>1. Current \in Node
        <3>1. pos <= Len(TopoOrder)
            BY <1>2, GraphFacts DEF LoopDispatch, AtEnd, TypeInv, ControlTypes
        <3> QED
            BY <3>1, CurrentIsNode
    <2> QED
        BY <1>2, <2>1, DispatchApart DEF LoopDispatch
<1>3. CASE Collect \/ BodyCollect \/ DownCollect
    <2>1. results # << >> /\ Pop /\ UNCHANGED <<tasks, runs>>
        BY <1>3 DEF Collect, BodyCollect, DownCollect, queueVars
    <2> QED
        BY <2>1, PopApart
<1>4. CASE Worker
    BY <1>4, WorkerApart DEF Worker
<1>5. CASE CleanUp \/ FailExecution
    <2>1. UNCHANGED <<tasks, runs>> /\ (results' = results \/ results' = << >>)
        BY <1>5 DEF CleanUp, FailExecution, DeleteKey, queueVars
    <2>2. CASE results' = results
        BY <2>1, <2>2 DEF Apart, TasksApart, ResultsApart
    <2>3. CASE results' = << >>
        BY <2>1, <2>3 DEF Apart, TasksApart, ResultsApart
    <2> QED
        BY <2>1, <2>2, <2>3
<1>6. CASE \/ Start \/ EnterGroup \/ EndForwardPass \/ \E n \in Node : DispatchFails(n)
           \/ Iterate \/ LeaveLoop \/ ConditionFails \/ StepOver \/ EndIteration
           \/ EndLoop \/ LoopDispatchFails \/ EndLoopPass
           \/ WaitTimeout \/ WaitCancelled \/ CompleteExecution
           \/ Asynq \/ Environment \/ UNCHANGED vars
    <2>1. ~ \E t \in unacked : Redeliver(t)
        BY NoDups
    <2>2. UNCHANGED <<tasks, runs, results>>
        <3>1. CASE \/ Start \/ EnterGroup \/ EndForwardPass \/ \E n \in Node : DispatchFails(n)
                   \/ Iterate \/ LeaveLoop \/ ConditionFails \/ StepOver \/ EndIteration
                   \/ EndLoop \/ LoopDispatchFails \/ EndLoopPass
            BY <3>1 DEF Start, EnterGroup, EndForwardPass, DispatchFails, Iterate, LeaveLoop,
               ConditionFails, StepOver, EndIteration, EndLoop, LoopDispatchFails, EndLoopPass, queueVars
        <3>2. CASE WaitTimeout \/ WaitCancelled \/ CompleteExecution \/ Environment \/ UNCHANGED vars
            BY <3>2 DEF WaitTimeout, WaitCancelled, CompleteExecution, Environment, GraphTimesOut,
                TaskTimesOut, OrchestratorDies, queueVars, vars
        <3>3. CASE Asynq
            BY <2>1, <3>3 DEF Asynq, Acknowledge
        <3> QED
            BY <1>6, <3>1, <3>2, <3>3
    <2> QED
        BY <2>2 DEF Apart, TasksApart, ResultsApart
<1> QED
    BY <1>1, <1>2, <1>3, <1>4, <1>5, <1>6 DEF Next, Orchestrator, ForwardPass, LoopPass, Quiescent

LEMMA ApartWhileOnce == Spec => [](Once => Apart)
<1>1. TypeInv /\ (Once => Apart) /\ [Next]_vars => (Once' => Apart')
    <2> SUFFICES ASSUME TypeInv, Once => Apart, [Next]_vars, dups' = 0
                 PROVE  Apart'
        BY DEF Once
    <2>1. dups = 0
        BY NoDups
    <2>2. Apart
        BY <2>1 DEF Once
    <2> QED
        BY <2>2, ApartKept
<1> QED
    BY <1>1, InitApart, TypesInvariant, PTL DEF Spec

\* What the bindings to a field make of a result.
Of(r, f) == Given(r.node, f, r.keys) \X {r.run}

\* The elements that were pushed, and those that still wait in the list.
Pushed(f) == {d \in due : d[1].field = f}
Waiting(f) == {d \in Entry : \E i \in 1 .. Len(results) : d \in Of(results[i], f)}

\* What the field holds is of no dispatch that is under way or to come.
Past(f) ==
    \A d \in ToSet(state[f]) :
        /\ d[2] <= runs[d[1].node]
        /\ \A i \in 1 .. Len(results) : ~ (d[1].node = results[i].node /\ d[2] = results[i].run)
        /\ \A t \in tasks : ~ (d[1].node = t.node /\ d[2] = t.run)

Whole(f) == ToSet(state[f]) \cup Waiting(f) = Pushed(f) /\ IsInjective(state[f])

\* An execution that has not failed.
Going == pc \in {"queued", "enter", "dispatch", "collect"} \cup AfterPass \/ status = "completed"

KeptInv == Going => \A f \in ArrayField : Whole(f) /\ Past(f)

LEMMA OfFacts ==
    ASSUME NEW r \in Result, NEW f
    PROVE  /\ Of(r, f) \subseteq Entry
           /\ \A d \in Of(r, f) : d[1].node = r.node /\ d[2] = r.run
           /\ {d \in Due(r) : d[1].field = f} = Of(r, f)
           /\ r.keys = {} => Of(r, f) = {}
<1>1. r.run \in Nat
    BY DEF Result
<1> QED
    BY <1>1 DEF Of, Given, Entry, Due

\* A push adds to both sides what the bindings make of the result.
LEMMA PushWhole ==
    ASSUME TypeInv, NEW r \in Result, PushResult(r), NEW f \in ArrayField, Whole(f), state' = state
    PROVE  Whole(f)'
<1>1. results \in Seq(Result) /\ results' = Append(results, r) /\ due' = due \cup Due(r)
    BY DEF PushResult, TypeInv, QueueTypes
<1>2. /\ Len(results) \in Nat /\ Len(results') = Len(results) + 1
      /\ \A i \in 1 .. Len(results) : results'[i] = results[i]
      /\ results'[Len(results) + 1] = r
    BY <1>1, GrowFacts
<1>3. /\ \A i \in 1 .. Len(results) : i \in 1 .. Len(results')
      /\ Len(results) + 1 \in 1 .. Len(results')
      /\ \A i \in 1 .. Len(results') : i = Len(results) + 1 \/ i \in 1 .. Len(results)
    BY <1>2
<1>4. Waiting(f)' = Waiting(f) \cup Of(r, f)
    BY <1>2, <1>3, OfFacts DEF Waiting
<1>5. Pushed(f)' = Pushed(f) \cup Of(r, f)
    BY <1>1, OfFacts DEF Pushed
<1> QED
    BY <1>4, <1>5 DEF Whole

\* A pop moves it from the list to the field.
LEMMA PopWhole ==
    ASSUME TypeInv, Apart, results # << >>, Pop, UNCHANGED <<tasks, runs, due>>,
           NEW f \in ArrayField, Whole(f), Past(f),
           \/ state' = Written(state, Head(results).node, Head(results).run, Head(results).keys)
           \/ state' = state /\ Head(results).keys = {}
    PROVE  Whole(f)' /\ Past(f)'
<1> DEFINE r == Head(results)
<1>1. /\ r = results[1] /\ 1 \in 1 .. Len(results)
      /\ \A i \in 1 .. Len(results') :
             results'[i] = results[i + 1] /\ i + 1 \in 1 .. Len(results) /\ i + 1 # 1
      /\ \A i \in 1 .. Len(results) : i = 1 \/ (i - 1 \in 1 .. Len(results') /\ results'[i - 1] = results[i])
    BY OneLess DEF Pop
<1>2. r \in Result /\ r.run \in Nat
    BY HeadTypes
<1> HIDE DEF r
<1>3. Waiting(f) = Waiting(f)' \cup Of(r, f)
    BY <1>1, <1>2, OfFacts DEF Waiting
<1>4. ToSet(state[f]) \cap Of(r, f) = {}
    BY <1>1, <1>2, OfFacts DEF Past
<1>5. Grows(state[f], state'[f], Of(r, f))
    <2>1. state[f] \in Seq(Entry)
        BY DEF TypeInv, DataTypes
    <2>2. CASE state' = Written(state, r.node, r.run, r.keys)
        BY <1>2, <2>1, <2>2, Grown DEF Of
    <2>3. CASE state' = state /\ r.keys = {}
        <3>1. Of(r, f) = {}
            BY <1>2, <2>3, OfFacts
        <3> QED
            BY <2>1, <2>3, <3>1 DEF Grows
    <2> QED
        BY <2>2, <2>3 DEF r
<1>6. ToSet(state'[f]) = ToSet(state[f]) \cup Of(r, f) /\ IsInjective(state'[f])
    BY <1>4, <1>5 DEF Grows, Whole
<1>7. Pushed(f)' = Pushed(f)
    BY DEF Pushed
<1>8. Whole(f)'
    BY <1>3, <1>6, <1>7 DEF Whole
<1>9. Past(f)'
    <2>1. ASSUME NEW d \in ToSet(state[f])
          PROVE  /\ d[2] <= runs[d[1].node]
                 /\ \A i \in 1 .. Len(results') : ~ (d[1].node = results'[i].node /\ d[2] = results'[i].run)
                 /\ \A t \in tasks : ~ (d[1].node = t.node /\ d[2] = t.run)
        <3>1. /\ d[2] <= runs[d[1].node]
              /\ \A i \in 1 .. Len(results) : ~ (d[1].node = results[i].node /\ d[2] = results[i].run)
              /\ \A t \in tasks : ~ (d[1].node = t.node /\ d[2] = t.run)
            BY <2>1 DEF Past
        <3>2. ASSUME NEW i \in 1 .. Len(results')
              PROVE  ~ (d[1].node = results'[i].node /\ d[2] = results'[i].run)
            <4>1. results'[i] = results[i + 1] /\ i + 1 \in 1 .. Len(results)
                BY <1>1
            <4> QED
                BY <3>1, <4>1
        <3> QED
            BY <3>1, <3>2
    <2>2. ASSUME NEW d \in Of(r, f)
          PROVE  /\ d[2] <= runs[d[1].node]
                 /\ \A i \in 1 .. Len(results') : ~ (d[1].node = results'[i].node /\ d[2] = results'[i].run)
                 /\ \A t \in tasks : ~ (d[1].node = t.node /\ d[2] = t.run)
        <3>1. d[1].node = r.node /\ d[2] = r.run
            BY <1>2, OfFacts
        <3>2. /\ r.run <= runs[r.node]
              /\ \A i \in 1 .. Len(results') : ~ Same(r, results'[i])
              /\ \A t \in tasks : ~ Same(t, r)
            BY <1>1 DEF Apart, ResultsApart, TasksApart
        <3> QED
            BY <3>1, <3>2 DEF Same
    <2> QED
        BY <1>6, <2>1, <2>2 DEF Past
<1> QED
    BY <1>8, <1>9

LEMMA DispatchKept ==
    ASSUME TypeInv, NEW n \in Node, NEW back, DispatchNode(n, back), state' = state,
           NEW f \in ArrayField, Whole(f), Past(f)
    PROVE  Whole(f)' /\ Past(f)'
<1>0. runs' = [runs EXCEPT ![n] = @ + 1]
    BY DispatchCases
<1>1. /\ runs \in [Node -> Nat] /\ runs[n] \in Nat /\ runs'[n] = runs[n] + 1
      /\ \A k \in Node : k # n => runs'[k] = runs[k]
    BY <1>0 DEF TypeInv, QueueTypes
<1>2. \A d \in ToSet(state[f]) : d[1].node \in Node /\ d[2] \in Nat
    <2>1. ToSet(state[f]) \subseteq Entry
        BY SeqFacts DEF TypeInv, DataTypes
    <2> QED
        BY <2>1 DEF Entry, GraphAssumption
<1>3. \A d \in ToSet(state[f]) :
        d[2] <= runs'[d[1].node] /\ ~ (d[1].node = n /\ d[2] = runs[n] + 1)
    BY <1>1, <1>2 DEF Past
<1>4. CASE UNCHANGED <<tasks, results, due>>
    <2>1. Whole(f)'
        BY <1>4 DEF Whole, Waiting, Pushed
    <2> QED
        BY <1>3, <1>4, <2>1 DEF Past
<1>5. CASE tasks' = tasks \cup {NewTask(n)} /\ UNCHANGED <<results, due>>
    <2>1. Whole(f)'
        BY <1>5 DEF Whole, Waiting, Pushed
    <2>2. NewTask(n).node = n /\ NewTask(n).run = runs[n] + 1
        BY DEF NewTask
    <2> QED
        BY <1>3, <1>5, <2>1, <2>2 DEF Past
<1>6. ASSUME NEW keys \in Keys(n), PushResult(LocalResult(n, keys, back)), UNCHANGED tasks
      PROVE  Whole(f)' /\ Past(f)'
    <2> DEFINE r == LocalResult(n, keys, back)
    <2>1. r.node = n /\ r.run = runs[n] + 1
        BY DEF LocalResult
    <2>2. r \in Result
        BY <1>1, KeysTyped DEF LocalResult, Result
    <2>3. PushResult(r)
        BY <1>6
    <2> HIDE DEF r
    <2>4. Whole(f)'
        BY <2>2, <2>3, PushWhole
    <2>5. \A i \in 1 .. Len(results') : results'[i] = r \/ (i \in 1 .. Len(results) /\ results'[i] = results[i])
        <3>1. results \in Seq(Result) /\ results' = Append(results, r)
            BY <2>3 DEF PushResult, TypeInv, QueueTypes
        <3> QED
            BY <2>2, <3>1, GrowFacts
    <2> QED
        BY <1>3, <1>6, <2>1, <2>4, <2>5 DEF Past
<1> QED
    BY <1>4, <1>5, <1>6, DispatchCases

LEMMA WorkerKept ==
    ASSUME TypeInv, NEW t \in tasks, Succeed(t) \/ Retry(t) \/ GiveUp(t),
           NEW f \in ArrayField, Whole(f), Past(f)
    PROVE  Whole(f)' /\ Past(f)'
<1>1. t \in Task /\ state' = state /\ runs' = runs
    BY DEF TypeInv, QueueTypes, Succeed, Retry, GiveUp, dataVars
<1>2. ASSUME Succeed(t) \/ GiveUp(t) PROVE Whole(f)' /\ Past(f)'
    <2>1. PICK ok \in BOOLEAN : Push(t, ok)
        BY <1>2 DEF Succeed, GiveUp
    <2> DEFINE r == TaskResult(t, ok)
    <2>2. r.node = t.node /\ r.run = t.run
        BY DEF TaskResult
    <2>3. r \in Result /\ PushResult(r)
        BY <1>1, <2>1, PushFacts
    <2>4. tasks' = tasks \ {t}
        BY <1>2 DEF Succeed, GiveUp
    <2> HIDE DEF r
    <2>5. Whole(f)'
        BY <1>1, <2>3, PushWhole
    <2>6. \A i \in 1 .. Len(results') : results'[i] = r \/ (i \in 1 .. Len(results) /\ results'[i] = results[i])
        <3>1. results \in Seq(Result) /\ results' = Append(results, r)
            BY <2>3 DEF PushResult, TypeInv, QueueTypes
        <3> QED
            BY <2>3, <3>1, GrowFacts
    <2> QED
        BY <1>1, <2>2, <2>4, <2>5, <2>6 DEF Past
<1>3. ASSUME Retry(t) PROVE Whole(f)' /\ Past(f)'
    <2> DEFINE u == [t EXCEPT !.id = nextId, !.try = @ + 1]
    <2>1. u.node = t.node /\ u.run = t.run
        BY <1>1 DEF Task
    <2>2. tasks' = (tasks \ {t}) \cup {u} /\ UNCHANGED <<results, due>>
        BY <1>3 DEF Retry
    <2> HIDE DEF u
    <2>3. Whole(f)'
        BY <1>1, <2>2 DEF Whole, Waiting, Pushed
    <2> QED
        BY <1>1, <2>1, <2>2, <2>3 DEF Past
<1> QED
    BY <1>2, <1>3

\* The three places that pop go by the node the result is of.
LEMMA CollectKept ==
    ASSUME TypeInv, Apart, LoopOwn, Collect \/ BodyCollect \/ DownCollect, Going',
           NEW f \in ArrayField, Whole(f), Past(f)
    PROVE  Whole(f)' /\ Past(f)'
<1> DEFINE r == Head(results)
<1>1. results # << >> /\ Pop /\ UNCHANGED <<tasks, runs, due>>
    BY DEF Collect, BodyCollect, DownCollect, queueVars
<1>2. r = results[1] /\ 1 \in 1 .. Len(results)
    BY <1>1, OneLess DEF Pop
<1>3. r.ok \/ r.keys = {}
    BY <1>2 DEF Apart, ResultsApart
<1>4. \/ state' = Written(state, r.node, r.run, r.keys)
      \/ state' = state /\ r.keys = {}
    <2>1. CASE Collect
        BY <1>3, <2>1 DEF Collect, ProcessNodeResult, WriteState, dataVars
    <2>2. CASE BodyCollect
        <3>1. r.node = Current
            BY <1>2, <2>2 DEF BodyCollect, LoopOwn
        <3> QED
            BY <1>3, <2>2, <3>1 DEF BodyCollect, WriteState
    <2>3. CASE DownCollect
        <3>1. r.node = Current
            BY <1>2, <2>3 DEF DownCollect, LoopOwn
        <3> QED
            BY <2>3, <3>1 DEF DownCollect, WriteState
    <2> QED
        BY <2>1, <2>2, <2>3
<1> QED
    BY <1>1, <1>4, PopWhole

LEMMA InitKept == Init => KeptInv
<1> SUFFICES ASSUME Init, NEW f \in ArrayField PROVE Whole(f) /\ Past(f)
    BY DEF KeptInv
<1>1. f \in Field /\ state[f] = << >> /\ results = << >> /\ due = {}
    BY DEF Init, GraphAssumption
<1>2. ToSet(state[f]) = {} /\ IsInjective(state[f])
    BY <1>1 DEF ToSet, IsInjective
<1> QED
    BY <1>1, <1>2 DEF Whole, Past, Waiting, Pushed

LEMMA StateStays ==
    ASSUME UNCHANGED <<state, tasks, runs, results, due>>, NEW f, Whole(f), Past(f)
    PROVE  Whole(f)' /\ Past(f)'
BY DEF Whole, Past, Waiting, Pushed

LEMMA KeptOn ==
    ASSUME dups' = 0, TypeInv, LateInv, Apart, LoopOwn, KeptInv, [Next]_vars
    PROVE  KeptInv'
<1> SUFFICES ASSUME Going', NEW f \in ArrayField PROVE Whole(f)' /\ Past(f)'
    BY DEF KeptInv
<1>1. Going
    <2>1. CASE pc = "fail" \/ pc = "done" \/ pc = "dead"
        <3>1. status' = "completed" => status = "completed"
            BY <2>1 DEF Next, Orchestrator, ForwardPass, LoopPass, Start, EnterGroup, Collect, EndForwardPass,
                DispatchInGroup, DispatchFails, Iterate, LeaveLoop, ConditionFails, StepOver, LoopDispatch,
                BodyCollect, EndIteration, DownCollect, EndLoop, LoopDispatchFails, EndLoopPass,
                WaitTimeout, WaitCancelled, CleanUp, CompleteExecution, FailExecution,
                Worker, Succeed, Retry, GiveUp, Asynq, Acknowledge, Redeliver,
                Environment, GraphTimesOut, TaskTimesOut, OrchestratorDies, Quiescent, vars, orchVars
        <3>2. pc' \in {pc, "done", "dead"}
            BY <2>1 DEF Next, Orchestrator, ForwardPass, LoopPass, Start, EnterGroup, Collect, EndForwardPass,
                DispatchInGroup, DispatchFails, Iterate, LeaveLoop, ConditionFails, StepOver, LoopDispatch,
                BodyCollect, EndIteration, DownCollect, EndLoop, LoopDispatchFails, EndLoopPass,
                WaitTimeout, WaitCancelled, CleanUp, CompleteExecution, FailExecution, Waits, Active,
                Worker, Succeed, Retry, GiveUp, Asynq, Acknowledge, Redeliver,
                Environment, GraphTimesOut, TaskTimesOut, OrchestratorDies, Quiescent, vars, orchVars
        <3> QED
            BY <2>1, <3>1, <3>2 DEF Going, AfterPass
    <2> QED
        BY <2>1 DEF Going, AfterPass, TypeInv, ControlTypes, Active, Over, Waits
<1>2. Whole(f) /\ Past(f)
    BY <1>1 DEF KeptInv
<1>3. CASE \E n \in Node : DispatchInGroup(n)
    BY <1>2, <1>3, DispatchKept DEF DispatchInGroup, dataVars
<1>4. CASE LoopDispatch
    <2>1. Current \in Node
        <3>1. pos <= Len(TopoOrder)
            BY <1>4, GraphFacts DEF LoopDispatch, AtEnd, TypeInv, ControlTypes
        <3> QED
            BY <3>1, CurrentIsNode
    <2> QED
        BY <1>2, <1>4, <2>1, DispatchKept DEF LoopDispatch, dataVars
<1>5. CASE Collect \/ BodyCollect \/ DownCollect
    BY <1>2, <1>5, CollectKept
<1>6. CASE Worker
    BY <1>2, <1>6, WorkerKept DEF Worker
<1>7. CASE CleanUp
    <2>1. UNCHANGED <<state, tasks, runs, results, due>>
        BY <1>7 DEF CleanUp, DeleteKey, LateInv, dataVars, queueVars
    <2> QED
        BY <1>2, <2>1, StateStays
<1>8. CASE FailExecution
    <2>1. status' # "completed" /\ pc' = "done"
        BY <1>8 DEF FailExecution, LateInv
    <2> QED
        BY <2>1 DEF Going, AfterPass
<1>9. CASE \/ Start \/ EnterGroup \/ EndForwardPass \/ \E n \in Node : DispatchFails(n)
           \/ Iterate \/ LeaveLoop \/ ConditionFails \/ StepOver \/ EndIteration
           \/ EndLoop \/ LoopDispatchFails \/ EndLoopPass
           \/ WaitTimeout \/ WaitCancelled \/ CompleteExecution
           \/ Asynq \/ Environment \/ UNCHANGED vars
    <2>1. ~ \E t \in unacked : Redeliver(t)
        BY NoDups
    <2>2. UNCHANGED <<state, tasks, runs, results, due>>
        <3>1. CASE \/ Start \/ EnterGroup \/ EndForwardPass \/ \E n \in Node : DispatchFails(n)
                   \/ Iterate \/ LeaveLoop \/ ConditionFails \/ StepOver \/ EndIteration
                   \/ EndLoop \/ LoopDispatchFails \/ EndLoopPass
            BY <3>1 DEF Start, EnterGroup, EndForwardPass, DispatchFails, Iterate, LeaveLoop,
               ConditionFails, StepOver, EndIteration, EndLoop, LoopDispatchFails, EndLoopPass,
               dataVars, queueVars
        <3>2. CASE WaitTimeout \/ WaitCancelled \/ CompleteExecution \/ Environment \/ UNCHANGED vars
            BY <3>2 DEF WaitTimeout, WaitCancelled, CompleteExecution, Environment, GraphTimesOut,
                TaskTimesOut, OrchestratorDies, dataVars, queueVars, vars
        <3>3. CASE Asynq
            BY <2>1, <3>3 DEF Asynq, Acknowledge, dataVars
        <3> QED
            BY <1>9, <3>1, <3>2, <3>3
    <2> QED
        BY <1>2, <2>2, StateStays
<1> QED
    BY <1>3, <1>4, <1>5, <1>6, <1>7, <1>8, <1>9 DEF Next, Orchestrator, ForwardPass, LoopPass, Quiescent

\* When an execution completes, its array fields hold an element for every result pushed
\* and every binding of its node whose port the result sets, each of them once, for every
\* validated graph and every order of the results, as long as asynq has delivered no task
\* again that had pushed its result (applyStateWrites).
THEOREM StateIsKept == Spec => []StateKept
<1>1. TypeInv /\ (Once => LateInv) /\ (Once => Apart) /\ (Once => LoopOwn /\ Walked)
            /\ (Once => KeptInv) /\ [Next]_vars => (Once' => KeptInv')
    <2> SUFFICES ASSUME TypeInv, Once => LateInv, Once => Apart, Once => LoopOwn /\ Walked,
                        Once => KeptInv, [Next]_vars, dups' = 0
                 PROVE  KeptInv'
        BY DEF Once
    <2>1. dups = 0
        BY NoDups
    <2>2. LateInv /\ Apart /\ LoopOwn /\ KeptInv
        BY <2>1 DEF Once
    <2> QED
        BY <2>2, KeptOn
<1>2. (Once => LateInv) /\ (Once => KeptInv) => StateKept
    <2> SUFFICES ASSUME LateInv, KeptInv, status = "completed", NEW f \in ArrayField
                 PROVE  ToSet(state[f]) = {d \in due : d[1].field = f} /\ IsInjective(state[f])
        BY DEF Once, StateKept
    <2>1. results = << >> /\ Whole(f)
        BY DEF LateInv, KeptInv, Going
    <2>2. Waiting(f) = {}
        BY <2>1 DEF Waiting
    <2> QED
        BY <2>1, <2>2 DEF Whole, Pushed
<1> QED
    BY <1>1, <1>2, InitKept, LateWhileOnce, ApartWhileOnce, FreshWhileOnce, TypesInvariant, PTL DEF Spec

=============================================================================
