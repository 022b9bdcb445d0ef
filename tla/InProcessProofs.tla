-------------------------- MODULE InProcessProofs ---------------------------
(***************************************************************************)
(* Proofs about an execution inside a single process, for any validated    *)
(* graph: that no append to an array field is lost or doubled, that the    *)
(* unlocked read of the skipped map is harmless where every loop can be    *)
(* entered by a forward edge, that there the execution is one of module    *)
(* Dataflow, and that a loop which starts over reads nothing of the round  *)
(* before.                                                                 *)
(***************************************************************************)
EXTENDS InProcess, Integers, Sequences, SequenceTheorems, FiniteSetTheorems, TLAPS

-----------------------------------------------------------------------------
(* What a list holds.                                                      *)

\* A sequence is a function on the numbers up to its length.
LEMMA SeqFacts ==
    ASSUME NEW S, NEW s \in Seq(S)
    PROVE  /\ Len(s) \in Nat /\ DOMAIN s = 1 .. Len(s) /\ s \in [1 .. Len(s) -> S]
           /\ ToSet(s) \subseteq S
BY LenProperties DEF ToSet

\* Joined lists hold what the two hold, and hold it once if they do and share nothing.
LEMMA Joined ==
    ASSUME NEW S, NEW s \in Seq(S), NEW t \in Seq(S)
    PROVE  /\ s \o t \in Seq(S)
           /\ ToSet(s \o t) = ToSet(s) \cup ToSet(t)
           /\ IsInjective(s) /\ IsInjective(t) /\ ToSet(s) \cap ToSet(t) = {} => IsInjective(s \o t)
<1> DEFINE u == s \o t
           k == Len(s)
           l == Len(t)
<1>1. /\ u \in Seq(S) /\ Len(u) = k + l /\ k \in Nat /\ l \in Nat
      /\ \A i \in 1 .. k + l : u[i] = IF i <= k THEN s[i] ELSE t[i - k]
    BY ConcatProperties, SeqFacts
<1>2. DOMAIN s = 1 .. k /\ DOMAIN t = 1 .. l /\ DOMAIN u = 1 .. k + l
    BY <1>1, SeqFacts
<1> HIDE DEF u, k, l
<1>3. \A i \in 1 .. k : u[i] = s[i] /\ i \in 1 .. k + l
    BY <1>1
<1>4. \A i \in 1 .. l : u[i + k] = t[i] /\ i + k \in 1 .. k + l
    <2> SUFFICES ASSUME NEW i \in 1 .. l PROVE u[i + k] = t[i] /\ i + k \in 1 .. k + l
        OBVIOUS
    <2>1. i + k \in 1 .. k + l /\ ~(i + k <= k) /\ (i + k) - k = i
        BY <1>1
    <2> QED
        BY <1>1, <2>1
<1>5. \A i \in 1 .. k + l : i \in 1 .. k \/ (i - k \in 1 .. l /\ u[i] = t[i - k])
    BY <1>1
<1>6. ToSet(u) = ToSet(s) \cup ToSet(t)
    <2>1. ToSet(s) \subseteq ToSet(u)
        BY <1>2, <1>3 DEF ToSet
    <2>2. ToSet(t) \subseteq ToSet(u)
        <3> SUFFICES ASSUME NEW i \in 1 .. l PROVE t[i] \in ToSet(u)
            BY <1>2 DEF ToSet
        <3> QED
            BY <1>2, <1>4 DEF ToSet
    <2>3. ToSet(u) \subseteq ToSet(s) \cup ToSet(t)
        <3> SUFFICES ASSUME NEW i \in 1 .. k + l PROVE u[i] \in ToSet(s) \cup ToSet(t)
            BY <1>2 DEF ToSet
        <3>1. CASE i \in 1 .. k
            BY <1>2, <1>3, <3>1 DEF ToSet
        <3>2. CASE i - k \in 1 .. l /\ u[i] = t[i - k]
            BY <1>2, <3>2 DEF ToSet
        <3> QED
            BY <1>5, <3>1, <3>2
    <2> QED
        BY <2>1, <2>2, <2>3
<1>7. ASSUME IsInjective(s), IsInjective(t), ToSet(s) \cap ToSet(t) = {}
      PROVE  IsInjective(u)
    <2> SUFFICES ASSUME NEW i \in 1 .. k + l, NEW j \in 1 .. k + l, u[i] = u[j] PROVE i = j
        BY <1>2 DEF IsInjective
    <2>1. CASE i \in 1 .. k /\ j \in 1 .. k
        BY <1>2, <1>3, <1>7, <2>1 DEF IsInjective
    <2>2. CASE i \in 1 .. k /\ j - k \in 1 .. l /\ u[j] = t[j - k]
        BY <1>2, <1>3, <1>7, <2>2 DEF ToSet
    <2>3. CASE j \in 1 .. k /\ i - k \in 1 .. l /\ u[i] = t[i - k]
        BY <1>2, <1>3, <1>7, <2>3 DEF ToSet
    <2>4. CASE i - k \in 1 .. l /\ u[i] = t[i - k] /\ j - k \in 1 .. l /\ u[j] = t[j - k]
        <3>1. i - k = j - k
            BY <1>2, <1>7, <2>4 DEF IsInjective
        <3> QED
            BY <1>1, <3>1
    <2> QED
        BY <1>5, <2>1, <2>2, <2>3, <2>4
<1> QED
    BY <1>1, <1>6, <1>7 DEF u

\* A finite set as a list: all of it, each once.
LEMMA Listed ==
    ASSUME NEW S, IsFiniteSet(S)
    PROVE  SetToSeq(S) \in Seq(S) /\ ToSet(SetToSeq(S)) = S /\ IsInjective(SetToSeq(S))
<1> DEFINE n == Cardinality(S)
           s == SetToSeq(S)
<1>1. n \in Nat /\ ExistsBijection(1 .. n, S)
    BY FS_CardinalityType
<1>2. \E f \in [1 .. n -> S] : IsInjective(f)
    BY <1>1 DEF ExistsBijection, Bijection, Injection
<1>3. s \in [1 .. n -> S] /\ IsInjective(s)
    BY <1>2 DEF SetToSeq
<1> HIDE DEF s, n
<1>4. s \in Seq(S) /\ DOMAIN s = 1 .. n
    BY <1>1, <1>3, SeqDef
<1>5. ToSet(s) \subseteq S
    BY <1>3 DEF ToSet
<1>6. ExistsBijection(1 .. n, ToSet(s))
    <2>1. s \in [1 .. n -> ToSet(s)] /\ \A e \in ToSet(s) : \E i \in 1 .. n : s[i] = e
        BY <1>3, <1>4 DEF ToSet
    <2> QED
        BY <1>3, <2>1 DEF ExistsBijection, Bijection, Injection, Surjection
<1>7. Cardinality(ToSet(s)) = n
    BY <1>1, <1>6, FS_CountingElements
<1>8. ToSet(s) = S
    BY <1>5, <1>7, FS_Subset DEF n
<1> QED
    BY <1>3, <1>4, <1>8 DEF s

-----------------------------------------------------------------------------

USE GraphAssumption, InProcessAssumption

TaskState == {None, "started", "running", "propagate", "writing", "ended"}
AtWork == {"started", "running", "propagate", "writing"}
Step == [status : {"completed", "failed", "skipped"}, run : Nat, keys : SUBSET Port]
Entry == StateWrite \X Nat

Typed ==
    /\ group \in Nat \ {0}
    /\ task \in [Node -> TaskState]
    /\ out \in [Node -> [run : Nat, live : SUBSET Port]]
    /\ runs \in [Node -> Nat]
    /\ DOMAIN state = Field /\ \A f \in ArrayField : state[f] \in Seq(Entry)
    /\ log \in [Node -> Seq(Step)]
    /\ skipped \subseteq Node /\ writing \subseteq Node

-----------------------------------------------------------------------------
(* Types.                                                                  *)

\* What a node may set are output ports.
LEMMA KeysTyped ==
    ASSUME NEW n \in Node, NEW keys \in Keys(n), NEW values, NEW back
    PROVE  keys \in SUBSET Port /\ Live(n, keys, values, back) \in SUBSET Port
<1>1. OutPort[n] \subseteq Port
    BY DEF GraphAssumption
<1>2. keys \in SUBSET Port
    BY <1>1 DEF Keys
<1> QED
    BY <1>2 DEF Live

\* The list now holds what it held and more, and each once if nothing of it is new.
Grows(old, now, more) ==
    /\ now \in Seq(Entry)
    /\ ToSet(now) = ToSet(old) \cup more
    /\ IsInjective(old) /\ ToSet(old) \cap more = {} => IsInjective(now)

\* What the bindings add to an array field.
LEMMA Grown ==
    ASSUME NEW held, NEW f \in ArrayField, held[f] \in Seq(Entry),
           NEW n, NEW run \in Nat, NEW keys
    PROVE  Grows(held[f], Written(held, n, run, keys)[f], Given(n, f, keys) \X {run})
<1> DEFINE new == Given(n, f, keys) \X {run}
           added == SetToSeq(new)
<1>1. IsFiniteSet(new)
    <2>1. Given(n, f, keys) \in SUBSET StateWrite
        BY DEF Given
    <2>2. IsFiniteSet(Given(n, f, keys)) /\ IsFiniteSet({run})
        BY <2>1, FS_Subset, FS_Singleton DEF GraphAssumption
    <2> QED
        BY <2>2, FS_Product
<1>2. added \in Seq(new) /\ ToSet(added) = new /\ IsInjective(added)
    BY <1>1, Listed
<1>3. new \subseteq Entry
    BY DEF Given, Entry
<1>4. added \in Seq(Entry)
    BY <1>2, <1>3, SeqDef
<1>5. f \in Field /\ Written(held, n, run, keys)[f] = held[f] \o added
    BY DEF Written, GraphAssumption
<1> HIDE DEF added, new
<1> QED
    BY <1>2, <1>4, <1>5, Joined DEF new, Grows

LEMMA StoreTyped ==
    ASSUME Typed, NEW n, NEW run \in Nat, NEW keys, NEW live,
           n \in Node => live \in SUBSET Port /\ keys \in SUBSET Port,
           Store(n, run, keys, live)
    PROVE  /\ out' \in [Node -> [run : Nat, live : SUBSET Port]]
           /\ DOMAIN state' = Field /\ \A f \in ArrayField : state'[f] \in Seq(Entry)
           /\ log' \in [Node -> Seq(Step)]
<1>1. out' \in [Node -> [run : Nat, live : SUBSET Port]]
    <2>1. out' = [out EXCEPT ![n] = [run |-> run, live |-> live]]
        BY DEF Store
    <2>2. CASE n \in Node
        <3>1. [run |-> run, live |-> live] \in [run : Nat, live : SUBSET Port]
            BY <2>2
        <3> QED
            BY <2>1, <3>1 DEF Typed
    <2>3. CASE n \notin Node
        BY <2>1, <2>3 DEF Typed
    <2> QED
        BY <2>2, <2>3
<1>2. state' = Written(state, n, run, keys)
    BY DEF Store, WriteState
<1>3. DOMAIN state' = Field
    BY <1>2 DEF Written
<1>4. ASSUME NEW f \in ArrayField PROVE state'[f] \in Seq(Entry)
    <2>1. Grows(state[f], Written(state, n, run, keys)[f], Given(n, f, keys) \X {run})
        BY <1>4, Grown DEF Typed
    <2> QED
        BY <1>2, <2>1 DEF Grows
<1>5. log' \in [Node -> Seq(Step)]
    <2> DEFINE s == [status |-> "completed", run |-> run, keys |-> keys]
    <2>1. log' = [log EXCEPT ![n] = Append(@, s)]
        BY DEF Store, Logged
    <2>2. n \in Node => s \in Step
        BY DEF Step
    <2> HIDE DEF s
    <2>3. log \in [Node -> Seq(Step)]
        BY DEF Typed
    <2>4. CASE n \in Node
        <3>1. Append(log[n], s) \in Seq(Step)
            BY <2>2, <2>3, <2>4, AppendProperties
        <3> QED
            BY <2>1, <2>3, <3>1
    <2>5. CASE n \notin Node
        BY <2>1, <2>3, <2>5
    <2> QED
        BY <2>4, <2>5
<1> QED
    BY <1>1, <1>3, <1>4, <1>5

LEMMA LoggedTyped ==
    ASSUME Typed, NEW n \in Node, NEW s \in {"failed", "skipped"}, NEW run \in Nat,
           Logged(n, s, run, {})
    PROVE  log' \in [Node -> Seq(Step)]
<1> DEFINE e == [status |-> s, run |-> run, keys |-> {}]
<1>1. log' = [log EXCEPT ![n] = Append(@, e)]
    BY DEF Logged
<1>2. e \in Step
    BY DEF Step
<1> HIDE DEF e
<1> QED
    BY <1>1, <1>2 DEF Typed

LEMMA InitTyped == Init => Typed
<1> SUFFICES ASSUME Init PROVE Typed
    OBVIOUS
<1>1. \A n \in Node : OutPort[n] \in SUBSET Port
    BY DEF GraphAssumption
<1>2. out \in [Node -> [run : Nat, live : SUBSET Port]]
    BY <1>1 DEF Init
<1>3. DOMAIN state = Field /\ \A f \in ArrayField : state[f] \in Seq(Entry)
    BY DEF Init, GraphAssumption
<1>4. log \in [Node -> Seq(Step)]
    BY DEF Init
<1> QED
    BY <1>2, <1>3, <1>4 DEF Init, Typed, TaskState

\* The goroutine of a node keeps the types.
LEMMA GoroutineTyped ==
    ASSUME Typed, NEW n \in Node, Goroutine(n)
    PROVE  Typed'
<1>0. runs[n] \in Nat
    BY DEF Typed
<1>1. CASE Resolve(n)
    <2>1. CASE Kind[n] = "unknown"
        <3>1. log' \in [Node -> Seq(Step)]
            BY <1>0, <1>1, <2>1, LoggedTyped DEF Resolve
        <3>2. runs' = runs /\ task' \in [Node -> TaskState]
            BY <1>1, <2>1 DEF Resolve, Typed, TaskState
        <3> QED
            BY <1>1, <3>1, <3>2 DEF Resolve, Typed
    <2>2. CASE Kind[n] # "unknown"
        <3>1. log' = log /\ runs' = [runs EXCEPT ![n] = @ + 1]
            BY <1>1, <2>2 DEF Resolve
        <3>2. runs' \in [Node -> Nat]
            BY <3>1 DEF Typed
        <3>3. task' \in [Node -> TaskState]
            BY <1>1, <2>2 DEF Resolve, Typed, TaskState
        <3> QED
            BY <1>1, <3>1, <3>2, <3>3 DEF Resolve, Typed
    <2> QED
        BY <2>1, <2>2
<1>2. CASE NodeFails(n)
    <2>1. log' \in [Node -> Seq(Step)]
        BY <1>0, <1>2, LoggedTyped DEF NodeFails
    <2>2. task' \in [Node -> TaskState]
        BY <1>2 DEF NodeFails, Typed, TaskState
    <2> QED
        BY <1>2, <2>1, <2>2 DEF NodeFails, Typed
<1>3. CASE NodeSucceeds(n)
    <2>1. PICK keys \in Keys(n) : Store(n, runs[n], keys, Live(n, keys, seen[n], FALSE))
        BY <1>3 DEF NodeSucceeds
    <2>2. keys \in SUBSET Port /\ Live(n, keys, seen[n], FALSE) \in SUBSET Port
        BY KeysTyped
    <2>3. /\ out' \in [Node -> [run : Nat, live : SUBSET Port]]
          /\ DOMAIN state' = Field /\ \A f \in ArrayField : state'[f] \in Seq(Entry)
          /\ log' \in [Node -> Seq(Step)]
        BY <1>0, <2>1, <2>2, StoreTyped
    <2>4. task' \in [Node -> TaskState]
        BY <1>3 DEF NodeSucceeds, Typed, TaskState
    <2> QED
        BY <1>3, <2>3, <2>4 DEF NodeSucceeds, Typed
<1>4. CASE Propagate(n)
    BY <1>4 DEF Propagate, Typed, TaskState, SkipsOf, loopVars, dataVars
<1>5. CASE Propagated(n)
    BY <1>5 DEF Propagated, Typed, TaskState, loopVars
<1> QED
    BY <1>1, <1>2, <1>3, <1>4, <1>5 DEF Goroutine

\* What RunAgain stores, also of a node the proof does not know to be one.
LEMMA AgainStores ==
    ASSUME RunAgain
    PROVE  \E keys, live :
               /\ keys \in Keys(First)
               /\ Store(First, runs[First] + 1, keys, live)
               /\ First \in Node => live \in SUBSET Port /\ keys \in SUBSET Port
<1>1. PICK keys \in Keys(First) :
            Store(First, runs[First] + 1, keys, Live(First, keys, Resolved(First),
                pc = "body" /\ backValue /\ Looped.dst = First /\ Looped.dport = "value"))
    BY DEF RunAgain
<1>2. First \in Node =>
        /\ Live(First, keys, Resolved(First),
                pc = "body" /\ backValue /\ Looped.dst = First /\ Looped.dport = "value") \in SUBSET Port
        /\ keys \in SUBSET Port
    BY KeysTyped
<1> QED
    BY <1>1, <1>2

\* A store for what is no node changes nothing the proofs look at.
LEMMA NoNodeStores ==
    ASSUME Typed, NEW n, n \notin Node, NEW run, NEW keys, NEW live, Store(n, run, keys, live)
    PROVE  /\ out' = out /\ log' = log /\ DOMAIN state' = Field
           /\ \A f \in ArrayField : state'[f] = state[f]
<1>1. out' = out /\ log' = log
    BY DEF Store, Logged, Typed
<1>2. state' = Written(state, n, run, keys)
    BY DEF Store, WriteState
<1>3. ASSUME NEW f \in ArrayField PROVE state'[f] = state[f]
    <2>1. Given(n, f, keys) = {}
        BY DEF Given, GraphAssumption
    <2>2. Given(n, f, keys) \X {run} = {}
        BY <2>1
    <2>3. f \in Field /\ state'[f] = state[f] \o SetToSeq({})
        BY <1>2, <2>2 DEF Written, GraphAssumption
    <2>4. SetToSeq({}) \in Seq({}) /\ ToSet(SetToSeq({})) = {}
        BY Listed, FS_EmptySet
    <2>5. SetToSeq({}) = << >>
        BY <2>4, LenProperties
    <2>6. state[f] \in Seq(Entry)
        BY DEF Typed
    <2> QED
        BY <2>3, <2>5, <2>6, ConcatEmptySeq
<1> QED
    BY <1>1, <1>2, <1>3 DEF Written

LEMMA TypesKept == Typed /\ [Next]_vars => Typed'
<1> SUFFICES ASSUME Typed, [Next]_vars PROVE Typed'
    OBVIOUS
<1>1. CASE GroupStep
    <2>1. CASE Begin
        BY <2>1 DEF Begin, Typed, loopVars
    <2>2. ASSUME NEW n \in Node, Visit(n) PROVE Typed'
        <3>1. log' \in [Node -> Seq(Step)]
            <4>1. CASE log' = log
                BY <4>1 DEF Typed
            <4>2. CASE Logged(n, "skipped", 0, {})
                BY <4>2, LoggedTyped
            <4> QED
                BY <2>2, <4>1, <4>2 DEF Visit
        <3>2. task' \in [Node -> TaskState]
            BY <2>2 DEF Visit, Typed, TaskState
        <3> QED
            BY <2>2, <3>1, <3>2 DEF Visit, Typed, loopVars
    <2>3. ASSUME NEW n \in Node, MapRace(n) PROVE Typed'
        BY <2>3 DEF MapRace, Typed, loopVars, dataVars
    <2>4. CASE NextGroup
        BY <2>4 DEF NextGroup, Typed, loopVars, dataVars
    <2> QED
        BY <1>1, <2>1, <2>2, <2>3, <2>4 DEF GroupStep
<1>2. CASE \E n \in Node : Goroutine(n)
    BY <1>2, GoroutineTyped
<1>3. CASE ItemStep
    BY <1>3 DEF ItemStep, Spawn, StartItem, EndItem, ItemGoes, Typed, loopVars, dataVars
<1>4. CASE LoopStep
    <2>1. CASE RunAgain
        <3> DEFINE n == First
        <3>1. PICK keys, live :
                /\ keys \in Keys(n)
                /\ Store(n, runs[n] + 1, keys, live)
                /\ n \in Node => live \in SUBSET Port /\ keys \in SUBSET Port
            BY <2>1, AgainStores
        <3>2. runs' = [runs EXCEPT ![n] = @ + 1] /\ UNCHANGED <<group, task, skipped, writing>>
            BY <2>1 DEF RunAgain, flowVars
        <3> HIDE DEF n
        <3>3. CASE n \in Node
            <4>1. runs[n] + 1 \in Nat
                BY <3>3 DEF Typed
            <4>2. /\ out' \in [Node -> [run : Nat, live : SUBSET Port]]
                  /\ DOMAIN state' = Field /\ \A f \in ArrayField : state'[f] \in Seq(Entry)
                  /\ log' \in [Node -> Seq(Step)]
                BY <3>1, <4>1, StoreTyped
            <4> QED
                BY <3>2, <4>1, <4>2 DEF Typed
        <3>4. CASE n \notin Node
            <4>1. /\ out' = out /\ log' = log /\ DOMAIN state' = Field
                  /\ \A f \in ArrayField : state'[f] = state[f]
                BY <3>1, <3>4, NoNodeStores
            <4> QED
                BY <3>2, <3>4, <4>1 DEF Typed
        <3> QED
            BY <3>3, <3>4
    <2>2. CASE Iterate
        BY <2>2 DEF Iterate, Typed
    <2>3. CASE EndIteration \/ EndDownstream \/ ConditionFails \/ Complete
        BY <2>3 DEF EndIteration, EndDownstream, ConditionFails, Complete, Typed, loopVars, dataVars
    <2>4. CASE LeaveLoop
        BY <2>4 DEF LeaveLoop, Typed, dataVars
    <2>5. CASE RunAgainFails
        <3>1. log' \in [Node -> Seq(Step)]
            <4>1. CASE log' = log
                BY <4>1 DEF Typed
            <4>2. CASE Logged(First, "failed", runs[First], {}) /\ First \in Node
                <5>1. runs[First] \in Nat
                    BY <4>2 DEF Typed
                <5> QED
                    BY <4>2, <5>1, LoggedTyped
            <4>3. CASE Logged(First, "failed", runs[First], {}) /\ First \notin Node
                BY <4>3 DEF Logged, Typed
            <4> QED
                BY <2>5, <4>1, <4>2, <4>3 DEF RunAgainFails
        <3> QED
            BY <2>5, <3>1 DEF RunAgainFails, Typed, loopVars
    <2> QED
        BY <1>4, <2>1, <2>2, <2>3, <2>4, <2>5 DEF LoopStep
<1>5. CASE Over \/ UNCHANGED vars
    BY <1>5 DEF Over, vars, flowVars, loopVars, dataVars, Typed
<1> QED
    BY <1>1, <1>2, <1>3, <1>4, <1>5 DEF Next

-----------------------------------------------------------------------------
(* The appends to the array fields.                                        *)

Early == pc \in {"begin", "groups"}

\* A record with ports is of a run that has begun, and is over while the node is at work.
Recorded ==
    \A n \in Node : \A s \in ToSet(log[n]) : s.keys # {} =>
        /\ s.run <= runs[n]
        /\ Early /\ task[n] = "running" => s.run < runs[n]

Kept(f) ==
    /\ ToSet(state[f]) = UNION {Due(f, n) : n \in Node}
    /\ IsInjective(state[f])

AppendInv ==
    /\ pc = "begin" => \A n \in Node : task[n] = None
    /\ Recorded
    /\ \A f \in ArrayField : Kept(f)

LEMMA StepTypes ==
    ASSUME Typed, NEW n \in Node
    PROVE  log[n] \in Seq(Step) /\ ToSet(log[n]) \subseteq Step
<1>1. log[n] \in Seq(Step)
    BY DEF Typed
<1> QED
    BY <1>1, SeqFacts

\* An entry names a binding of the node whose record it comes from.
LEMMA DueOf ==
    ASSUME NEW f, NEW n, NEW e \in Due(f, n)
    PROVE  e[1].node = n /\ \E s \in ToSet(log[n]) : s.run = e[2] /\ s.keys # {}
<1>1. PICK s \in ToSet(log[n]) : e \in Given(n, f, s.keys) \X {s.run}
    BY DEF Due
<1> QED
    BY <1>1 DEF Given

\* A record is added at the end.
LEMMA LogGrows ==
    ASSUME Typed, NEW n \in Node, NEW s \in Step, log' = [log EXCEPT ![n] = Append(@, s)]
    PROVE  /\ ToSet(log'[n]) = ToSet(log[n]) \cup {s}
           /\ \A m \in Node : m # n => log'[m] = log[m]
<1>1. log'[n] = Append(log[n], s) /\ \A m \in Node : m # n => log'[m] = log[m]
    BY DEF Typed
<1> DEFINE t == log[n]
           u == Append(t, s)
           k == Len(t)
<1>2. t \in Seq(Step) /\ k \in Nat /\ DOMAIN t = 1 .. k
    BY StepTypes, SeqFacts
<1>3. /\ u \in Seq(Step) /\ Len(u) = k + 1
      /\ \A i \in 1 .. k : u[i] = t[i]
      /\ u[k + 1] = s
    BY <1>2, AppendProperties
<1>4. DOMAIN u = 1 .. k + 1
    BY <1>3, SeqFacts
<1> HIDE DEF t, u, k
<1>5. 1 .. k + 1 = (1 .. k) \cup {k + 1}
    BY <1>2
<1>6. ToSet(u) = ToSet(t) \cup {s}
    BY <1>2, <1>3, <1>4, <1>5 DEF ToSet
<1> QED
    BY <1>1, <1>6 DEF t, u

\* A run without a record is stored.
LEMMA StoreKeepsAppends ==
    ASSUME Typed, AppendInv, NEW n \in Node, NEW run \in Nat, NEW keys \in SUBSET Port,
           NEW live, Store(n, run, keys, live),
           \A s \in ToSet(log[n]) : s.keys # {} => s.run # run,
           \A s \in ToSet(log[n]) : s.keys # {} => s.run <= run,
           runs'[n] = run, \A m \in Node : m # n => runs'[m] = runs[m],
           ~(Early' /\ task'[n] = "running"),
           \A m \in Node : Early' /\ task'[m] = "running" => Early /\ task[m] = "running",
           pc' # "begin"
    PROVE  AppendInv'
<1> DEFINE s0 == [status |-> "completed", run |-> run, keys |-> keys]
           new(f) == Given(n, f, keys) \X {run}
<1>0. s0 \in Step /\ s0.run = run /\ s0.keys = keys
    BY DEF Step
<1>1. /\ ToSet(log'[n]) = ToSet(log[n]) \cup {s0}
      /\ \A m \in Node : m # n => log'[m] = log[m]
    <2>1. log' = [log EXCEPT ![n] = Append(@, s0)]
        BY DEF Store, Logged
    <2> HIDE DEF s0
    <2> QED
        BY <1>0, <2>1, LogGrows
<1> HIDE DEF s0
<1>2. Recorded'
    <2> SUFFICES ASSUME NEW m \in Node, NEW s \in ToSet(log'[m]), s.keys # {}
                 PROVE  /\ s.run <= runs'[m]
                        /\ Early' /\ task'[m] = "running" => s.run < runs'[m]
        BY DEF Recorded
    <2>1. CASE m = n
        <3>1. s.run <= run
            BY <1>0, <1>1, <2>1
        <3> QED
            BY <2>1, <3>1
    <2>2. CASE m # n
        <3>1. s \in ToSet(log[m])
            BY <1>1, <2>2
        <3> QED
            BY <2>2, <3>1 DEF AppendInv, Recorded
    <2> QED
        BY <2>1, <2>2
<1>3. ASSUME NEW f \in ArrayField PROVE Kept(f)'
    <2>1. /\ state[f] \in Seq(Entry) /\ ToSet(state[f]) = UNION {Due(f, m) : m \in Node}
          /\ IsInjective(state[f])
        BY DEF Typed, AppendInv, Kept
    <2>2. ToSet(state[f]) \cap new(f) = {}
        <3> SUFFICES ASSUME NEW e \in ToSet(state[f]), e \in new(f) PROVE FALSE
            OBVIOUS
        <3>1. PICK m \in Node : e \in Due(f, m)
            BY <2>1
        <3>2. m = n /\ \E s \in ToSet(log[m]) : s.run = e[2] /\ s.keys # {}
            BY <3>1, DueOf DEF Given
        <3>3. e[2] = run
            OBVIOUS
        <3> QED
            BY <3>2, <3>3
    <2>3. state' = Written(state, n, run, keys)
        BY DEF Store, WriteState
    <2>4. /\ ToSet(state'[f]) = ToSet(state[f]) \cup new(f)
          /\ IsInjective(state'[f])
        <3>1. Grows(state[f], Written(state, n, run, keys)[f], new(f))
            BY <2>1, Grown
        <3> QED
            BY <2>1, <2>2, <2>3, <3>1 DEF Grows
    <2> HIDE DEF new
    <2>5. Due(f, n)' = Due(f, n) \cup new(f)
        BY <1>0, <1>1 DEF Due, new
    <2>6. \A m \in Node : m # n => Due(f, m)' = Due(f, m)
        BY <1>1 DEF Due
    <2>7. UNION {Due(f, m)' : m \in Node} = (UNION {Due(f, m) : m \in Node}) \cup new(f)
        <3>1. ASSUME NEW x, NEW m \in Node, x \in Due(f, m)'
              PROVE  x \in (UNION {Due(f, k) : k \in Node}) \cup new(f)
            <4>1. CASE m = n
                BY <2>5, <3>1, <4>1
            <4>2. CASE m # n
                <5>1. x \in Due(f, m)
                    BY <2>6, <3>1, <4>2
                <5> QED
                    BY <5>1
            <4> QED
                BY <4>1, <4>2
        <3>2. ASSUME NEW x, NEW m \in Node, x \in Due(f, m)
              PROVE  x \in UNION {Due(f, k)' : k \in Node}
            BY <2>5, <2>6, <3>2
        <3>3. ASSUME NEW x \in new(f) PROVE x \in UNION {Due(f, k)' : k \in Node}
            BY <2>5
        <3> QED
            BY <3>1, <3>2, <3>3
    <2>8. ToSet(state[f])' = UNION {Due(f, m)' : m \in Node}
        BY <2>1, <2>4, <2>7
    <2> QED
        BY <2>4, <2>8 DEF Kept
<1> QED
    BY <1>2, <1>3 DEF AppendInv

\* A record without ports adds nothing.
LEMMA EmptyStep ==
    ASSUME Typed, NEW n \in Node, NEW s \in {"failed", "skipped"}, NEW run \in Nat,
           Logged(n, s, run, {})
    PROVE  \A m \in Node : /\ \A e \in ToSet(log'[m]) : e.keys # {} => e \in ToSet(log[m])
                           /\ ToSet(log[m]) \subseteq ToSet(log'[m])
<1> DEFINE e == [status |-> s, run |-> run, keys |-> {}]
<1>1. log' = [log EXCEPT ![n] = Append(@, e)]
    BY DEF Logged
<1>2. e \in Step /\ e.keys = {}
    BY DEF Step
<1> HIDE DEF e
<1>3. /\ ToSet(log'[n]) = ToSet(log[n]) \cup {e}
      /\ \A m \in Node : m # n => log'[m] = log[m]
    BY <1>1, <1>2, LogGrows
<1> QED
    BY <1>2, <1>3

\* The records that have ports, and nothing but them, matter to what is due.
SameSteps ==
    \A m \in Node : /\ \A e \in ToSet(log'[m]) : e.keys # {} => e \in ToSet(log[m])
                    /\ ToSet(log[m]) \subseteq ToSet(log'[m])

\* A step that stores nothing, and lets only a node begin that gets a new run.
LEMMA OthersKeepAppends ==
    ASSUME Typed, Typed', AppendInv, \A f \in ArrayField : state'[f] = state[f], SameSteps,
           \A m \in Node : runs[m] <= runs'[m],
           \A m \in Node : Early' /\ task'[m] = "running" =>
               runs[m] < runs'[m] \/ (Early /\ task[m] = "running"),
           pc' = "begin" => \A m \in Node : task'[m] = None
    PROVE  AppendInv'
<1>1. Recorded'
    <2> SUFFICES ASSUME NEW m \in Node, NEW s \in ToSet(log'[m]), s.keys # {}
                 PROVE  /\ s.run <= runs'[m]
                        /\ Early' /\ task'[m] = "running" => s.run < runs'[m]
        BY DEF Recorded
    <2>1. s \in ToSet(log[m])
        BY DEF SameSteps
    <2>2. s.run <= runs[m] /\ (Early /\ task[m] = "running" => s.run < runs[m])
        BY <2>1 DEF AppendInv, Recorded
    <2>3. s.run \in Nat /\ runs[m] \in Nat /\ runs'[m] \in Nat
        BY <2>1, StepTypes DEF Typed, Step
    <2>4. runs[m] <= runs'[m]
        OBVIOUS
    <2>5. s.run <= runs'[m]
        BY <2>2, <2>3, <2>4
    <2>6. ASSUME Early', task'[m] = "running" PROVE s.run < runs'[m]
        <3>1. CASE runs[m] < runs'[m]
            BY <2>2, <2>3, <3>1
        <3>2. CASE Early /\ task[m] = "running"
            BY <2>2, <2>3, <2>4, <3>2
        <3> QED
            BY <2>6, <3>1, <3>2
    <2> QED
        BY <2>5, <2>6
<1>2. ASSUME NEW f \in ArrayField PROVE Kept(f)'
    <2>1. ASSUME NEW m \in Node PROVE Due(f, m)' = Due(f, m)
        <3>1. ASSUME NEW x \in Due(f, m)' PROVE x \in Due(f, m)
            <4>1. PICK s \in ToSet(log'[m]) : x \in Given(m, f, s.keys) \X {s.run}
                BY <3>1 DEF Due
            <4>2. s.keys # {}
                BY <4>1 DEF Given
            <4>3. s \in ToSet(log[m])
                BY <4>2 DEF SameSteps
            <4> QED
                BY <4>1, <4>3 DEF Due
        <3>2. ASSUME NEW x \in Due(f, m) PROVE x \in Due(f, m)'
            <4>1. PICK s \in ToSet(log[m]) : x \in Given(m, f, s.keys) \X {s.run}
                BY <3>2 DEF Due
            <4>2. s \in ToSet(log'[m])
                BY DEF SameSteps
            <4> QED
                BY <4>1, <4>2 DEF Due
        <3> QED
            BY <3>1, <3>2
    <2>2. ToSet(state'[f]) = UNION {Due(f, m) : m \in Node} /\ IsInjective(state'[f])
        BY DEF AppendInv, Kept
    <2> QED
        BY <2>1, <2>2 DEF Kept
<1> QED
    BY <1>1, <1>2 DEF AppendInv

LEMMA InitAppends == Init => AppendInv
<1> SUFFICES ASSUME Init PROVE AppendInv
    OBVIOUS
<1>1. DOMAIN << >> = {} /\ ToSet(<< >>) = {} /\ IsInjective(<< >>)
    BY DEF ToSet, IsInjective
<1>2. \A n \in Node : ToSet(log[n]) = {}
    BY <1>1 DEF Init
<1>3. ASSUME NEW f \in ArrayField PROVE Kept(f)
    <2>1. state[f] = << >>
        BY DEF Init, GraphAssumption
    <2>2. \A n \in Node : Due(f, n) = {}
        BY <1>2 DEF Due
    <2> QED
        BY <1>1, <2>1, <2>2 DEF Kept
<1> QED
    BY <1>2, <1>3 DEF Init, AppendInv, Recorded

LEMMA AppendsInductive == Typed /\ AppendInv /\ [Next]_vars => AppendInv'
<1> SUFFICES ASSUME Typed, AppendInv, [Next]_vars PROVE AppendInv'
    OBVIOUS
<1>1. Typed'
    BY TypesKept
<1>2. \A m \in Node : runs[m] \in Nat
    BY DEF Typed
<1>3. \A m \in Node : runs[m] <= runs[m]
    BY <1>2
<1>0. log' = log => SameSteps
    BY DEF SameSteps
<1>9. ASSUME NEW n \in Node, NEW s \in {"failed", "skipped"}, NEW run \in Nat, Logged(n, s, run, {})
      PROVE  SameSteps
    BY <1>9, EmptyStep DEF SameSteps
<1>4. CASE GroupStep
    <2>1. CASE Begin
        <3>1. \A m \in Node : task'[m] = None
            BY <2>1 DEF Begin, AppendInv
        <3> QED
            BY <1>0, <1>1, <1>3, <2>1, <3>1, OthersKeepAppends DEF Begin, None
    <2>2. ASSUME NEW n \in Node, Visit(n) PROVE AppendInv'
        <3>1. \A m \in Node : task'[m] = "running" => task[m] = "running"
            BY <2>2 DEF Visit, Typed
        <3>2. SameSteps
            BY <1>0, <1>9, <2>2 DEF Visit
        <3> QED
            BY <1>1, <1>3, <2>2, <3>1, <3>2, OthersKeepAppends DEF Visit, Early
    <2>3. ASSUME NEW n \in Node, MapRace(n) PROVE AppendInv'
        BY <1>0, <1>1, <1>3, <2>3, OthersKeepAppends DEF MapRace, Early, dataVars
    <2>4. CASE NextGroup
        BY <1>0, <1>1, <1>3, <2>4, OthersKeepAppends DEF NextGroup, Early, dataVars
    <2> QED
        BY <1>4, <2>1, <2>2, <2>3, <2>4 DEF GroupStep
<1>5. ASSUME NEW n \in Node, Goroutine(n) PROVE AppendInv'
    <2>1. CASE Resolve(n)
        <3>1. CASE Kind[n] = "unknown"
            <4>1. \A m \in Node : task'[m] = "running" => task[m] = "running"
                BY <2>1, <3>1 DEF Resolve, Typed
            <4>2. SameSteps
                BY <1>2, <1>9, <2>1, <3>1 DEF Resolve
            <4>3. runs' = runs /\ state' = state
                BY <2>1, <3>1 DEF Resolve
            <4>4. pc = "groups" /\ pc' = "groups"
                BY <2>1 DEF Resolve
            <4> QED
                BY <1>1, <1>3, <4>1, <4>2, <4>3, <4>4, OthersKeepAppends DEF Early
        <3>2. CASE Kind[n] # "unknown"
            <4>1. \A m \in Node : m # n => task'[m] = task[m] /\ runs'[m] = runs[m]
                BY <2>1, <3>2 DEF Resolve, Typed
            <4>2. runs'[n] = runs[n] + 1
                BY <2>1, <3>2 DEF Resolve, Typed
            <4>3. \A m \in Node : runs[m] <= runs'[m]
                BY <1>2, <4>1, <4>2
            <4>4. runs[n] < runs'[n]
                BY <1>2, <4>2
            <4>5. log' = log /\ state' = state
                BY <2>1, <3>2 DEF Resolve
            <4>6. pc = "groups" /\ pc' = "groups"
                BY <2>1 DEF Resolve
            <4> QED
                BY <1>0, <1>1, <4>1, <4>3, <4>4, <4>5, <4>6, OthersKeepAppends DEF Early
        <3> QED
            BY <3>1, <3>2
    <2>2. CASE NodeFails(n)
        <3>1. \A m \in Node : task'[m] = "running" => task[m] = "running"
            BY <2>2 DEF NodeFails, Typed
        <3>2. SameSteps
            BY <1>2, <1>9, <2>2 DEF NodeFails
        <3> QED
            BY <1>1, <1>3, <2>2, <3>1, <3>2, OthersKeepAppends DEF NodeFails, Early
    <2>3. CASE NodeSucceeds(n)
        <3>1. PICK keys \in Keys(n) : Store(n, runs[n], keys, Live(n, keys, seen[n], FALSE))
            BY <2>3 DEF NodeSucceeds
        <3>2. keys \in SUBSET Port /\ runs[n] \in Nat
            BY <1>2, KeysTyped
        <3>3. /\ task'[n] # "running" /\ runs' = runs
              /\ \A m \in Node : task'[m] = "running" => task[m] = "running"
            BY <2>3 DEF NodeSucceeds, Typed
        <3>4. Early /\ task[n] = "running" /\ pc' = "groups"
            BY <2>3 DEF NodeSucceeds, Early
        <3>5. \A s \in ToSet(log[n]) : s.keys # {} => s.run < runs[n] /\ s.run <= runs[n]
            BY <3>4 DEF AppendInv, Recorded
        <3>6. \A s \in ToSet(log[n]) : s.keys # {} => s.run # runs[n]
            BY <3>2, <3>5, StepTypes DEF Step
        <3> QED
            BY <3>1, <3>2, <3>3, <3>4, <3>5, <3>6, StoreKeepsAppends DEF Early
    <2>4. CASE Propagate(n)
        <3>1. \A m \in Node : task'[m] = "running" => task[m] = "running"
            BY <2>4 DEF Propagate, Typed
        <3> QED
            BY <1>0, <1>1, <1>3, <2>4, <3>1, OthersKeepAppends DEF Propagate, Early, dataVars
    <2>5. CASE Propagated(n)
        <3>1. \A m \in Node : task'[m] = "running" => task[m] = "running"
            BY <2>5 DEF Propagated, Typed
        <3> QED
            BY <1>0, <1>1, <1>3, <2>5, <3>1, OthersKeepAppends DEF Propagated, Early
    <2> QED
        BY <1>5, <2>1, <2>2, <2>3, <2>4, <2>5 DEF Goroutine
<1>6. CASE ItemStep
    <2>1. pc = "groups" /\ UNCHANGED <<pc, task, log, state, runs>>
        BY <1>6 DEF ItemStep, Spawn, StartItem, EndItem, ItemGoes, Running, dataVars
    <2> QED
        BY <1>0, <1>1, <1>3, <2>1, OthersKeepAppends DEF Early
<1>7. CASE LoopStep
    <2>1. ~Early /\ ~Early'
        BY <1>7 DEF LoopStep, Iterate, EndIteration, LeaveLoop, EndDownstream, RunAgain,
                    RunAgainFails, ConditionFails, Complete, Early, flowVars
    <2>6. pc' # "begin"
        BY <2>1 DEF Early
    <2>2. CASE RunAgain
        <3> DEFINE n == First
        <3>1. PICK keys, live :
                /\ keys \in Keys(n)
                /\ Store(n, runs[n] + 1, keys, live)
                /\ n \in Node => live \in SUBSET Port /\ keys \in SUBSET Port
            BY <2>2, AgainStores
        <3>4. runs' = [runs EXCEPT ![n] = @ + 1]
            BY <2>2 DEF RunAgain
        <3> HIDE DEF n
        <3>2. CASE n \in Node
            <4>1. keys \in SUBSET Port /\ runs[n] \in Nat /\ runs[n] + 1 \in Nat
                BY <1>2, <3>1, <3>2
            <4>2. runs'[n] = runs[n] + 1 /\ \A m \in Node : m # n => runs'[m] = runs[m]
                BY <3>4, <3>2 DEF Typed
            <4>3. \A s \in ToSet(log[n]) : s.keys # {} => s.run <= runs[n]
                BY <3>2 DEF AppendInv, Recorded
            <4>4. \A s \in ToSet(log[n]) : s.run \in Nat
                BY <3>2, StepTypes DEF Step
            <4>5. \A s \in ToSet(log[n]) : s.keys # {} => s.run <= runs[n] + 1 /\ s.run # runs[n] + 1
                BY <4>1, <4>3, <4>4
            <4> QED
                BY <2>1, <2>6, <3>1, <3>2, <4>1, <4>2, <4>5, StoreKeepsAppends
        <3>3. CASE n \notin Node
            <4>1. log' = log /\ \A f \in ArrayField : state'[f] = state[f]
                BY <3>1, <3>3, NoNodeStores
            <4>2. runs' = runs
                BY <3>4, <3>3 DEF Typed
            <4> QED
                BY <1>0, <1>1, <1>3, <2>1, <2>6, <4>1, <4>2, OthersKeepAppends
        <3> QED
            BY <3>2, <3>3
    <2>3. CASE RunAgainFails
        <3>1. SameSteps
            <4>1. CASE log' = log
                BY <1>0, <4>1
            <4>2. CASE Logged(First, "failed", runs[First], {}) /\ First \in Node
                BY <1>2, <1>9, <4>2
            <4>3. CASE Logged(First, "failed", runs[First], {}) /\ First \notin Node
                <5>1. log' = log
                    BY <4>3 DEF Logged, Typed
                <5> QED
                    BY <1>0, <5>1
            <4> QED
                BY <2>3, <4>1, <4>2, <4>3 DEF RunAgainFails
        <3>2. state' = state /\ runs' = runs
            BY <2>3 DEF RunAgainFails
        <3> QED
            BY <1>1, <1>3, <2>1, <2>6, <3>1, <3>2, OthersKeepAppends
    <2>4. CASE ~RunAgain /\ ~RunAgainFails
        <3>1. state' = state /\ log' = log /\ runs' = runs
            BY <1>7, <2>4 DEF LoopStep, Iterate, EndIteration, LeaveLoop, EndDownstream,
                              ConditionFails, Complete, dataVars
        <3> QED
            BY <1>0, <1>1, <1>3, <2>1, <2>6, <3>1, OthersKeepAppends
    <2> QED
        BY <2>2, <2>3, <2>4
<1>8. CASE Over \/ UNCHANGED vars
    <2>1. UNCHANGED <<pc, task, state, log, runs>>
        BY <1>8 DEF Over, vars, flowVars, dataVars
    <2> QED
        BY <1>0, <1>1, <1>3, <2>1, OthersKeepAppends DEF Early, AppendInv
<1> QED
    BY <1>4, <1>5, <1>6, <1>7, <1>8 DEF Next

\* An array field holds one element for every run that completed and every binding of its
\* node whose port the run set, and nothing else (applyStateWrites under the mutex), for
\* any graph and bindings, any number of iterations and any interleaving of the goroutines.
THEOREM AppendsAreKept == Spec => []AppendsKept
<1>1. Init => Typed /\ AppendInv
    BY InitTyped, InitAppends
<1>2. Typed /\ AppendInv /\ [Next]_vars => (Typed /\ AppendInv)'
    BY TypesKept, AppendsInductive
<1>3. Typed /\ AppendInv => AppendsKept
    BY DEF AppendInv, Kept, AppendsKept
<1> QED
    BY <1>1, <1>2, <1>3, PTL DEF Spec

-----------------------------------------------------------------------------
(* The unlocked read of skipped.                                           *)

\* What the code does not ask for: the target of a back-edge has a forward edge as well.
\* Without one it is skipped as soon as the back-edge dies, in the middle of a group,
\* and takes nodes of that group with it.
EntriesHaveInputs == \A e \in Edge : e.back => ForwardIn(e.dst) # {}

\* Whoever is not skipped has a reason: no dead edge at all, or a live one.
SkipsSettled(skip, gone) ==
    \A k \in Node \ skip :
        \/ \A e \in InEdges(k) : e \notin gone
        \/ \E e \in ForwardIn(k) : e \notin gone /\ e.src \notin skip

LEMMA EdgesGoOn ==
    ASSUME NEW i \in 1 .. Len(Group), NEW j \in 1 .. Len(Group), NEW e \in Edge, ~e.back,
           e.src \in Group[i], e.dst \in Group[j]
    PROVE  i < j
BY DEF GraphAssumption

LEMMA GroupOf ==
    ASSUME NEW n \in Node
    PROVE  \E i \in 1 .. Len(Group) : n \in Group[i]
BY DEF GraphAssumption

LEMMA OneGroup ==
    ASSUME NEW i \in 1 .. Len(Group), NEW j \in 1 .. Len(Group), NEW n, n \in Group[i], n \in Group[j]
    PROVE  i = j
BY DEF GraphAssumption

\* What markSkipped reaches is closed: a visit of any node it left alone changes nothing.
LEMMA SkipsClosed ==
    ASSUME NEW skip \in SUBSET Node, NEW gone
    PROVE  /\ skip \subseteq SkipsOf(gone, skip)
           /\ SkipsOf(gone, skip) \subseteq Node
           /\ ClosedUnderSkips(SkipsOf(gone, skip), gone, skip)
<1> DEFINE W == SkipsOf(gone, skip)
<1>1. skip \subseteq W /\ W \subseteq Node
    BY DEF SkipsOf
<1>2. ClosedUnderSkips(W, gone, skip)
    <2> DEFINE deadW == gone \cup UNION {OutEdges(n) : n \in W \ skip}
    <2> SUFFICES ASSUME NEW k \in Node \ W
                 PROVE  \/ \A e \in InEdges(k) : e \notin deadW
                        \/ \E e \in ForwardIn(k) : e \notin deadW /\ e.src \notin W
        BY DEF ClosedUnderSkips
    <2>1. PICK S \in SUBSET Node : skip \subseteq S /\ ClosedUnderSkips(S, gone, skip) /\ k \notin S
        BY DEF SkipsOf
    <2> DEFINE deadS == gone \cup UNION {OutEdges(n) : n \in S \ skip}
    <2>2. W \subseteq S
        BY <2>1 DEF SkipsOf
    <2>3. deadW \subseteq deadS
        BY <2>2
    <2>4. \/ \A e \in InEdges(k) : e \notin deadS
          \/ \E e \in ForwardIn(k) : e \notin deadS /\ e.src \notin S
        BY <2>1 DEF ClosedUnderSkips
    <2> QED
        BY <2>2, <2>3, <2>4
<1> QED
    BY <1>1, <1>2

\* A conditional of group g skips only nodes of later groups.
LEMMA SkipsComeLater ==
    ASSUME EntriesHaveInputs, NEW g \in 1 .. Len(Group), NEW n \in Group[g],
           NEW skip \in SUBSET Node, NEW gone, SkipsSettled(skip, gone),
           \A x \in skip : OutEdges(x) \subseteq gone,
           NEW killed \in SUBSET OutEdges(n)
    PROVE  (SkipsOf(gone \cup killed, skip) \ skip) \cap Group[g] = {}
<1> DEFINE later == {x \in Node : \E j \in 1 .. Len(Group) : j > g /\ x \in Group[j]}
           S == skip \cup later
           deadS == (gone \cup killed) \cup UNION {OutEdges(x) : x \in S \ skip}
<1>1. ClosedUnderSkips(S, gone \cup killed, skip)
    <2> SUFFICES ASSUME NEW k \in Node \ S
                 PROVE  \/ \A e \in InEdges(k) : e \notin deadS
                        \/ \E e \in ForwardIn(k) : e \notin deadS /\ e.src \notin S
        BY DEF ClosedUnderSkips
    <2>1. PICK h \in 1 .. Len(Group) : k \in Group[h]
        BY GroupOf
    <2>2. h <= g
        BY <2>1
    <2>3. ASSUME NEW e \in ForwardIn(k), e \notin gone PROVE e \notin deadS /\ e.src \notin S
        <3>1. e \in Edge /\ ~e.back /\ e.dst = k /\ e.src \in Node
            BY DEF ForwardIn, InEdges, GraphAssumption
        <3>2. PICK i \in 1 .. Len(Group) : e.src \in Group[i]
            BY <3>1, GroupOf
        <3>3. i < h
            BY <2>1, <3>1, <3>2, EdgesGoOn
        <3>4. e.src \notin later
            <4> SUFFICES ASSUME NEW j \in 1 .. Len(Group), j > g, e.src \in Group[j] PROVE FALSE
                OBVIOUS
            <4>1. i = j
                BY <3>2, OneGroup
            <4> QED
                BY <2>2, <3>3, <4>1
        <3>5. e.src # n
            <4> SUFFICES ASSUME e.src = n PROVE FALSE
                OBVIOUS
            <4>1. i = g
                BY <3>2, OneGroup
            <4> QED
                BY <2>2, <3>3, <4>1
        <3>6. e \in OutEdges(e.src)
            BY <3>1 DEF OutEdges
        <3>7. e.src \notin skip
            BY <2>3, <3>6
        <3>8. e \notin killed
            BY <3>5 DEF OutEdges
        <3>9. \A x \in S \ skip : e \notin OutEdges(x)
            BY <3>4 DEF OutEdges
        <3> QED
            BY <2>3, <3>4, <3>7, <3>8, <3>9
    <2>4. CASE \E e \in ForwardIn(k) : e \notin gone /\ e.src \notin skip
        BY <2>3, <2>4
    <2>5. CASE \A e \in InEdges(k) : e \notin gone
        <3>1. CASE ForwardIn(k) = {}
            <4>1. \A e \in InEdges(k) : e \in Edge /\ ~e.back
                BY <3>1 DEF EntriesHaveInputs, InEdges
            <4> QED
                BY <3>1, <4>1 DEF ForwardIn, GraphAssumption
        <3>2. CASE ForwardIn(k) # {}
            <4>1. PICK e \in ForwardIn(k) : TRUE
                BY <3>2
            <4>2. e \notin gone
                BY <2>5 DEF ForwardIn
            <4> QED
                BY <2>3, <4>1, <4>2
        <3> QED
            BY <3>1, <3>2
    <2> QED
        BY <2>4, <2>5 DEF SkipsSettled
<1>2. ASSUME NEW k \in Group[g], k \notin skip PROVE k \notin SkipsOf(gone \cup killed, skip)
    <2>1. k \notin later
        <3> SUFFICES ASSUME NEW j \in 1 .. Len(Group), j > g, k \in Group[j] PROVE FALSE
            OBVIOUS
        <3>1. j = g
            BY OneGroup
        <3> QED
            BY <3>1
    <2>2. k \notin S /\ S \in SUBSET Node /\ skip \subseteq S
        BY <1>2, <2>1
    <2> HIDE DEF S
    <2> QED
        BY <1>1, <2>2 DEF SkipsOf
<1> QED
    BY <1>2

AtGroup ==
    /\ pc = "begin" => group = 1 /\ \A n \in Node : task[n] = None
    /\ Early =>
        /\ todo \subseteq Group[group]
        /\ \A n \in Node : task[n] \in AtWork => n \in Group[group] /\ n \notin todo

\* The one holder of the mutex adds what its dead edges reach.
OneWriter ==
    /\ \A n \in Node : task[n] = "writing" =>
        /\ \A m \in Node : task[m] = "writing" => m = n
        /\ writing = IF Killed(n) = {} THEN {} ELSE SkipsOf(dead \cup Killed(n), skipped) \ skipped
    /\ Unlocked => writing = {}

Settled ==
    /\ SkipsSettled(skipped, dead)
    /\ \A x \in skipped : OutEdges(x) \subseteq dead

SkipInv ==
    /\ EntriesHaveInputs /\ SkipReadsAgree
    /\ AtGroup
    /\ Early => OneWriter /\ Settled

LEMMA InitSkips == EntriesHaveInputs /\ Init => SkipInv
<1> SUFFICES ASSUME EntriesHaveInputs, Init PROVE SkipInv
    OBVIOUS
<1>1. \A n \in Node : task[n] = None
    BY DEF Init
<1>2. AtGroup /\ OneWriter
    BY <1>1 DEF Init, AtGroup, OneWriter, AtWork, None
<1>3. SkipReadsAgree /\ Settled
    BY DEF Init, SkipReadsAgree, Settled, SkipsSettled
<1> QED
    BY <1>2, <1>3 DEF SkipInv

\* A step of a goroutine that is not about skips.
LEMMA WorkKeepsSkips ==
    ASSUME Typed, Typed', SkipInv, Early, Early', pc' = "begin" => pc = "begin" /\ task' = task,
           UNCHANGED <<group, writing, skipped, dead>>, todo' \subseteq todo,
           \A n \in Node : task'[n] \in AtWork =>
               task[n] \in AtWork \/ (n \in Group[group] /\ n \notin todo'),
           \A n \in Node : task'[n] = "writing" <=> task[n] = "writing",
           \A n \in Node : task[n] = "writing" => out'[n] = out[n]
    PROVE  SkipInv'
<1>1. EntriesHaveInputs' /\ SkipReadsAgree'
    BY DEF SkipInv, SkipReadsAgree, EntriesHaveInputs, ForwardIn, InEdges
<1>2. AtGroup'
    BY DEF SkipInv, AtGroup
<1>3. OneWriter'
    <2>1. Unlocked' => Unlocked
        BY DEF Unlocked, Is
    <2>2. ASSUME NEW n \in Node, task'[n] = "writing"
          PROVE  /\ \A m \in Node : task'[m] = "writing" => m = n
                 /\ writing = IF Killed(n)' = {} THEN {} ELSE SkipsOf(dead \cup Killed(n)', skipped) \ skipped
        <3>1. task[n] = "writing" /\ Killed(n)' = Killed(n)
            BY <2>2 DEF Killed
        <3>2. /\ \A m \in Node : task[m] = "writing" => m = n
              /\ writing = IF Killed(n) = {} THEN {} ELSE SkipsOf(dead \cup Killed(n), skipped) \ skipped
            BY <3>1 DEF SkipInv, OneWriter
        <3> QED
            BY <3>1, <3>2
    <2>3. Unlocked' => writing' = {}
        BY <2>1 DEF SkipInv, OneWriter
    <2> QED
        BY <2>2, <2>3 DEF OneWriter, SkipsOf, ClosedUnderSkips
<1>4. Settled'
    BY DEF SkipInv, Settled, SkipsSettled
<1> QED
    BY <1>1, <1>2, <1>3, <1>4 DEF SkipInv

\* Where no map is written any more.
LEMMA LateKeepsSkips ==
    ASSUME SkipInv, ~Early', UNCHANGED <<group, writing>>
    PROVE  SkipInv'
<1>1. pc' # "begin"
    BY DEF Early
<1> QED
    BY <1>1 DEF SkipInv, SkipReadsAgree, AtGroup, EntriesHaveInputs, ForwardIn, InEdges

LEMMA PropagateKeepsSkips ==
    ASSUME Typed, Typed', SkipInv, NEW n \in Node, Propagate(n)
    PROVE  SkipInv'
<1>1. /\ pc = "groups" /\ Early /\ pc' = pc /\ Unlocked /\ task[n] = "propagate"
      /\ task' = [task EXCEPT ![n] = "writing"]
      /\ writing' = IF Killed(n) = {} THEN {} ELSE SkipsOf(dead \cup Killed(n), skipped) \ skipped
      /\ UNCHANGED <<group, todo, out, skipped, dead>>
    BY DEF Propagate, Early, dataVars
<1>2. task'[n] = "writing" /\ \A m \in Node : m # n => task'[m] = task[m] /\ task'[m] # "writing"
    BY <1>1 DEF Typed, Unlocked, Is
<1>3. n \in Group[group]
    BY <1>1 DEF SkipInv, AtGroup, AtWork
<1>4. SkipReadsAgree'
    <2> SUFFICES ASSUME group <= Len(Group) PROVE writing' \cap Group[group] = {}
        BY <1>1 DEF SkipReadsAgree
    <2>1. group \in 1 .. Len(Group)
        BY DEF Typed, GraphAssumption
    <2>2. Killed(n) \subseteq OutEdges(n)
        BY DEF Killed, DeadPorts
    <2>3. SkipsSettled(skipped, dead) /\ \A x \in skipped : OutEdges(x) \subseteq dead
        BY <1>1 DEF SkipInv, Settled
    <2>4. EntriesHaveInputs /\ skipped \subseteq Node
        BY DEF SkipInv, Typed
    <2>5. (SkipsOf(dead \cup Killed(n), skipped) \ skipped) \cap Group[group] = {}
        BY <1>3, <2>1, <2>2, <2>3, <2>4, SkipsComeLater
    <2> QED
        BY <1>1, <2>5
<1>5. AtGroup'
    <2>1. \A m \in Node : task'[m] \in AtWork => task[m] \in AtWork
        BY <1>1, <1>2 DEF AtWork
    <2> QED
        BY <1>1, <2>1 DEF SkipInv, AtGroup, Early
<1>6. OneWriter'
    <2>1. ~Unlocked'
        BY <1>2 DEF Unlocked, Is
    <2>2. Killed(n)' = Killed(n)
        BY <1>1 DEF Killed
    <2>3. writing' = IF Killed(n)' = {} THEN {} ELSE SkipsOf(dead' \cup Killed(n)', skipped') \ skipped'
        BY <1>1, <2>2
    <2> QED
        BY <1>2, <2>1, <2>3 DEF OneWriter, SkipsOf, ClosedUnderSkips
<1>7. Settled'
    BY <1>1 DEF SkipInv, Settled, SkipsSettled
<1>8. EntriesHaveInputs'
    BY DEF SkipInv, EntriesHaveInputs, ForwardIn, InEdges
<1> QED
    BY <1>4, <1>5, <1>6, <1>7, <1>8 DEF SkipInv

LEMMA PropagatedKeepsSkips ==
    ASSUME Typed, Typed', SkipInv, NEW n \in Node, Propagated(n)
    PROVE  SkipInv'
<1>1. /\ pc = "groups" /\ Early /\ pc' = pc /\ task[n] = "writing"
      /\ task' = [task EXCEPT ![n] = "ended"]
      /\ skipped' = skipped \cup writing
      /\ dead' = dead \cup Killed(n) \cup UNION {OutEdges(m) : m \in writing}
      /\ writing' = {} /\ UNCHANGED <<group, todo>>
    BY DEF Propagated, Early
<1>2. /\ \A m \in Node : task[m] = "writing" => m = n
      /\ writing = IF Killed(n) = {} THEN {} ELSE SkipsOf(dead \cup Killed(n), skipped) \ skipped
      /\ SkipsSettled(skipped, dead) /\ \A x \in skipped : OutEdges(x) \subseteq dead
    BY <1>1 DEF SkipInv, OneWriter, Settled
<1>3. \A m \in Node : task'[m] # "writing" /\ (task'[m] \in AtWork => task[m] \in AtWork)
    BY <1>1, <1>2 DEF Typed, AtWork
<1>4. AtGroup'
    BY <1>1, <1>3 DEF SkipInv, AtGroup
<1>5. OneWriter'
    BY <1>1, <1>3 DEF OneWriter
<1>6. \A x \in skipped' : OutEdges(x) \subseteq dead'
    BY <1>1, <1>2
<1>7. SkipsSettled(skipped', dead')
    <2>1. CASE Killed(n) = {}
        BY <1>1, <1>2, <2>1
    <2>2. CASE Killed(n) # {}
        <3> DEFINE D == dead \cup Killed(n)
                   W == SkipsOf(D, skipped)
        <3>1. skipped \in SUBSET Node
            BY DEF Typed
        <3>2. skipped \subseteq W /\ ClosedUnderSkips(W, D, skipped)
            BY <3>1, SkipsClosed
        <3>3. writing = W \ skipped
            BY <1>2, <2>2
        <3>4. skipped' = W /\ dead' = D \cup UNION {OutEdges(m) : m \in W \ skipped}
            BY <1>1, <3>2, <3>3
        <3> HIDE DEF W
        <3> QED
            BY <3>2, <3>4 DEF ClosedUnderSkips, SkipsSettled
    <2> QED
        BY <2>1, <2>2
<1>8. SkipReadsAgree'
    BY <1>1 DEF SkipReadsAgree
<1>9. EntriesHaveInputs'
    BY DEF SkipInv, EntriesHaveInputs, ForwardIn, InEdges
<1>10. Settled'
    BY <1>6, <1>7 DEF Settled, SkipsSettled
<1> QED
    BY <1>4, <1>5, <1>8, <1>9, <1>10 DEF SkipInv

\* A group is entered with no node at work.
LEMMA EnterKeepsSkips ==
    ASSUME Typed, Typed', SkipInv, Early, Early', pc' # "begin", SkipReadsAgree',
           UNCHANGED <<task, writing, skipped, dead, out>>, todo' = Group[group'],
           \A n \in Node : task[n] \notin AtWork
    PROVE  SkipInv'
<1>1. AtGroup'
    BY DEF AtGroup
<1>2. Unlocked
    BY DEF Unlocked, Is, AtWork
<1>3. OneWriter'
    BY <1>2 DEF SkipInv, OneWriter, AtWork, Unlocked, Is
<1>4. Settled'
    BY DEF SkipInv, Settled, SkipsSettled
<1>5. EntriesHaveInputs'
    BY DEF SkipInv, EntriesHaveInputs, ForwardIn, InEdges
<1> QED
    BY <1>1, <1>3, <1>4, <1>5 DEF SkipInv

LEMMA GroupKeepsSkips ==
    ASSUME Typed, Typed', SkipInv, GroupStep
    PROVE  SkipInv'
<1>1. CASE Begin
    <2>1. /\ pc = "begin" /\ pc' = "groups" /\ todo' = Group[1]
          /\ UNCHANGED <<group, task, writing, skipped, dead, out>>
        BY <1>1 DEF Begin, loopVars
    <2>2. Early /\ Early' /\ group = 1 /\ \A n \in Node : task[n] \notin AtWork
        BY <2>1 DEF Early, SkipInv, AtGroup, AtWork, None
    <2>3. SkipReadsAgree'
        BY <2>1 DEF SkipInv, SkipReadsAgree
    <2> QED
        BY <2>1, <2>2, <2>3, EnterKeepsSkips
<1>2. ASSUME NEW n \in Node, Visit(n) PROVE SkipInv'
    <2>1. /\ Early /\ Early' /\ pc' # "begin" /\ n \in todo /\ todo' = todo \ {n}
          /\ UNCHANGED <<group, writing, skipped, dead, out>>
        BY <1>2 DEF Visit, Early
    <2>2. n \in Group[group] /\ task[n] \notin AtWork
        BY <2>1 DEF SkipInv, AtGroup
    <2>3. /\ task'[n] = task[n] \/ task'[n] = "started"
          /\ \A m \in Node : m # n => task'[m] = task[m]
        BY <1>2 DEF Visit, Typed
    <2>4. \A m \in Node : task'[m] \in AtWork => task[m] \in AtWork \/ (m \in Group[group] /\ m \notin todo')
        BY <2>1, <2>2, <2>3
    <2>5. \A m \in Node : task'[m] = "writing" <=> task[m] = "writing"
        BY <2>2, <2>3 DEF AtWork
    <2> QED
        BY <2>1, <2>4, <2>5, WorkKeepsSkips
<1>3. ASSUME NEW n \in Node, MapRace(n) PROVE SkipInv'
    BY <1>3, LateKeepsSkips DEF MapRace, Early
<1>4. CASE NextGroup
    <2>1. /\ pc = "groups" /\ Early /\ \A n \in Node : task[n] \notin AtWork
          /\ UNCHANGED <<task, writing, skipped, dead, out>>
        BY <1>4 DEF NextGroup, Early, AtWork, Is, None, dataVars
    <2>2. writing = {}
        BY <2>1 DEF SkipInv, OneWriter, Unlocked, Is, AtWork
    <2>3. SkipReadsAgree'
        BY <2>1, <2>2 DEF SkipReadsAgree
    <2>4. CASE group < Len(Group)
        <3>1. pc' = pc /\ todo' = Group[group']
            BY <1>4, <2>4 DEF NextGroup
        <3> QED
            BY <2>1, <2>3, <3>1, EnterKeepsSkips DEF Early
    <2>5. CASE ~(group < Len(Group))
        <3>1. ~Early'
            BY <1>4, <2>5 DEF NextGroup, Early
        <3> QED
            BY <2>3, <3>1 DEF SkipInv, AtGroup, EntriesHaveInputs, ForwardIn, InEdges, Early
    <2> QED
        BY <2>4, <2>5
<1> QED
    BY <1>1, <1>2, <1>3, <1>4 DEF GroupStep

LEMMA GoroutineKeepsSkips ==
    ASSUME Typed, Typed', SkipInv, NEW n \in Node, Goroutine(n)
    PROVE  SkipInv'
<1>1. ASSUME task[n] \in {"started", "running"}, pc = "groups",
             UNCHANGED <<pc, group, todo, writing, skipped, dead>>,
             \A m \in Node : m # n => task'[m] = task[m] /\ out'[m] = out[m],
             task'[n] # "writing"
      PROVE  SkipInv'
    <2>1. Early /\ Early' /\ pc' # "begin" /\ task[n] \in AtWork
        BY <1>1 DEF Early, AtWork
    <2>2. \A m \in Node : task'[m] \in AtWork => task[m] \in AtWork
        BY <1>1, <2>1
    <2>3. \A m \in Node : task'[m] = "writing" <=> task[m] = "writing"
        BY <1>1
    <2>4. \A m \in Node : task[m] = "writing" => out'[m] = out[m]
        BY <1>1
    <2> QED
        BY <1>1, <2>1, <2>2, <2>3, <2>4, WorkKeepsSkips
<1>2. CASE Resolve(n)
    <2>1. \E s \in {"running", "ended"} : task' = [task EXCEPT ![n] = s]
        BY <1>2 DEF Resolve
    <2>2. (\A m \in Node : m # n => task'[m] = task[m]) /\ task'[n] # "writing"
        BY <2>1 DEF Typed
    <2> QED
        BY <1>1, <1>2, <2>2 DEF Resolve
<1>3. CASE NodeFails(n)
    <2>1. (\A m \in Node : m # n => task'[m] = task[m]) /\ task'[n] # "writing"
        BY <1>3 DEF NodeFails, Typed
    <2> QED
        BY <1>1, <1>3, <2>1 DEF NodeFails
<1>4. CASE NodeSucceeds(n)
    <2>1. (\A m \in Node : m # n => task'[m] = task[m]) /\ task'[n] # "writing"
        BY <1>4 DEF NodeSucceeds, Typed
    <2>2. \A m \in Node : m # n => out'[m] = out[m]
        BY <1>4 DEF NodeSucceeds, Store, Typed
    <2> QED
        BY <1>1, <1>4, <2>1, <2>2 DEF NodeSucceeds
<1> QED
    BY <1>2, <1>3, <1>4, PropagateKeepsSkips, PropagatedKeepsSkips DEF Goroutine

LEMMA SkipsInductive == Typed /\ SkipInv /\ [Next]_vars => SkipInv'
<1> SUFFICES ASSUME Typed, SkipInv, [Next]_vars PROVE SkipInv'
    OBVIOUS
<1>1. Typed'
    BY TypesKept
<1>2. CASE GroupStep
    BY <1>1, <1>2, GroupKeepsSkips
<1>3. CASE \E n \in Node : Goroutine(n)
    BY <1>1, <1>3, GoroutineKeepsSkips
<1>4. CASE ItemStep
    <2>1. pc = "groups" /\ UNCHANGED <<pc, group, todo, task, writing, dataVars>>
        BY <1>4 DEF ItemStep, Spawn, StartItem, EndItem, ItemGoes, Running
    <2> QED
        BY <1>1, <2>1, WorkKeepsSkips DEF Early, dataVars
<1>5. CASE LoopStep
    <2>1. ~Early' /\ UNCHANGED <<group, writing>>
        BY <1>5 DEF LoopStep, Iterate, EndIteration, LeaveLoop, EndDownstream, RunAgain,
                    RunAgainFails, ConditionFails, Complete, Early, flowVars
    <2> QED
        BY <2>1, LateKeepsSkips
<1>6. CASE Over \/ UNCHANGED vars
    <2>1. UNCHANGED <<pc, group, todo, task, writing, out, skipped, dead>>
        BY <1>6 DEF Over, vars, flowVars, dataVars
    <2>2. CASE Early
        BY <1>1, <2>1, <2>2, WorkKeepsSkips DEF Early
    <2>3. CASE ~Early
        BY <2>1, <2>3, LateKeepsSkips DEF Early
    <2> QED
        BY <2>2, <2>3
<1> QED
    BY <1>2, <1>3, <1>4, <1>5, <1>6 DEF Next

\* The loop over a group reads skipped without the mutex; in every graph whose loops can
\* be entered by a forward edge, no write that may be under way changes what it reads.
THEOREM ReadsAgree == EntriesHaveInputs /\ Spec => []SkipReadsAgree
<1>1. EntriesHaveInputs /\ Init => Typed /\ SkipInv
    BY InitTyped, InitSkips
<1>2. Typed /\ SkipInv /\ [Next]_vars => (Typed /\ SkipInv)'
    BY TypesKept, SkipsInductive
<1>3. Typed /\ SkipInv => SkipReadsAgree
    BY DEF SkipInv
<1> QED
    BY <1>1, <1>2, <1>3, PTL DEF Spec

-----------------------------------------------------------------------------
(* What an execution promises.                                             *)

\* "input nodes have no input ports to wire" (validate.go), and an edge needs a port at
\* either end.
InputsAreSources == \A n \in Inputs : InEdges(n) = {}

\* It is the least such set: no node is in it that was not skipped before and has a
\* forward edge left alive.
LEMMA SkipsLeast ==
    ASSUME NEW skip \in SUBSET Node, NEW gone,
           \A x \in skip : OutEdges(x) \subseteq gone /\ ForwardIn(x) \subseteq gone
    PROVE  \A n \in SkipsOf(gone, skip) :
                ForwardIn(n) \subseteq gone \cup UNION {OutEdges(x) : x \in SkipsOf(gone, skip) \ skip}
<1> DEFINE W == SkipsOf(gone, skip)
           deadW == gone \cup UNION {OutEdges(x) : x \in W \ skip}
           T == {n \in W : ForwardIn(n) \subseteq deadW}
           deadT == gone \cup UNION {OutEdges(x) : x \in T \ skip}
<1>1. /\ skip \subseteq W /\ W \subseteq Node
      /\ \A k \in Node \ W : \/ \A e \in InEdges(k) : e \notin deadW
                             \/ \E e \in ForwardIn(k) : e \notin deadW /\ e.src \notin W
    BY SkipsClosed DEF ClosedUnderSkips
<1>2. skip \subseteq T /\ T \subseteq W /\ deadT \subseteq deadW
    BY <1>1
<1>3. ClosedUnderSkips(T, gone, skip)
    <2> SUFFICES ASSUME NEW k \in Node \ T
                 PROVE  \/ \A e \in InEdges(k) : e \notin deadT
                        \/ \E e \in ForwardIn(k) : e \notin deadT /\ e.src \notin T
        BY DEF ClosedUnderSkips
    <2>1. CASE k \notin W
        BY <1>1, <1>2, <2>1
    <2>2. CASE k \in W
        <3>1. PICK e \in ForwardIn(k) : e \notin deadW
            BY <2>2
        <3>2. e \in OutEdges(e.src)
            BY DEF ForwardIn, InEdges, OutEdges
        <3>3. e.src \notin W
            BY <3>1, <3>2
        <3> QED
            BY <1>2, <3>1, <3>3
    <2> QED
        BY <2>1, <2>2
<1>4. T \in SUBSET Node
    BY <1>1, <1>2
<1>5. W \subseteq T
    <2> HIDE DEF T
    <2> QED
        BY <1>2, <1>3, <1>4 DEF SkipsOf
<1> QED
    BY <1>5

Past(n) == n \in Inputs \/ n \in skipped \/ task[n] = "ended"

\* A goroutine belongs to a node that is neither an input nor skipped, and stays that way.
Busy ==
    \A n \in Node :
        /\ task[n] \in AtWork => n \notin Inputs \cup skipped
        /\ task[n] = "propagate" => Kind[n] = "conditional"

\* What the loop has not come to, in this group and in later ones, has no goroutine;
\* what it has come to is done with or at work, and the groups before are done with.
InTurn ==
    /\ group \in 1 .. Len(Group) \/ Node = {}
    /\ \A n \in Node : n \in todo => task[n] = None
    /\ \A n \in Node : \A i \in 1 .. Len(Group) : n \in Group[i] =>
        /\ i > group => task[n] = None
        /\ i < group => Past(n)
        /\ i = group /\ pc # "begin" => n \in todo \/ Past(n) \/ task[n] \in AtWork

\* An edge dies after the node it leaves was done with, and a node is skipped when all
\* its forward edges are dead.
DeadInTurn ==
    /\ \A e \in dead : e.src \in Node /\ (e.src \in skipped \/ task[e.src] = "ended")
    /\ \A n \in skipped : ForwardIn(n) \subseteq dead

Course ==
    /\ Early => Busy /\ InTurn /\ DeadInTurn
    /\ ~Early /\ pc # "died" => group > Len(Group)
    /\ pc = "begin" => skipped = {}

LenGroup == Len(Group) \in Nat

LEMMA GroupLength == LenGroup
BY DEF GraphAssumption, LenGroup

LEMMA InitCourse == Init => Course
<1> SUFFICES ASSUME Init PROVE Course
    OBVIOUS
<1>1. group = 1 /\ todo = {} /\ pc = "begin" /\ skipped = {} /\ dead = {} /\ \A n \in Node : task[n] = None
    BY DEF Init
<1>2. Early /\ Busy /\ DeadInTurn
    BY <1>1 DEF Early, Busy, DeadInTurn, AtWork, None
<1>3. group \in 1 .. Len(Group) \/ Node = {}
    BY <1>1, GroupOf, GroupLength DEF LenGroup
<1>4. \A i \in 1 .. Len(Group) : i >= 1
    BY GroupLength DEF LenGroup
<1>5. InTurn
    BY <1>1, <1>3, <1>4 DEF InTurn
<1> QED
    BY <1>1, <1>2, <1>5 DEF Course

\* A goroutine moves on, and nothing else happens.
LEMMA WorkKeepsCourse ==
    ASSUME Typed, SkipInv, Course, NEW n \in Node, NEW s \in TaskState, pc = "groups", pc' = pc,
           task[n] \in AtWork, s \in AtWork \/ s = "ended", s = "propagate" => Kind[n] = "conditional",
           task' = [task EXCEPT ![n] = s], UNCHANGED <<group, todo, skipped, dead>>
    PROVE  Course'
<1>1. Early /\ Early' /\ pc' # "begin" /\ Busy /\ InTurn /\ DeadInTurn /\ AtGroup
    BY DEF Early, Course, SkipInv
<1>2. \A m \in Node : task'[m] = IF m = n THEN s ELSE task[m]
    BY DEF Typed
<1>3. n \in Group[group] /\ n \notin todo /\ n \notin Inputs \cup skipped
    BY <1>1 DEF AtGroup, Busy
<1>4. Busy'
    BY <1>1, <1>2, <1>3 DEF Busy
<1>5. DeadInTurn'
    <2>1. ASSUME NEW e \in dead, task[e.src] = "ended" PROVE task'[e.src] = "ended"
        <3>1. e.src \in Node /\ e.src # n
            BY <1>1, <2>1 DEF DeadInTurn, AtWork
        <3> QED
            BY <1>2, <2>1, <3>1
    <2> QED
        BY <1>1, <2>1 DEF DeadInTurn
<1>6. InTurn'
    <2>1. \A i \in 1 .. Len(Group) : i # group => n \notin Group[i]
        <3> SUFFICES ASSUME NEW i \in 1 .. Len(Group), i # group, n \in Group[i] PROVE FALSE
            OBVIOUS
        <3>1. group \in 1 .. Len(Group)
            BY <1>1 DEF InTurn
        <3> QED
            BY <1>3, <3>1, OneGroup
    <2>4. \A m \in Node : m # n => Past(m)' = Past(m)
        BY <1>2 DEF Past
    <2>5. Past(n)' \/ task'[n] \in AtWork
        BY <1>2 DEF Past
    <2>6. \A m \in Node : m \in todo => task'[m] = None
        BY <1>1, <1>2, <1>3 DEF InTurn
    <2>7. ASSUME NEW m \in Node, NEW i \in 1 .. Len(Group), m \in Group[i]
          PROVE  /\ i > group => task'[m] = None
                 /\ i < group => Past(m)'
                 /\ i = group => m \in todo \/ Past(m)' \/ task'[m] \in AtWork
        BY <1>1, <1>2, <2>1, <2>4, <2>5, <2>7 DEF InTurn
    <2> QED
        BY <1>1, <2>6, <2>7 DEF InTurn
<1> QED
    BY <1>1, <1>4, <1>5, <1>6 DEF Course

LEMMA GoroutineCourse ==
    ASSUME Typed, SkipInv, Course, NEW n \in Node, Goroutine(n), ~Propagated(n)
    PROVE  Course'
<1> USE DEF AtWork, TaskState
<1>1. CASE Resolve(n)
    BY <1>1, WorkKeepsCourse DEF Resolve
<1>2. CASE NodeFails(n)
    BY <1>2, WorkKeepsCourse DEF NodeFails
<1>3. CASE NodeSucceeds(n)
    BY <1>3, WorkKeepsCourse DEF NodeSucceeds
<1>4. CASE Propagate(n)
    BY <1>4, WorkKeepsCourse DEF Propagate, dataVars
<1> QED
    BY <1>1, <1>2, <1>3, <1>4 DEF Goroutine

\* What a conditional skips has every forward edge dead, and is of a later group.
LEMMA SkipsInTurn ==
    ASSUME Typed, SkipInv, Course, NEW n \in Node, Propagated(n)
    PROVE  /\ Course'
           /\ \A m \in writing : ForwardIn(m) \subseteq dead'
           /\ \A e \in dead' : e.src \in Node /\ (e.src = n \/ e.src \in skipped' \/ task[e.src] = "ended")
<1>1. /\ pc = "groups" /\ pc' = pc /\ Early /\ Early' /\ pc' # "begin" /\ task[n] = "writing"
      /\ task' = [task EXCEPT ![n] = "ended"]
      /\ skipped' = skipped \cup writing
      /\ dead' = dead \cup Killed(n) \cup UNION {OutEdges(m) : m \in writing}
      /\ UNCHANGED <<group, todo>>
    BY DEF Propagated, Early
<1>2. /\ writing = IF Killed(n) = {} THEN {} ELSE SkipsOf(dead \cup Killed(n), skipped) \ skipped
      /\ \A x \in skipped : OutEdges(x) \subseteq dead
      /\ AtGroup /\ SkipReadsAgree /\ Busy /\ InTurn /\ DeadInTurn
    BY <1>1 DEF SkipInv, OneWriter, Settled, Course
<1>3. n \in Group[group] /\ n \notin todo
    BY <1>1, <1>2 DEF AtGroup, AtWork
<1>4. group \in 1 .. Len(Group) /\ writing \cap Group[group] = {}
    <2>1. group \in 1 .. Len(Group)
        BY <1>2 DEF InTurn
    <2>2. group <= Len(Group)
        BY <2>1, GroupLength DEF LenGroup
    <2> QED
        BY <1>2, <2>1, <2>2 DEF SkipReadsAgree
<1>5. \A m \in Node : task'[m] = IF m = n THEN "ended" ELSE task[m]
    BY <1>1 DEF Typed
<1>6. \A m \in writing : ForwardIn(m) \subseteq dead'
    <2>1. CASE Killed(n) = {}
        BY <1>2, <2>1
    <2>2. CASE Killed(n) # {}
        <3> DEFINE D == dead \cup Killed(n)
                   W == SkipsOf(D, skipped)
        <3>1. \A x \in skipped : OutEdges(x) \subseteq D /\ ForwardIn(x) \subseteq D
            BY <1>2 DEF DeadInTurn
        <3>2. skipped \in SUBSET Node
            BY DEF Typed
        <3> HIDE DEF D
        <3>3. \A m \in W : ForwardIn(m) \subseteq D \cup UNION {OutEdges(x) : x \in W \ skipped}
            BY <3>1, <3>2, SkipsLeast
        <3>4. writing = W \ skipped
            BY <1>2, <2>2 DEF D
        <3> HIDE DEF W
        <3>5. dead' = D \cup UNION {OutEdges(x) : x \in W \ skipped}
            BY <1>1, <3>4 DEF D
        <3> QED
            BY <3>3, <3>4, <3>5
    <2> QED
        BY <2>1, <2>2
<1>7. \A e \in dead' : e.src \in Node /\ (e.src = n \/ e.src \in skipped' \/ task[e.src] = "ended")
    <2>1. writing \subseteq Node
        BY DEF Typed
    <2> QED
        BY <1>1, <1>2, <2>1 DEF DeadInTurn, Killed, DeadPorts, OutEdges
<1>8. DeadInTurn'
    <2>1. \A e \in dead' : e.src \in Node /\ (e.src \in skipped' \/ task'[e.src] = "ended")
        BY <1>5, <1>7
    <2>2. \A m \in skipped' : ForwardIn(m) \subseteq dead'
        BY <1>1, <1>2, <1>6 DEF DeadInTurn
    <2> QED
        BY <2>1, <2>2 DEF DeadInTurn
<1>9. Busy'
    <2>1. ASSUME NEW m \in Node, task'[m] \in AtWork PROVE m \notin Inputs \cup skipped'
        <3>1. m # n /\ task[m] \in AtWork
            BY <1>5, <2>1 DEF AtWork
        <3>2. m \in Group[group] /\ m \notin Inputs \cup skipped
            BY <1>1, <1>2, <3>1 DEF AtGroup, Busy
        <3> QED
            BY <1>1, <1>4, <3>2
    <2> QED
        BY <1>2, <1>5, <2>1 DEF Busy
<1>10. InTurn'
    <2>1. \A i \in 1 .. Len(Group) : i # group => n \notin Group[i]
        <3> SUFFICES ASSUME NEW i \in 1 .. Len(Group), i # group, n \in Group[i] PROVE FALSE
            OBVIOUS
        <3> QED
            BY <1>3, <1>4, OneGroup
    <2>2. \A m \in Node : Past(m) => Past(m)'
        BY <1>1, <1>5 DEF Past
    <2>3. Past(n)'
        BY <1>5 DEF Past
    <2>4. \A m \in Node : m \in todo => task'[m] = None
        BY <1>2, <1>3, <1>5 DEF InTurn
    <2>5. ASSUME NEW m \in Node, NEW i \in 1 .. Len(Group), m \in Group[i]
          PROVE  /\ i > group => task'[m] = None
                 /\ i < group => Past(m)'
                 /\ i = group => m \in todo \/ Past(m)' \/ task'[m] \in AtWork
        BY <1>1, <1>2, <1>5, <2>1, <2>2, <2>3, <2>5 DEF InTurn
    <2> QED
        BY <1>1, <1>4, <2>4, <2>5 DEF InTurn
<1> QED
    BY <1>1, <1>6, <1>7, <1>8, <1>9, <1>10 DEF Course

\* The loop comes to a node: an input, a skipped one, or one that gets a goroutine.
LEMMA VisitCourse ==
    ASSUME Typed, SkipInv, Course, NEW n \in Node, Visit(n)
    PROVE  /\ Course' /\ UNCHANGED <<pc, group, skipped>>
           /\ group \in 1 .. Len(Group) /\ n \in Group[group] /\ task[n] = None
           /\ \/ task' = task
              \/ n \notin Inputs \cup skipped /\ task' = [task EXCEPT ![n] = "started"]
<1>1. /\ pc = "groups" /\ pc' = pc /\ Early /\ Early' /\ pc' # "begin"
      /\ n \in todo /\ todo' = todo \ {n} /\ UNCHANGED <<group, skipped, dead>>
    BY DEF Visit, Early
<1>2. AtGroup /\ SkipReadsAgree /\ Busy /\ InTurn /\ DeadInTurn
    BY <1>1 DEF SkipInv, Course
<1>3. n \in Group[group] /\ task[n] = None
    BY <1>1, <1>2 DEF AtGroup, InTurn
<1>4. group \in 1 .. Len(Group) /\ n \notin writing
    <2>1. group \in 1 .. Len(Group)
        BY <1>2 DEF InTurn
    <2>2. group <= Len(Group)
        BY <2>1, GroupLength DEF LenGroup
    <2> QED
        BY <1>2, <1>3, <2>1, <2>2 DEF SkipReadsAgree
<1>5. \/ task' = task /\ Past(n)
      \/ n \notin Inputs \cup skipped /\ task' = [task EXCEPT ![n] = "started"]
    BY <1>4 DEF Visit, Past, Inputs
<1>6. /\ task'[n] \in {None, "started"}
      /\ \A m \in Node : m # n => task'[m] = task[m]
    BY <1>3, <1>5 DEF Typed
<1>7. Busy'
    BY <1>1, <1>2, <1>3, <1>5, <1>6 DEF Busy, AtWork, None
<1>8. DeadInTurn'
    <2>1. ASSUME NEW e \in dead, task[e.src] = "ended" PROVE task'[e.src] = "ended"
        <3>1. e.src \in Node /\ e.src # n
            BY <1>2, <1>3, <2>1 DEF DeadInTurn, None
        <3> QED
            BY <1>6, <2>1, <3>1
    <2> QED
        BY <1>1, <1>2, <2>1 DEF DeadInTurn
<1>9. InTurn'
    <2>1. \A i \in 1 .. Len(Group) : i # group => n \notin Group[i]
        <3> SUFFICES ASSUME NEW i \in 1 .. Len(Group), i # group, n \in Group[i] PROVE FALSE
            OBVIOUS
        <3> QED
            BY <1>3, <1>4, OneGroup
    <2>2. \A m \in Node : m # n => (Past(m)' <=> Past(m))
        BY <1>1, <1>6 DEF Past
    <2>3. Past(n)' \/ task'[n] \in AtWork
        BY <1>1, <1>5 DEF Past, Typed, AtWork
    <2>4. \A m \in Node : m \in todo' => task'[m] = None
        BY <1>1, <1>2, <1>6 DEF InTurn
    <2>5. ASSUME NEW m \in Node, NEW i \in 1 .. Len(Group), m \in Group[i]
          PROVE  /\ i > group => task'[m] = None
                 /\ i < group => Past(m)'
                 /\ i = group => m \in todo' \/ Past(m)' \/ task'[m] \in AtWork
        <3>1. CASE m = n
            BY <2>1, <2>3, <2>5, <3>1, GroupLength DEF LenGroup
        <3>2. CASE m # n
            BY <1>1, <1>2, <1>6, <2>2, <2>5, <3>2 DEF InTurn
        <3> QED
            BY <3>1, <3>2
    <2> QED
        BY <1>1, <1>4, <2>4, <2>5 DEF InTurn
<1> QED
    BY <1>1, <1>3, <1>4, <1>5, <1>7, <1>8, <1>9 DEF Course

\* wg.Wait: all of a group is done with when the next one is entered.
LEMMA NextGroupCourse ==
    ASSUME Typed, SkipInv, Course, NextGroup
    PROVE  /\ Course' /\ UNCHANGED <<task, skipped>> /\ pc = "groups" /\ pc' # "begin"
           /\ group \in 1 .. Len(Group) \/ Node = {}
           /\ group' > Len(Group) => \A n \in Node : Past(n)
<1>1. /\ pc = "groups" /\ Early /\ todo = {} /\ \A n \in Node : task[n] \notin AtWork
      /\ UNCHANGED <<task, skipped, dead>> /\ group' = group + 1
    BY DEF NextGroup, Early, AtWork, Is, None, dataVars
<1>2. Busy /\ InTurn /\ DeadInTurn
    BY <1>1 DEF Course
<1>3. group \in Nat \ {0} /\ Len(Group) \in Nat
    BY GroupLength DEF Typed, LenGroup
<1>4. Busy' /\ DeadInTurn' /\ \A n \in Node : Past(n)' <=> Past(n)
    BY <1>1, <1>2 DEF Busy, DeadInTurn, Past
<1>5. \A n \in Node : \A i \in 1 .. Len(Group) : n \in Group[i] =>
        /\ i > group => task[n] = None
        /\ i <= group => Past(n)
    BY <1>1, <1>2, <1>3 DEF InTurn
<1>6. group \in 1 .. Len(Group) \/ Node = {}
    BY <1>2 DEF InTurn
<1>7. CASE group < Len(Group)
    <2>1. pc' = pc /\ todo' = Group[group + 1] /\ Early' /\ group + 1 \in 1 .. Len(Group)
        BY <1>1, <1>3, <1>7 DEF NextGroup, Early
    <2>2. ASSUME NEW n \in Node, NEW i \in 1 .. Len(Group), n \in Group[i]
          PROVE  /\ i > group + 1 => task[n] = None
                 /\ i < group + 1 => Past(n)
                 /\ i = group + 1 => n \in Group[group + 1] /\ task[n] = None
        BY <1>3, <1>5, <2>2
    <2>3. \A n \in Node : n \in Group[group + 1] => task[n] = None
        BY <2>1, <2>2
    <2>4. InTurn'
        BY <1>1, <1>4, <2>1, <2>2, <2>3 DEF InTurn
    <2> QED
        BY <1>1, <1>3, <1>4, <1>6, <1>7, <2>1, <2>4 DEF Course
<1>8. CASE ~(group < Len(Group))
    <2>1. pc' = "loops" /\ ~Early' /\ group' > Len(Group)
        BY <1>1, <1>3, <1>8 DEF NextGroup, Early
    <2>2. \A n \in Node : Past(n)
        <3> SUFFICES ASSUME NEW n \in Node PROVE Past(n)
            OBVIOUS
        <3>1. PICK i \in 1 .. Len(Group) : n \in Group[i]
            BY GroupOf
        <3>2. i <= group
            BY <1>3, <1>8
        <3> QED
            BY <1>5, <3>1, <3>2
    <2> QED
        BY <1>1, <1>6, <2>1, <2>2 DEF Course
<1> QED
    BY <1>3, <1>7, <1>8

LEMMA BeginCourse ==
    ASSUME Typed, SkipInv, Course, Begin
    PROVE  Course'
<1>1. /\ pc = "begin" /\ pc' = "groups" /\ todo' = Group[1] /\ Early /\ Early'
      /\ UNCHANGED <<group, task, skipped, dead>>
    BY DEF Begin, Early
<1>2. Busy /\ InTurn /\ DeadInTurn /\ group = 1 /\ \A n \in Node : task[n] = None
    BY <1>1 DEF Course, SkipInv, AtGroup
<1>3. Busy' /\ DeadInTurn'
    BY <1>1, <1>2 DEF Busy, DeadInTurn
<1>4. \A i \in 1 .. Len(Group) : i >= 1
    BY GroupLength DEF LenGroup
<1>5. InTurn'
    BY <1>1, <1>2, <1>4 DEF InTurn, Past
<1> QED
    BY <1>1, <1>3, <1>5 DEF Course

LEMMA CourseKept == Typed /\ SkipInv /\ Course /\ [Next]_vars => Course'
<1> SUFFICES ASSUME Typed, SkipInv, Course, [Next]_vars PROVE Course'
    OBVIOUS
<1>1. ASSUME UNCHANGED <<pc, group, todo, task, skipped, dead>> PROVE Course'
    <2>1. Busy => Busy'
        BY <1>1 DEF Busy
    <2>2. InTurn => InTurn'
        BY <1>1 DEF InTurn, Past
    <2>3. DeadInTurn => DeadInTurn'
        BY <1>1 DEF DeadInTurn
    <2> QED
        BY <1>1, <2>1, <2>2, <2>3 DEF Course, Early
<1>2. CASE GroupStep
    <2>1. ASSUME NEW n \in Node, MapRace(n) PROVE Course'
        BY <2>1 DEF MapRace, Course, Early
    <2> QED
        BY <1>2, <2>1, BeginCourse, VisitCourse, NextGroupCourse DEF GroupStep
<1>3. CASE \E n \in Node : Goroutine(n)
    BY <1>3, GoroutineCourse, SkipsInTurn
<1>4. CASE ItemStep
    <2>1. UNCHANGED <<pc, group, todo, task, dataVars>>
        BY <1>4 DEF ItemStep, Spawn, StartItem, EndItem, ItemGoes
    <2> QED
        BY <1>1, <2>1 DEF dataVars
<1>5. CASE LoopStep
    <2>1. ~Early /\ pc # "died" /\ ~Early' /\ group' = group
        BY <1>5 DEF LoopStep, Iterate, EndIteration, LeaveLoop, EndDownstream, RunAgain,
                    RunAgainFails, ConditionFails, Complete, Early, flowVars
    <2> QED
        BY <2>1 DEF Course, Early
<1>6. CASE Over \/ UNCHANGED vars
    BY <1>1, <1>6 DEF Over, vars, flowVars, dataVars
<1> QED
    BY <1>2, <1>3, <1>4, <1>5, <1>6 DEF Next

\* What the refinement shows of pc.
Outcome == CASE pc = "completed" -> "completed" [] pc = "failed" -> "failed" [] OTHER -> "open"

LEMMA SameFlow ==
    ASSUME \A n \in Node : Phase(n)' = Phase(n), Outcome' = Outcome
    PROVE  UNCHANGED Abstract!vars
<1>1. [n \in Node |-> Phase(n)]' = [n \in Node |-> Phase(n)]
    OBVIOUS
<1> QED
    BY <1>1 DEF Abstract!vars, Outcome

\* A step that moves no node.
LEMMA PhasesStay ==
    ASSUME UNCHANGED <<group, task, skipped>>, (pc' = "begin") <=> (pc = "begin")
    PROVE  \A n \in Node : Phase(n)' = Phase(n)
BY DEF Phase

LEMMA PhaseOver ==
    /\ group > Len(Group) => \A n \in Node : Phase(n) = "settled"
    /\ group' > Len(Group) => \A n \in Node : Phase(n)' = "settled"
BY DEF Phase

\* A node that is done with, and one whose goroutine is at work.
LEMMA PhaseIs ==
    ASSUME Typed, SkipInv, Course, Early, pc # "begin", NEW n \in Node
    PROVE  /\ Past(n) => Phase(n) = "settled"
           /\ task[n] \in {"started", "running", "propagate"} /\ ~(group > Len(Group))
                => Phase(n) = "running"
           /\ task[n] = "writing" => Phase(n) = "settled"
           /\ task[n] = None /\ ~Past(n) /\ ~(group > Len(Group)) => Phase(n) = "idle"
<1>1. Busy
    BY DEF Course
<1> QED
    BY <1>1 DEF Phase, Past, Busy, AtWork, None

LEMMA InitFlow == Init => Abstract!Init
<1> SUFFICES ASSUME Init PROVE Abstract!Init
    OBVIOUS
<1>1. ASSUME NEW n \in Node PROVE Phase(n) = "idle"
    <2>1. group = 1 /\ pc = "begin" /\ skipped = {} /\ task[n] = None
        BY DEF Init
    <2>2. ~(group > Len(Group))
        BY <2>1, GroupOf, GroupLength DEF LenGroup
    <2> QED
        BY <2>1, <2>2 DEF Phase, None
<1>2. Outcome = "open"
    BY DEF Init, Outcome
<1> QED
    BY <1>1, <1>2 DEF Abstract!Init, Outcome

\* The inputs of the execution.
LEMMA BeginFlow ==
    ASSUME InputsAreSources, Typed, SkipInv, Course, Begin
    PROVE  Abstract!Provide(Inputs)
<1>1. /\ pc = "begin" /\ pc' = "groups" /\ UNCHANGED <<group, task, skipped>>
      /\ skipped = {} /\ group = 1 /\ \A n \in Node : task[n] = None
    BY DEF Begin, Course, SkipInv, AtGroup
<1>2. ASSUME NEW n \in Node
      PROVE  Phase(n) = "idle" /\ Phase(n)' = IF n \in Inputs THEN "settled" ELSE "idle"
    <2>1. ~(group > Len(Group))
        BY <1>1, GroupOf, GroupLength DEF LenGroup
    <2> QED
        BY <1>1, <2>1 DEF Phase, None
<1>3. Inputs \subseteq Node /\ \A n \in Inputs : Preds(n) = {}
    BY DEF InputsAreSources, Inputs, Preds, ForwardIn
<1>4. Outcome = "open" /\ Outcome' = "open"
    BY <1>1 DEF Outcome
<1>5. Abstract!Bypassed(Inputs, Inputs)
    BY <1>2, <1>3 DEF Abstract!Bypassed, Abstract!In
<1> QED
    BY <1>2, <1>4, <1>5 DEF Abstract!Provide, Outcome

\* A node gets its goroutine after all it depends on is done with.
LEMMA VisitFlow ==
    ASSUME Typed, SkipInv, Course, NEW n \in Node, Visit(n)
    PROVE  Abstract!Run(n) \/ UNCHANGED Abstract!vars
<1>1. /\ pc = "groups" /\ pc' = pc /\ Early /\ UNCHANGED <<group, skipped>>
      /\ group \in 1 .. Len(Group) /\ n \in Group[group] /\ task[n] = None
      /\ \/ task' = task
         \/ n \notin Inputs \cup skipped /\ task' = [task EXCEPT ![n] = "started"]
    BY VisitCourse DEF Visit, Early
<1>2. ~(group > Len(Group))
    BY <1>1, GroupLength DEF LenGroup
<1>3. Outcome = "open" /\ Outcome' = "open"
    BY <1>1 DEF Outcome
<1>4. CASE task' = task
    BY <1>1, <1>3, <1>4, PhasesStay, SameFlow
<1>5. CASE n \notin Inputs \cup skipped /\ task' = [task EXCEPT ![n] = "started"]
    <2>1. \A k \in Node : task'[k] = IF k = n THEN "started" ELSE task[k]
        BY <1>5 DEF Typed
    <2>2. Phase(n) = "idle"
        BY <1>1, <1>2, <1>5 DEF Phase, None
    <2>3. \A k \in Node : Phase(k)' = IF k = n THEN "running" ELSE Phase(k)
        BY <1>1, <1>2, <1>5, <2>1 DEF Phase, None
    <2>4. \A k \in Preds(n) : k \in Node /\ Phase(k) = "settled"
        <3> SUFFICES ASSUME NEW e \in Edge, ~ e.back, e.dst = n
                     PROVE  e.src \in Node /\ Phase(e.src) = "settled"
            BY DEF Preds, ForwardIn, InEdges
        <3>1. e.src \in Node
            BY DEF GraphAssumption
        <3>2. PICK i \in 1 .. Len(Group) : e.src \in Group[i]
            BY <3>1, GroupOf
        <3>3. i < group
            BY <1>1, <3>2, EdgesGoOn
        <3>4. Past(e.src)
            BY <1>1, <3>1, <3>2, <3>3 DEF Course, InTurn
        <3> QED
            BY <1>1, <3>1, <3>4, PhaseIs
    <2>5. [k \in Node |-> Phase(k)]' = [[k \in Node |-> Phase(k)] EXCEPT ![n] = "running"]
        BY <2>3
    <2>6. Preds(n) \subseteq Abstract!In("settled")
        BY <2>4 DEF Abstract!In
    <2> QED
        BY <1>3, <2>2, <2>5, <2>6 DEF Abstract!Run, Outcome
<1> QED
    BY <1>1, <1>4, <1>5

\* A goroutine settles its node.
LEMMA SettleFlow ==
    ASSUME Typed, SkipInv, Course, NEW n \in Node, NEW s, pc = "groups", pc' = pc,
           task[n] \in {"started", "running", "propagate"}, task' = [task EXCEPT ![n] = s],
           UNCHANGED <<group, skipped>>, s \in {"writing", "ended"}
    PROVE  Abstract!Settle(n, {})
<1>1. Early /\ n \in Group[group] /\ Busy /\ InTurn
    BY DEF Early, SkipInv, AtGroup, AtWork, Course
<1>2. ~(group > Len(Group))
    BY <1>1, GroupLength DEF InTurn, LenGroup
<1>3. Phase(n) = "running"
    BY <1>1, <1>2, PhaseIs
<1>4. \A k \in Node : task'[k] = IF k = n THEN s ELSE task[k]
    BY DEF Typed
<1>5. \A k \in Node : Phase(k)' = IF k = n THEN "settled" ELSE Phase(k)
    BY <1>2, <1>4 DEF Phase
<1>6. Outcome = "open" /\ Outcome' = "open"
    BY DEF Outcome
<1>7. Abstract!Bypassed({}, {n})
    BY DEF Abstract!Bypassed
<1>8. [k \in Node |-> Phase(k)]' = [k \in Node |-> IF k \in {} \cup {n} THEN "settled" ELSE Phase(k)]
    BY <1>5
<1>9. {} \cup {n} = {n}
    OBVIOUS
<1> QED
    BY <1>3, <1>6, <1>7, <1>8, <1>9 DEF Abstract!Settle, Outcome

\* A goroutine goes on with its node.
LEMMA GoesOnFlow ==
    ASSUME Typed, SkipInv, Course, NEW n \in Node, NEW s, pc = "groups", pc' = pc,
           task[n] \in {"started", "running"}, task' = [task EXCEPT ![n] = s],
           UNCHANGED <<group, skipped>>,
           s = "running" \/ (s = "propagate" /\ Kind[n] = "conditional")
    PROVE  UNCHANGED Abstract!vars
<1>1. \A k \in Node : task'[k] = IF k = n THEN s ELSE task[k]
    BY DEF Typed
<1>2. \A k \in Node : Phase(k)' = Phase(k)
    BY <1>1 DEF Phase, None
<1>3. Outcome' = Outcome
    BY DEF Outcome
<1> QED
    BY <1>2, <1>3, SameFlow

\* The nodes a conditional skips are left out together.
LEMMA SkipsFlow ==
    ASSUME Typed, SkipInv, Course, NEW n \in Node, Propagated(n)
    PROVE  \E S \in SUBSET Node : Abstract!Provide(S)
<1> DEFINE S == {m \in writing : ~Past(m)}
<1>1. /\ pc = "groups" /\ pc' = pc /\ Early /\ task[n] = "writing"
      /\ task' = [task EXCEPT ![n] = "ended"] /\ skipped' = skipped \cup writing /\ UNCHANGED group
    BY DEF Propagated, Early
<1>2. /\ \A m \in writing : ForwardIn(m) \subseteq dead'
      /\ \A e \in dead' : e.src \in Node /\ (e.src = n \/ e.src \in skipped' \/ task[e.src] = "ended")
    BY SkipsInTurn
<1>3. /\ SkipReadsAgree /\ AtGroup /\ InTurn /\ Busy
      /\ \A m \in Node : task[m] = "writing" => m = n
    BY <1>1 DEF SkipInv, Course, OneWriter
<1>4. ~(group > Len(Group))
    BY <1>1, <1>3, GroupLength DEF InTurn, LenGroup
<1>5. writing \subseteq Node /\ group \in Nat /\ Len(Group) \in Nat
    BY GroupLength DEF Typed, LenGroup
<1>6. \A m \in S : m \in Node /\ task[m] = None
    <2> SUFFICES ASSUME NEW m \in writing, ~Past(m) PROVE m \in Node /\ task[m] = None
        OBVIOUS
    <2>1. m \in Node /\ m \notin Group[group]
        BY <1>3, <1>4, <1>5 DEF SkipReadsAgree
    <2>2. task[m] \notin AtWork
        BY <1>1, <1>3, <2>1 DEF AtGroup
    <2> QED
        BY <2>1, <2>2 DEF Typed, TaskState, AtWork, Past
<1>7. \A m \in S : Phase(m) = "idle"
    BY <1>1, <1>4, <1>6, PhaseIs
<1>8. \A k \in Node : task'[k] = IF k = n THEN "ended" ELSE task[k]
    BY <1>1 DEF Typed
<1>9. \A k \in Node : Phase(k)' = IF k \in S THEN "settled" ELSE Phase(k)
    BY <1>1, <1>4, <1>8 DEF Phase, Past
<1>10. ASSUME NEW m \in S PROVE \A k \in Preds(m) : k \in S \/ (k \in Node /\ Phase(k) = "settled")
    <2> SUFFICES ASSUME NEW e \in ForwardIn(m)
                 PROVE  e.src \in S \/ (e.src \in Node /\ Phase(e.src) = "settled")
        BY DEF Preds
    <2>1. e \in dead'
        BY <1>2
    <2>2. e.src \in Node /\ (e.src = n \/ e.src \in skipped' \/ task[e.src] = "ended")
        BY <1>2, <2>1
    <2>3. e.src \in S \/ Past(e.src) \/ task[e.src] = "writing"
        BY <1>1, <2>2 DEF Past
    <2> QED
        BY <1>1, <2>2, <2>3, PhaseIs
<1>11. S \in SUBSET Node
    BY <1>5
<1> HIDE DEF S
<1>12. Abstract!Bypassed(S, S)
    BY <1>7, <1>10, <1>11 DEF Abstract!Bypassed, Abstract!In
<1>13. Outcome = "open" /\ Outcome' = "open"
    BY <1>1 DEF Outcome
<1>14. [k \in Node |-> Phase(k)]' = [k \in Node |-> IF k \in S THEN "settled" ELSE Phase(k)]
    BY <1>9
<1>15. Abstract!Provide(S)
    BY <1>12, <1>13, <1>14 DEF Abstract!Provide, Outcome
<1> QED
    BY <1>11, <1>15

LEMMA NextGroupFlow ==
    ASSUME Typed, SkipInv, Course, NextGroup
    PROVE  UNCHANGED Abstract!vars
<1>1. /\ pc = "groups" /\ Early /\ pc' \in {"groups", "loops"} /\ UNCHANGED <<task, skipped>>
      /\ group' > Len(Group) => \A n \in Node : Past(n)
      /\ group' = group + 1
    BY NextGroupCourse DEF Early, NextGroup
<1>2. Outcome' = Outcome
    BY <1>1 DEF Outcome
<1>3. group \in Nat /\ Len(Group) \in Nat
    BY GroupLength DEF Typed, LenGroup
<1>4. CASE group' > Len(Group)
    BY <1>1, <1>2, <1>4, PhaseOver, PhaseIs, SameFlow
<1>5. CASE ~(group' > Len(Group))
    <2>1. ~(group > Len(Group))
        BY <1>1, <1>3, <1>5
    <2>2. \A n \in Node : Phase(n)' = Phase(n)
        BY <1>1, <1>5, <2>1 DEF Phase
    <2> QED
        BY <1>2, <2>2, SameFlow
<1> QED
    BY <1>4, <1>5

LEMMA GoroutineFlow ==
    ASSUME Typed, SkipInv, Course, NEW n \in Node, Goroutine(n)
    PROVE  [Abstract!Next]_Abstract!vars
<1>0. {} \in SUBSET Node
    OBVIOUS
<1>1. CASE Resolve(n)
    <2>1. CASE Kind[n] = "unknown"
        <3>1. Abstract!Settle(n, {})
            BY <1>1, <2>1, SettleFlow DEF Resolve
        <3> QED
            BY <1>0, <3>1 DEF Abstract!Next
    <2>2. CASE Kind[n] # "unknown"
        BY <1>1, <2>2, GoesOnFlow DEF Resolve
    <2> QED
        BY <2>1, <2>2
<1>2. CASE NodeFails(n)
    <2>1. Abstract!Settle(n, {})
        BY <1>2, SettleFlow DEF NodeFails
    <2> QED
        BY <1>0, <2>1 DEF Abstract!Next
<1>3. CASE NodeSucceeds(n)
    <2>1. CASE Kind[n] # "conditional"
        <3>1. Abstract!Settle(n, {})
            BY <1>3, <2>1, SettleFlow DEF NodeSucceeds
        <3> QED
            BY <1>0, <3>1 DEF Abstract!Next
    <2>2. CASE Kind[n] = "conditional"
        BY <1>3, <2>2, GoesOnFlow DEF NodeSucceeds
    <2> QED
        BY <2>1, <2>2
<1>4. CASE Propagate(n)
    <2>1. Abstract!Settle(n, {})
        BY <1>4, SettleFlow DEF Propagate, dataVars
    <2> QED
        BY <1>0, <2>1 DEF Abstract!Next
<1>5. CASE Propagated(n)
    BY <1>5, SkipsFlow DEF Abstract!Next
<1> QED
    BY <1>1, <1>2, <1>3, <1>4, <1>5 DEF Goroutine

\* The loops, and the end: every node is settled by then.
LEMMA LoopFlow ==
    ASSUME Typed, Course, LoopStep
    PROVE  [Abstract!Next]_Abstract!vars
<1>1. /\ pc \in {"loops", "body", "down"} /\ group' = group /\ UNCHANGED <<task, writing>>
      /\ pc' \in {"loops", "body", "down", "completed", "failed"}
    BY DEF LoopStep, Iterate, EndIteration, LeaveLoop, EndDownstream, RunAgain,
           RunAgainFails, ConditionFails, Complete, flowVars
<1>2. group > Len(Group) /\ group' > Len(Group)
    BY <1>1 DEF Course, Early
<1>3. \A n \in Node : Phase(n) = "settled" /\ Phase(n)' = "settled"
    BY <1>2, PhaseOver
<1>4. [n \in Node |-> Phase(n)]' = [n \in Node |-> Phase(n)]
    BY <1>3
<1>5. Outcome = "open"
    BY <1>1 DEF Outcome
<1>6. CASE Outcome' = "open"
    BY <1>3, <1>5, <1>6, SameFlow
<1>7. CASE Outcome' = "failed"
    <2>1. Abstract!Fail
        BY <1>4, <1>5, <1>7 DEF Abstract!Fail, Outcome
    <2> QED
        BY <2>1 DEF Abstract!Next
<1>8. CASE Outcome' = "completed"
    <2>1. Abstract!In("settled") = Node
        BY <1>3 DEF Abstract!In
    <2>2. Abstract!Complete
        BY <1>4, <1>5, <1>8, <2>1 DEF Abstract!Complete, Outcome
    <2> QED
        BY <2>2 DEF Abstract!Next
<1>9. Outcome' \in {"open", "completed", "failed"}
    BY <1>1 DEF Outcome
<1> QED
    BY <1>6, <1>7, <1>8, <1>9

LEMMA StepFlow ==
    ASSUME InputsAreSources, Typed, SkipInv, Course, [Next]_vars
    PROVE  [Abstract!Next]_Abstract!vars
<1>1. CASE GroupStep
    <2>1. CASE Begin
        <3>1. Inputs \in SUBSET Node
            BY DEF Inputs
        <3> QED
            BY <2>1, <3>1, BeginFlow DEF Abstract!Next
    <2>2. ASSUME NEW n \in Node, Visit(n) PROVE [Abstract!Next]_Abstract!vars
        BY <2>2, VisitFlow DEF Abstract!Next
    <2>3. ASSUME NEW n \in Node, MapRace(n) PROVE UNCHANGED Abstract!vars
        BY <2>3, PhasesStay, SameFlow DEF MapRace, dataVars, Outcome
    <2> QED
        BY <1>1, <2>1, <2>2, <2>3, NextGroupFlow DEF GroupStep
<1>2. CASE \E n \in Node : Goroutine(n)
    BY <1>2, GoroutineFlow
<1>3. CASE ItemStep
    <2>1. UNCHANGED <<pc, group, task, skipped>>
        BY <1>3 DEF ItemStep, Spawn, StartItem, EndItem, ItemGoes, dataVars
    <2> QED
        BY <2>1, PhasesStay, SameFlow DEF Outcome
<1>4. CASE LoopStep
    BY <1>4, LoopFlow
<1>5. CASE Over \/ UNCHANGED vars
    <2>1. UNCHANGED <<pc, group, task, skipped>>
        BY <1>5 DEF Over, vars, flowVars, dataVars
    <2> QED
        BY <2>1, PhasesStay, SameFlow DEF Outcome
<1> QED
    BY <1>1, <1>2, <1>3, <1>4, <1>5 DEF Next

\* The in-process orchestrator implements Dataflow too: a node gets its goroutine once,
\* after everything it depends on has settled, what conditionals leave out settles without
\* running whatever order their goroutines take the mutex in, and Execute returns its
\* outputs only when every node has settled - for every validated graph whose loops are
\* entered by forward edges and whose inputs have none.
THEOREM Implements ==
    ASSUME EntriesHaveInputs, InputsAreSources
    PROVE  Spec => ImplementsDataflow
<1>1. Init => Typed /\ SkipInv /\ Course
    BY InitTyped, InitSkips, InitCourse
<1>2. Typed /\ SkipInv /\ Course /\ [Next]_vars => (Typed /\ SkipInv /\ Course)'
    BY TypesKept, SkipsInductive, CourseKept
<1>3. Typed /\ SkipInv /\ Course /\ [Next]_vars => [Abstract!Next]_Abstract!vars
    BY StepFlow
<1> QED
    BY <1>1, <1>2, <1>3, InitFlow, PTL DEF Spec, ImplementsDataflow, Abstract!Spec

-----------------------------------------------------------------------------
(* The values the nodes were run with.                                     *)

\* Goroutines belong to the group that is executed, and to nodes of groups before.
Turn ==
    /\ pc = "begin" => group = 1 /\ \A n \in Node : task[n] = None
    /\ Early =>
        /\ group \in 1 .. Len(Group) \/ Node = {}
        /\ todo \subseteq Group[group]
        /\ \A n \in Node : \A i \in 1 .. Len(Group) : n \in Group[i] =>
            /\ task[n] # None => i <= group
            /\ task[n] \in AtWork => i = group

LEMMA InitTurn == Init => Turn
<1> SUFFICES ASSUME Init PROVE Turn
    OBVIOUS
<1>1. group = 1 /\ todo = {} /\ \A n \in Node : task[n] = None
    BY DEF Init
<1>2. group \in 1 .. Len(Group) \/ Node = {}
    BY <1>1, GroupOf, GroupLength DEF LenGroup
<1> QED
    BY <1>1, <1>2 DEF Turn, AtWork, None

\* A step within a group that starts no goroutine but one of a node still to come.
LEMMA WorkKeepsTurn ==
    ASSUME Turn, Early, pc' = pc, pc # "begin", UNCHANGED group, todo' \subseteq todo,
           \A n \in Node : \/ task'[n] = task[n]
                           \/ task[n] \in AtWork
                           \/ n \in todo
    PROVE  Turn'
<1>1. Early'
    BY DEF Early
<1>2. ASSUME NEW n \in Node, NEW i \in 1 .. Len(Group), n \in Group[i], n \in todo PROVE i = group
    <2>1. group \in 1 .. Len(Group) /\ n \in Group[group]
        BY <1>2 DEF Turn
    <2> QED
        BY <1>2, <2>1, OneGroup
<1>3. ASSUME NEW n \in Node, NEW i \in 1 .. Len(Group), n \in Group[i]
      PROVE  /\ task'[n] # None => i <= group
             /\ task'[n] \in AtWork => i = group
    <2>1. CASE task'[n] = task[n]
        BY <1>3, <2>1 DEF Turn
    <2>2. CASE task[n] \in AtWork \/ n \in todo
        <3>1. i = group
            BY <1>2, <1>3, <2>2 DEF Turn
        <3>2. i <= group
            BY <3>1, GroupLength DEF LenGroup
        <3> QED
            BY <3>1, <3>2
    <2> QED
        BY <1>3, <2>1, <2>2
<1> QED
    BY <1>1, <1>3 DEF Turn

LEMMA TurnKept == Typed /\ Turn /\ [Next]_vars => Turn'
<1> SUFFICES ASSUME Typed, Turn, [Next]_vars PROVE Turn'
    OBVIOUS
<1>1. ASSUME UNCHANGED <<pc, group, todo, task>> PROVE Turn'
    BY <1>1 DEF Turn, Early
<1>2. ASSUME ~Early' PROVE Turn'
    BY <1>2 DEF Turn, Early
<1>3. CASE Begin
    <2>1. /\ pc = "begin" /\ pc' = "groups" /\ todo' = Group[1] /\ Early /\ UNCHANGED <<group, task>>
        BY <1>3 DEF Begin, Early
    <2> QED
        BY <2>1 DEF Turn
<1>4. ASSUME NEW n \in Node, Visit(n) PROVE Turn'
    <2>1. \A m \in Node : m # n => task'[m] = task[m]
        BY <1>4 DEF Visit, Typed
    <2> QED
        BY <1>4, <2>1, WorkKeepsTurn DEF Visit, Early
<1>5. CASE NextGroup
    <2>1. /\ pc = "groups" /\ Early /\ \A n \in Node : task[n] \notin AtWork
          /\ task' = task /\ group' = group + 1
        BY <1>5 DEF NextGroup, Early, AtWork, Is, None
    <2>2. group \in Nat \ {0} /\ Len(Group) \in Nat
        BY GroupLength DEF Typed, LenGroup
    <2>3. CASE group < Len(Group)
        <3>1. pc' = pc /\ todo' = Group[group'] /\ Early'
            BY <1>5, <2>1, <2>3 DEF NextGroup, Early
        <3>2. group' \in 1 .. Len(Group)
            BY <2>1, <2>2, <2>3
        <3>3. ASSUME NEW n \in Node, NEW i \in 1 .. Len(Group), n \in Group[i], task[n] # None
              PROVE  i <= group + 1
            <4>1. i <= group
                BY <2>1, <3>3 DEF Turn
            <4> QED
                BY <2>2, <4>1
        <3> QED
            BY <2>1, <3>1, <3>2, <3>3 DEF Turn
    <2>4. CASE ~(group < Len(Group))
        BY <1>2, <1>5, <2>4 DEF NextGroup, Early
    <2> QED
        BY <2>3, <2>4
<1>6. ASSUME NEW n \in Node, MapRace(n) PROVE Turn'
    BY <1>2, <1>6 DEF MapRace, Early
<1>7. ASSUME NEW n \in Node, Goroutine(n) PROVE Turn'
    <2>1. /\ pc = "groups" /\ Early /\ UNCHANGED <<pc, group, todo>> /\ task[n] \in AtWork
          /\ \E s : task' = [task EXCEPT ![n] = s]
        BY <1>7 DEF Goroutine, Resolve, NodeFails, NodeSucceeds, Propagate, Propagated, Early, AtWork
    <2>2. \A m \in Node : m # n => task'[m] = task[m]
        BY <2>1 DEF Typed
    <2> QED
        BY <2>1, <2>2, WorkKeepsTurn
<1>8. CASE ItemStep
    BY <1>1, <1>8 DEF ItemStep, Spawn, StartItem, EndItem, ItemGoes
<1>9. CASE LoopStep
    <2>1. ~Early'
        BY <1>9 DEF LoopStep, Iterate, EndIteration, LeaveLoop, EndDownstream, RunAgain,
                    RunAgainFails, ConditionFails, Complete, Early, flowVars
    <2> QED
        BY <1>2, <2>1
<1>10. CASE Over \/ UNCHANGED vars
    BY <1>1, <1>10 DEF Over, vars, flowVars
<1> QED
    BY <1>3, <1>4, <1>5, <1>6, <1>7, <1>8, <1>9, <1>10 DEF Next, GroupStep

\* The topological order: every node has an index, and a forward edge leads to a higher one.
LEMMA Indexed ==
    ASSUME NEW n \in Node
    PROVE  IndexOf(n) \in 1 .. Len(TopoOrder) /\ TopoOrder[IndexOf(n)] = n /\ IndexOf(n) \in Nat
<1>1. \E i \in 1 .. Len(TopoOrder) : TopoOrder[i] = n
    BY DEF GraphAssumption
<1>2. IndexOf(n) \in 1 .. Len(TopoOrder) /\ TopoOrder[IndexOf(n)] = n
    BY <1>1 DEF IndexOf
<1> QED
    BY <1>2

LEMMA EdgesGoUp ==
    ASSUME NEW e \in Edge, ~e.back
    PROVE  e.src \in Node /\ e.dst \in Node /\ IndexOf(e.src) < IndexOf(e.dst)
<1>1. e.src \in Node /\ e.dst \in Node
    BY DEF GraphAssumption
<1>2. \A i, j \in 1 .. Len(TopoOrder) : TopoOrder[i] = e.src /\ TopoOrder[j] = e.dst => i < j
    BY DEF GraphAssumption
<1>3. /\ IndexOf(e.src) \in 1 .. Len(TopoOrder) /\ TopoOrder[IndexOf(e.src)] = e.src
      /\ IndexOf(e.dst) \in 1 .. Len(TopoOrder) /\ TopoOrder[IndexOf(e.dst)] = e.dst
    BY <1>1, Indexed
<1> QED
    BY <1>1, <1>2, <1>3

\* Every set of numbers has a least one.
LEMMA LeastIndex ==
    ASSUME NEW T, T \subseteq Nat, T # {}
    PROVE  \E i \in T : \A j \in T : i <= j
<1> DEFINE R == {ss \in Nat \X Nat : ss[1] < ss[2]}
<1>1. OpToRel(<, Nat) = R
    BY Zenon DEF OpToRel
<1>2. \A i, j \in Nat : i < j => <<i, j>> \in R
    OBVIOUS
<1> HIDE DEF R
<1>3. IsWellFoundedOn(R, Nat)
    BY <1>1, NatLessThanWellFounded, Zenon
<1>4. PICK i \in T : \A j \in T : <<j, i>> \notin R
    BY <1>3, WFMin
<1> SUFFICES ASSUME NEW j \in T PROVE i <= j
    OBVIOUS
<1>5. i \in Nat /\ j \in Nat /\ ~(j < i)
    BY <1>2, <1>4
<1> QED
    BY <1>5

\* The least of some nodes is one of them, and alone with its index.
LEMMA FirstIs ==
    ASSUME walk \subseteq Node, walk # {}
    PROVE  First \in walk /\ \A m \in walk : IndexOf(First) <= IndexOf(m)
<1> DEFINE idx == {IndexOf(n) : n \in walk}
<1>1. idx \subseteq Nat /\ idx # {}
    BY Indexed
<1> HIDE DEF idx
<1>2. PICK i \in idx : \A j \in idx : i <= j
    BY <1>1, LeastIndex
<1>3. \E n \in walk : \A m \in walk : IndexOf(n) <= IndexOf(m)
    BY <1>2 DEF idx
<1> QED
    BY <1>3 DEF First

\* What a node of the body feeds is in the body or downstream of it, and what a node
\* downstream feeds is downstream: nothing comes back by a forward edge.
LEMMA BodyFeeds ==
    ASSUME NEW be \in Edge, NEW e \in Edge, ~e.back, e.src \in Body(be)
    PROVE  e.dst \in Body(be) \cup Downstream(be)
<1>1. e.dst \in Node
    BY EdgesGoUp
<1> QED
    BY <1>1 DEF Downstream

LEMMA DownstreamIsLater ==
    ASSUME NEW be \in Edge, NEW n \in Downstream(be)
    PROVE  n \in Node /\ IndexOf(be.src) < IndexOf(n)
<1> DEFINE Later == {m \in Node : IndexOf(be.src) < IndexOf(m)}
           S == Body(be) \cup Later
<1>1. be.src \in Node /\ be.dst \in Node
    BY DEF GraphAssumption
<1>2. n \in Node \ Body(be)
    BY DEF Downstream
<1>3. S \in SUBSET Node /\ Body(be) \subseteq S
    BY DEF Body
<1>4. ASSUME NEW e \in Edge, ~e.back, e.src \in S PROVE e.dst \in S
    <2>1. /\ e.src \in Node /\ e.dst \in Node /\ IndexOf(e.src) < IndexOf(e.dst)
          /\ IndexOf(e.src) \in Nat /\ IndexOf(e.dst) \in Nat
          /\ IndexOf(be.src) \in Nat /\ IndexOf(be.dst) \in Nat
        BY <1>1, <1>4, EdgesGoUp, Indexed
    <2>2. CASE e.src \in Later
        BY <2>1, <2>2
    <2>3. CASE e.src \in Body(be)
        <3>1. IndexOf(be.dst) <= IndexOf(e.src)
            BY <2>3 DEF Body
        <3> QED
            BY <2>1, <3>1 DEF Body
    <2> QED
        BY <1>4, <2>2, <2>3
<1> HIDE DEF S
<1>5. n \in S
    BY <1>2, <1>3, <1>4 DEF Downstream
<1> QED
    BY <1>2, <1>5 DEF S

LEMMA DownstreamFeeds ==
    ASSUME NEW be \in Edge, NEW e \in Edge, ~e.back, e.src \in Downstream(be)
    PROVE  e.dst \in Downstream(be)
<1>1. /\ e.src \in Node /\ e.dst \in Node /\ IndexOf(e.src) < IndexOf(e.dst)
      /\ IndexOf(be.src) < IndexOf(e.src)
    BY EdgesGoUp, DownstreamIsLater
<1>2. IndexOf(be.src) \in Nat /\ IndexOf(e.src) \in Nat /\ IndexOf(e.dst) \in Nat
    BY <1>1, Indexed DEF GraphAssumption
<1>3. e.dst \notin Body(be)
    BY <1>1, <1>2 DEF Body
<1> QED
    BY <1>1, <1>3 DEF Downstream

\* A node is stale once a source has run again since it read its value.
Fresh(n) == \A s \in seen[n] : s[2] = out[s[1].src].run
Stale == {n \in Node \ Inputs : ~Fresh(n)}

\* What is still to run again holds, with a node, every later one of the part that runs.
Remains(S) ==
    /\ walk \subseteq S
    /\ \A n \in walk : \A m \in S : IndexOf(n) < IndexOf(m) => m \in walk

LoopKnown == loop \in 1 .. Len(BackEdge)

Reads ==
    /\ seen \in [Node -> SUBSET (Edge \X Nat)]
    /\ \A n \in Node : \A s \in seen[n] : s[1] \in ForwardIn(n)

FreshInv ==
    /\ Reads
    /\ Early =>
        /\ \A n \in Node : task[n] = None => seen[n] = {}
        /\ Stale = {} /\ loop = 1 /\ ~loopRan
    /\ pc = "loops" =>
        /\ loop \in Nat \ {0}
        /\ IF loopRan THEN LoopKnown /\ Stale \subseteq DownstreamOf[loop] ELSE Stale = {}
    /\ pc = "body" =>
        /\ LoopKnown /\ Remains(BodyOf[loop] \ Inputs)
        /\ Stale \subseteq walk \cup DownstreamOf[loop]
    /\ pc = "down" =>
        /\ LoopKnown /\ Remains(DownstreamOf[loop])
        /\ Stale \subseteq walk
    /\ pc = "completed" => Stale = {}

LEMMA LoopParts ==
    ASSUME LoopKnown
    PROVE  /\ BackEdge[loop] \in Edge
           /\ BodyOf[loop] = Body(BackEdge[loop]) /\ BodyOf[loop] \subseteq Node
           /\ DownstreamOf[loop] = Downstream(BackEdge[loop])
           /\ DownstreamOf[loop] \subseteq Node \ BodyOf[loop]
<1>1. BackEdge[loop] \in Edge
    BY DEF LoopKnown, GraphAssumption
<1>2. BodyOf[loop] = Body(BackEdge[loop]) /\ DownstreamOf[loop] = Downstream(BackEdge[loop])
    BY DEF LoopKnown, BodyOf, DownstreamOf
<1> QED
    BY <1>1, <1>2 DEF Body, Downstream

\* What a node reads.
LEMMA ResolvedReads ==
    ASSUME Typed, NEW n \in Node
    PROVE  /\ Resolved(n) \in SUBSET (Edge \X Nat)
           /\ \A s \in Resolved(n) : s[1] \in ForwardIn(n) /\ s[2] = out[s[1].src].run
<1>1. \A e \in ForwardIn(n) : e \in Edge /\ e.src \in Node
    BY DEF ForwardIn, InEdges, GraphAssumption
<1>2. \A e \in ForwardIn(n) : out[e.src].run \in Nat
    BY <1>1 DEF Typed
<1> QED
    BY <1>1, <1>2 DEF Resolved

\* A run of a node leaves stale at most what it feeds, and not the node itself.
LEMMA RunStales ==
    ASSUME Typed, FreshInv, NEW n \in Node, NEW r \in Nat, NEW live,
           out' = [out EXCEPT ![n] = [run |-> r, live |-> live]],
           seen' = [seen EXCEPT ![n] = Resolved(n)]
    PROVE  /\ Reads'
           /\ \A m \in Stale' : /\ m \in Node \ Inputs /\ m # n
                                /\ m \in Stale \/ \E e \in ForwardIn(m) : e.src = n
<1>1. \A m \in Node : out'[m] = IF m = n THEN [run |-> r, live |-> live] ELSE out[m]
    BY DEF Typed
<1>2. /\ seen \in [Node -> SUBSET (Edge \X Nat)]
      /\ \A m \in Node : \A s \in seen[m] : s[1] \in ForwardIn(m)
    BY DEF FreshInv, Reads
<1>3. /\ Resolved(n) \in SUBSET (Edge \X Nat)
      /\ \A s \in Resolved(n) : s[1] \in ForwardIn(n) /\ s[2] = out[s[1].src].run
    BY ResolvedReads
<1>4. \A m \in Node : seen'[m] = IF m = n THEN Resolved(n) ELSE seen[m]
    BY <1>2
<1>5. seen' \in [Node -> SUBSET (Edge \X Nat)]
    BY <1>2, <1>3
<1>6. Reads'
    BY <1>2, <1>3, <1>4, <1>5 DEF Reads
<1>7. ASSUME NEW m \in Node, NEW e \in ForwardIn(m)
      PROVE  e.src \in Node /\ (m = n => e.src # n)
    <2>1. e \in Edge /\ ~e.back /\ e.dst = m
        BY <1>7 DEF ForwardIn, InEdges
    <2>2. e.src \in Node /\ IndexOf(e.src) < IndexOf(e.dst) /\ IndexOf(e.dst) \in Nat
        BY <2>1, EdgesGoUp, Indexed
    <2> QED
        BY <2>1, <2>2
<1>8. ASSUME NEW m \in Stale'
      PROVE  /\ m \in Node \ Inputs /\ m # n
             /\ m \in Stale \/ \E e \in ForwardIn(m) : e.src = n
    <2>1. m \in Node \ Inputs
        BY <1>8 DEF Stale, Inputs
    <2>2. PICK s \in seen'[m] : s[2] # out'[s[1].src].run
        BY <1>8 DEF Stale, Fresh
    <2>3. s[1] \in ForwardIn(m)
        BY <1>6, <2>1, <2>2 DEF Reads
    <2>4. s[1].src \in Node /\ (m = n => s[1].src # n)
        BY <1>7, <2>1, <2>3
    <2>5. CASE s[1].src = n
        BY <2>1, <2>3, <2>4, <2>5
    <2>6. CASE s[1].src # n
        <3>1. out'[s[1].src] = out[s[1].src]
            BY <1>1, <2>4, <2>6
        <3>2. m # n
            BY <1>3, <1>4, <2>1, <2>2, <3>1
        <3>3. s \in seen[m] /\ s[2] # out[s[1].src].run
            BY <1>4, <2>1, <2>2, <3>1, <3>2
        <3> QED
            BY <2>1, <3>2, <3>3 DEF Stale, Fresh
    <2> QED
        BY <2>5, <2>6
<1> QED
    BY <1>6, <1>8

LEMMA SameStale ==
    ASSUME UNCHANGED <<seen, out>>
    PROVE  Stale' = Stale /\ (Reads => Reads')
BY DEF Stale, Fresh, Reads

LEMMA InitFresh == Init => FreshInv
<1> SUFFICES ASSUME Init PROVE FreshInv
    OBVIOUS
<1>1. seen = [n \in Node |-> {}] /\ pc = "begin" /\ loop = 1 /\ loopRan = FALSE
    BY DEF Init
<1>2. Reads /\ Stale = {}
    BY <1>1 DEF Reads, Stale, Fresh
<1> QED
    BY <1>1, <1>2 DEF FreshInv, Early

\* While the groups run: a step that starts no node anew and stores nothing.
LEMMA GroupsKeepFresh ==
    ASSUME FreshInv, Early, Early', UNCHANGED <<seen, out, loop, loopRan>>,
           \A n \in Node : task'[n] = None => task[n] = None
    PROVE  FreshInv'
<1>1. Reads /\ Stale = {} /\ loop = 1 /\ ~loopRan /\ \A n \in Node : task[n] = None => seen[n] = {}
    BY DEF FreshInv
<1>2. Reads' /\ Stale' = {}
    BY <1>1, SameStale
<1>3. pc' \in {"begin", "groups"}
    BY DEF Early
<1> QED
    BY <1>1, <1>2, <1>3 DEF FreshInv

\* What a node reads is what its sources hold.
LEMMA ResolveKeepsFresh ==
    ASSUME Typed, FreshInv, NEW n \in Node, Resolve(n)
    PROVE  FreshInv'
<1>1. /\ pc' = "groups" /\ Early /\ Early' /\ out' = out /\ loop' = loop /\ loopRan' = loopRan
      /\ seen' = [seen EXCEPT ![n] = Resolved(n)]
      /\ task'[n] # None /\ \A m \in Node : m # n => task'[m] = task[m]
    BY DEF Resolve, Early, Typed, None, loopVars
<1>2. Reads /\ Stale = {} /\ loop = 1 /\ ~loopRan /\ \A m \in Node : task[m] = None => seen[m] = {}
    BY <1>1 DEF FreshInv
<1>3. \A m \in Node : seen'[m] = IF m = n THEN Resolved(n) ELSE seen[m]
    BY <1>1, <1>2 DEF Reads
<1>4. Reads'
    BY <1>1, <1>2, <1>3, ResolvedReads DEF Reads
<1>5. \A m \in Node \ Inputs : Fresh(m)
    BY <1>2 DEF Stale
<1>6. \A m \in Node \ Inputs : Fresh(m)'
    BY <1>1, <1>3, <1>5, ResolvedReads DEF Fresh
<1>7. Stale' = {}
    BY <1>6 DEF Stale, Inputs
<1>8. \A m \in Node : task'[m] = None => seen'[m] = {}
    BY <1>1, <1>2, <1>3
<1> QED
    BY <1>1, <1>2, <1>4, <1>7, <1>8 DEF FreshInv

\* The nodes that will read an output are in later groups: they have read nothing yet.
LEMMA NodeKeepsFresh ==
    ASSUME Typed, Turn, FreshInv, NEW n \in Node, NodeSucceeds(n)
    PROVE  FreshInv'
<1>1. /\ pc = "groups" /\ pc' = "groups" /\ Early /\ Early'
      /\ seen' = seen /\ loop' = loop /\ loopRan' = loopRan
      /\ task[n] \in AtWork /\ task'[n] # None /\ \A m \in Node : m # n => task'[m] = task[m]
    BY DEF NodeSucceeds, Early, Typed, None, AtWork, loopVars
<1>2. Reads /\ Stale = {} /\ loop = 1 /\ ~loopRan /\ \A m \in Node : task[m] = None => seen[m] = {}
    BY <1>1 DEF FreshInv
<1>3. \A m \in Node : m # n => out'[m] = out[m]
    BY DEF NodeSucceeds, Store, Typed
<1>4. ASSUME NEW m \in Node, NEW e \in ForwardIn(m), e.src = n PROVE seen[m] = {}
    <2>1. e \in Edge /\ ~e.back /\ e.dst = m
        BY <1>4 DEF ForwardIn, InEdges
    <2>2. PICK i \in 1 .. Len(Group) : n \in Group[i]
        BY GroupOf
    <2>3. PICK j \in 1 .. Len(Group) : m \in Group[j]
        BY GroupOf
    <2>4. i = group /\ i < j
        BY <1>1, <1>4, <2>1, <2>2, <2>3, EdgesGoOn DEF Turn
    <2>5. task[m] # None => j <= group
        BY <1>1, <2>3 DEF Turn
    <2>6. ~(j <= group)
        BY <2>4, GroupLength DEF LenGroup
    <2> QED
        BY <1>2, <2>5, <2>6
<1>5. ASSUME NEW m \in Node \ Inputs PROVE Fresh(m)'
    <2> SUFFICES ASSUME NEW s \in seen[m] PROVE s[2] = out'[s[1].src].run
        BY <1>1 DEF Fresh
    <2>1. s[1] \in ForwardIn(m) /\ s[2] = out[s[1].src].run
        BY <1>2 DEF Reads, Stale, Fresh
    <2>2. s[1].src \in Node
        BY <2>1, EdgesGoUp DEF ForwardIn, InEdges
    <2>3. s[1].src # n
        BY <1>4, <2>1
    <2> QED
        BY <1>3, <2>1, <2>2, <2>3
<1>6. Stale' = {}
    BY <1>5 DEF Stale, Inputs
<1>7. Reads' /\ \A m \in Node : task'[m] = None => seen'[m] = {}
    BY <1>1, <1>2 DEF Reads
<1> QED
    BY <1>1, <1>2, <1>6, <1>7 DEF FreshInv

\* All but what the loops do.
LEMMA GroupStepsKeepFresh ==
    ASSUME Typed, Turn, FreshInv,
           GroupStep \/ (\E n \in Node : Goroutine(n)) \/ ItemStep
    PROVE  FreshInv'
<1>1. CASE Begin
    BY <1>1, GroupsKeepFresh DEF Begin, Early, loopVars
<1>2. ASSUME NEW n \in Node, Visit(n) PROVE FreshInv'
    <2>1. \A m \in Node : task'[m] = None => task[m] = None
        BY <1>2 DEF Visit, Typed, None
    <2> QED
        BY <1>2, <2>1, GroupsKeepFresh DEF Visit, Early, loopVars
<1>3. ASSUME NEW n \in Node, MapRace(n) PROVE FreshInv'
    <2>1. Reads' /\ pc' = "died"
        BY <1>3, SameStale DEF MapRace, dataVars, FreshInv
    <2> QED
        BY <2>1 DEF FreshInv, Early
<1>4. CASE NextGroup
    <2>1. /\ Early /\ UNCHANGED <<seen, out, loop, loopRan, task>> /\ pc' \in {"groups", "loops"}
        BY <1>4 DEF NextGroup, Early, loopVars, dataVars
    <2>2. CASE pc' = "groups"
        BY <2>1, <2>2, GroupsKeepFresh DEF Early
    <2>3. CASE pc' = "loops"
        <3>1. Reads' /\ Stale' = {} /\ loop' = 1 /\ ~loopRan'
            BY <2>1, SameStale DEF FreshInv
        <3> QED
            BY <2>3, <3>1 DEF FreshInv, Early
    <2> QED
        BY <2>1, <2>2, <2>3
<1>5. ASSUME NEW n \in Node, NodeFails(n) \/ Propagate(n) \/ Propagated(n) PROVE FreshInv'
    <2>1. \A m \in Node : task'[m] = None => task[m] = None
        BY <1>5 DEF NodeFails, Propagate, Propagated, Typed, None
    <2> QED
        BY <1>5, <2>1, GroupsKeepFresh DEF NodeFails, Propagate, Propagated, Early, loopVars, dataVars
<1>6. CASE ItemStep
    BY <1>6, GroupsKeepFresh
       DEF ItemStep, Spawn, StartItem, EndItem, ItemGoes, Running, Early, loopVars, dataVars
<1> QED
    BY <1>1, <1>2, <1>3, <1>4, <1>5, <1>6, ResolveKeepsFresh, NodeKeepsFresh DEF GroupStep, Goroutine

\* A run in a loop leaves to be run what reads it, or that is downstream.
LEMMA RunAgainKeepsFresh ==
    ASSUME Typed, FreshInv, RunAgain
    PROVE  FreshInv'
<1> DEFINE n == First
<1>1. /\ pc \in {"body", "down"} /\ pc' = pc /\ walk # {} /\ walk' = walk \ {n}
      /\ loop' = loop /\ loopRan' = loopRan /\ LoopKnown
      /\ seen' = [seen EXCEPT ![n] = Resolved(n)]
    BY DEF RunAgain, flowVars, FreshInv
<1>2. PICK keys, live : Store(n, runs[n] + 1, keys, live)
    BY AgainStores
<1>3. walk \subseteq Node
    BY <1>1, LoopParts DEF FreshInv, Remains
<1>4. n \in walk /\ n \in Node
    BY <1>1, <1>3, FirstIs
<1> HIDE DEF n
<1>5. runs[n] + 1 \in Nat /\ out' = [out EXCEPT ![n] = [run |-> runs[n] + 1, live |-> live]]
    BY <1>2, <1>4 DEF Typed, Store
<1>6. /\ Reads'
      /\ \A m \in Stale' : /\ m \in Node \ Inputs /\ m # n
                           /\ m \in Stale \/ \E e \in ForwardIn(m) : e.src = n
    BY <1>1, <1>4, <1>5, RunStales
<1>7. LoopKnown' /\ BodyOf[loop'] = BodyOf[loop] /\ DownstreamOf[loop'] = DownstreamOf[loop]
    BY <1>1 DEF LoopKnown
<1>8. /\ BackEdge[loop] \in Edge
      /\ BodyOf[loop] = Body(BackEdge[loop]) /\ BodyOf[loop] \subseteq Node
      /\ DownstreamOf[loop] = Downstream(BackEdge[loop])
      /\ DownstreamOf[loop] \subseteq Node \ BodyOf[loop]
    BY <1>1, LoopParts
<1>9. ASSUME NEW S, Remains(S) PROVE Remains(S)'
    <2>1. \A m \in walk : IndexOf(n) <= IndexOf(m)
        BY <1>1, <1>3, FirstIs DEF n
    <2>2. \A m \in walk : IndexOf(m) \in Nat
        BY <1>3, Indexed
    <2> SUFFICES ASSUME NEW k \in walk', NEW m \in S, IndexOf(k) < IndexOf(m) PROVE m \in walk'
        BY <1>1, <1>9 DEF Remains
    <2>3. k \in walk /\ m \in walk
        BY <1>1, <1>9 DEF Remains
    <2>4. m # n
        BY <1>4, <2>1, <2>2, <2>3
    <2> QED
        BY <1>1, <2>3, <2>4
<1>10. ASSUME NEW m \in Node, NEW e \in ForwardIn(m), e.src = n
       PROVE  e \in Edge /\ ~e.back /\ e.dst = m /\ IndexOf(n) < IndexOf(m)
    <2>1. e \in Edge /\ ~e.back /\ e.dst = m
        BY <1>10 DEF ForwardIn, InEdges
    <2> QED
        BY <1>10, <2>1, EdgesGoUp
<1>11. CASE pc = "body"
    <2>1. Remains(BodyOf[loop] \ Inputs) /\ Stale \subseteq walk \cup DownstreamOf[loop]
        BY <1>11 DEF FreshInv
    <2>2. ASSUME NEW m \in Stale' PROVE m \in walk' \cup DownstreamOf[loop]
        <3>1. m \in Node \ Inputs /\ m # n
            BY <1>6, <2>2
        <3>2. CASE m \in Stale
            BY <1>1, <2>1, <3>1, <3>2
        <3>3. CASE \E e \in ForwardIn(m) : e.src = n
            <4>1. PICK e \in ForwardIn(m) : e.src = n
                BY <3>3
            <4>2. e \in Edge /\ ~e.back /\ e.dst = m /\ IndexOf(n) < IndexOf(m)
                BY <1>10, <3>1, <4>1
            <4>3. n \in Body(BackEdge[loop])
                BY <1>4, <1>8, <2>1 DEF Remains
            <4>4. m \in BodyOf[loop] \cup DownstreamOf[loop]
                BY <1>8, <4>1, <4>2, <4>3, BodyFeeds
            <4>5. m \in BodyOf[loop] => m \in walk
                BY <1>4, <2>1, <3>1, <4>2 DEF Remains
            <4> QED
                BY <1>1, <3>1, <4>4, <4>5
        <3> QED
            BY <1>6, <2>2, <3>2, <3>3
    <2>3. Remains(BodyOf[loop] \ Inputs)'
        BY <1>7, <1>9, <2>1
    <2> QED
        BY <1>1, <1>6, <1>7, <1>11, <2>2, <2>3 DEF FreshInv, Early
<1>12. CASE pc = "down"
    <2>1. Remains(DownstreamOf[loop]) /\ Stale \subseteq walk
        BY <1>12 DEF FreshInv
    <2>2. ASSUME NEW m \in Stale' PROVE m \in walk'
        <3>1. m \in Node \ Inputs /\ m # n
            BY <1>6, <2>2
        <3>2. CASE m \in Stale
            BY <1>1, <2>1, <3>1, <3>2
        <3>3. CASE \E e \in ForwardIn(m) : e.src = n
            <4>1. PICK e \in ForwardIn(m) : e.src = n
                BY <3>3
            <4>2. e \in Edge /\ ~e.back /\ e.dst = m /\ IndexOf(n) < IndexOf(m)
                BY <1>10, <3>1, <4>1
            <4>3. n \in Downstream(BackEdge[loop])
                BY <1>4, <1>8, <2>1 DEF Remains
            <4>4. m \in DownstreamOf[loop]
                BY <1>8, <4>1, <4>2, <4>3, DownstreamFeeds
            <4>5. m \in walk
                BY <1>4, <2>1, <4>2, <4>4 DEF Remains
            <4> QED
                BY <1>1, <3>1, <4>5
        <3> QED
            BY <1>6, <2>2, <3>2, <3>3
    <2>3. Remains(DownstreamOf[loop])'
        BY <1>7, <1>9, <2>1
    <2> QED
        BY <1>1, <1>6, <1>7, <1>12, <2>2, <2>3 DEF FreshInv, Early
<1> QED
    BY <1>1, <1>11, <1>12

\* The steps between the passes of a loop store nothing: what is downstream is left to
\* the end of the loop, when it runs again as a whole.
LEMMA LoopStepsKeepFresh ==
    ASSUME Typed, FreshInv, LoopStep
    PROVE  FreshInv'
<1>1. ASSUME UNCHANGED <<seen, out>> PROVE Stale' = Stale /\ Reads'
    BY <1>1, SameStale DEF FreshInv
<1>2. Len(BackEdge) \in Nat
    BY DEF GraphAssumption
<1>3. CASE Iterate
    <2>1. /\ pc = "loops" /\ pc' = "body" /\ loop' = loop /\ loop <= Len(BackEdge)
          /\ walk' = BodyOf[loop] \ Inputs /\ UNCHANGED <<seen, out>>
        BY <1>3 DEF Iterate
    <2>2. LoopKnown /\ Stale \subseteq DownstreamOf[loop]
        BY <1>2, <2>1 DEF FreshInv, LoopKnown
    <2>3. LoopKnown' /\ Remains(BodyOf[loop] \ Inputs)'
        BY <2>1, <2>2 DEF LoopKnown, Remains
    <2> QED
        BY <1>1, <2>1, <2>2, <2>3 DEF FreshInv, Early
<1>4. CASE EndIteration
    <2>1. /\ pc = "body" /\ walk = {} /\ loopRan' = TRUE /\ pc' = "loops"
          /\ UNCHANGED <<loop, seen, out>>
        BY <1>4 DEF EndIteration, dataVars
    <2>2. LoopKnown /\ Stale \subseteq DownstreamOf[loop]
        BY <2>1 DEF FreshInv
    <2> QED
        BY <1>1, <1>2, <2>1, <2>2 DEF FreshInv, Early, LoopKnown
<1>5. CASE LeaveLoop
    <2>1. pc = "loops" /\ loop <= Len(BackEdge) /\ UNCHANGED <<loopRan, seen, out>>
        BY <1>5 DEF LeaveLoop, dataVars
    <2>2. CASE loopRan
        <3>1. pc' = "down" /\ walk' = DownstreamOf[loop] /\ loop' = loop
            BY <1>5, <2>2 DEF LeaveLoop
        <3>2. LoopKnown /\ Stale \subseteq DownstreamOf[loop]
            BY <2>1, <2>2 DEF FreshInv
        <3> QED
            BY <1>1, <2>1, <3>1, <3>2 DEF FreshInv, Early, LoopKnown, Remains
    <2>3. CASE ~loopRan
        <3>1. pc' = "loops" /\ loop' = loop + 1
            BY <1>5, <2>1, <2>3 DEF LeaveLoop
        <3>2. loop \in Nat \ {0} /\ Stale = {}
            BY <2>1, <2>3 DEF FreshInv
        <3> QED
            BY <1>1, <2>1, <2>3, <3>1, <3>2 DEF FreshInv, Early
    <2> QED
        BY <2>2, <2>3
<1>6. CASE EndDownstream
    <2>1. /\ pc = "down" /\ walk = {} /\ loopRan' = FALSE /\ pc' = "loops" /\ loop' = loop + 1
          /\ UNCHANGED <<seen, out>>
        BY <1>6 DEF EndDownstream, dataVars
    <2>2. LoopKnown /\ Stale = {}
        BY <2>1 DEF FreshInv
    <2> QED
        BY <1>1, <1>2, <2>1, <2>2 DEF FreshInv, Early, LoopKnown
<1>7. CASE RunAgainFails \/ ConditionFails
    <2>1. pc' = "failed" /\ UNCHANGED <<seen, out>>
        BY <1>7 DEF RunAgainFails, ConditionFails, dataVars
    <2> QED
        BY <1>1, <2>1 DEF FreshInv, Early
<1>8. CASE Complete
    <2>1. pc = "loops" /\ loop > Len(BackEdge) /\ pc' = "completed" /\ UNCHANGED <<seen, out>>
        BY <1>8 DEF Complete, dataVars
    <2>2. Stale = {}
        BY <1>2, <2>1 DEF FreshInv, LoopKnown
    <2> QED
        BY <1>1, <2>1, <2>2 DEF FreshInv, Early
<1> QED
    BY <1>3, <1>4, <1>5, <1>6, <1>7, <1>8, RunAgainKeepsFresh DEF LoopStep

LEMMA FreshKept == Typed /\ Turn /\ FreshInv /\ [Next]_vars => FreshInv'
<1> SUFFICES ASSUME Typed, Turn, FreshInv, [Next]_vars PROVE FreshInv'
    OBVIOUS
<1>1. CASE Over \/ UNCHANGED vars
    <2>1. UNCHANGED <<pc, task, seen, out, loop, loopRan, walk>>
        BY <1>1 DEF Over, vars, flowVars, loopVars, dataVars
    <2>2. Stale' = Stale /\ Reads'
        BY <2>1, SameStale DEF FreshInv
    <2> QED
        BY <2>1, <2>2 DEF FreshInv, Early, LoopKnown, Remains
<1> QED
    BY <1>1, GroupStepsKeepFresh, LoopStepsKeepFresh DEF Next

Held == have \subseteq Node

LEMMA HeldKept == Typed /\ FreshInv /\ Held /\ [Next]_vars => Held'
<1> SUFFICES ASSUME Typed, FreshInv, Held, [Next]_vars PROVE Held'
    OBVIOUS
<1>1. CASE have' = have
    BY <1>1 DEF Held
<1>2. CASE Begin
    BY <1>2 DEF Begin, Held, Inputs
<1>3. ASSUME NEW n \in Node, Goroutine(n) PROVE Held'
    BY <1>3 DEF Goroutine, Resolve, NodeFails, NodeSucceeds, Store, Propagate, Propagated,
                Held, dataVars
<1>4. CASE Iterate
    BY <1>4 DEF Iterate, Held
<1>5. CASE RunAgain
    <2>1. pc \in {"body", "down"} /\ walk # {} /\ have' = have \cup {First}
        BY <1>5 DEF RunAgain, Store
    <2>2. walk \subseteq Node
        BY <2>1, LoopParts DEF FreshInv, Remains
    <2> QED
        BY <2>1, <2>2, FirstIs DEF Held
<1> QED
    BY <1>1, <1>2, <1>3, <1>4, <1>5
       DEF Next, GroupStep, Visit, MapRace, NextGroup, ItemStep, Spawn, StartItem, EndItem, ItemGoes,
           LoopStep, EndIteration, LeaveLoop, EndDownstream, RunAgainFails, ConditionFails,
           Complete, Over, vars, dataVars

\* When an execution inside a process completes, no node is left with a value that its
\* source has replaced since, whatever the loops are and however they overlap: a pass leaves
\* stale at most what is downstream of its body, and that runs again, in topological
\* order, before the next back-edge is looked at - for every validated graph.
THEOREM ValuesAreFresh == Spec => []Consistent
<1>1. Init => Typed /\ Turn /\ FreshInv /\ Held
    BY InitTyped, InitTurn, InitFresh DEF Init, Held
<1>2. Typed /\ Turn /\ FreshInv /\ Held /\ [Next]_vars => (Typed /\ Turn /\ FreshInv /\ Held)'
    BY TypesKept, TurnKept, FreshKept, HeldKept
<1>3. FreshInv /\ Held => Consistent
    <2> SUFFICES ASSUME FreshInv, Held, pc = "completed", NEW n \in have \ Inputs PROVE Fresh(n)
        BY DEF Consistent, Fresh
    <2> QED
        BY DEF FreshInv, Stale, Held
<1> QED
    BY <1>1, <1>2, <1>3, PTL DEF Spec

=============================================================================
