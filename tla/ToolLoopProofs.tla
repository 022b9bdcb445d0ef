--------------------------- MODULE ToolLoopProofs ---------------------------
(***************************************************************************)
(* Proofs about the tool loop of an LLM node, for any limits of rounds,    *)
(* calls and retries, any batch size and any other nodes in the group: the *)
(* types, that the list of results loses and doubles nothing while waiting *)
(* handlers take results from each other, and that a round trip continues  *)
(* with the answers to its own calls.                                      *)
(***************************************************************************)
EXTENDS ToolLoop, SequenceTheorems, FiniteSetTheorems, TLAPS

USE ToolLoopAssumption

\* What a list holds before and after an element is added or taken away.
LEMMA LenFacts ==
    ASSUME NEW S, NEW s \in Seq(S)
    PROVE  Len(s) \in Nat /\ DOMAIN s = 1 .. Len(s) /\ (s = << >> <=> Len(s) = 0) /\ ToSet(s) \subseteq S
BY DEF ToSet

LEMMA ToSetAppend ==
    ASSUME NEW S, NEW s \in Seq(S), NEW e \in S
    PROVE  /\ Append(s, e) \in Seq(S) /\ Len(Append(s, e)) = Len(s) + 1
           /\ ToSet(Append(s, e)) = ToSet(s) \cup {e}
<1> DEFINE t == Append(s, e)
<1>1. /\ t \in Seq(S) /\ Len(t) = Len(s) + 1 /\ Len(s) \in Nat
      /\ \A i \in 1 .. Len(s) : t[i] = s[i]
      /\ t[Len(s) + 1] = e
    BY AppendProperties, LenFacts
<1> HIDE DEF t
<1>2. ToSet(t) \subseteq ToSet(s) \cup {e}
    <2> SUFFICES ASSUME NEW i \in 1 .. Len(t) PROVE t[i] \in ToSet(s) \cup {e}
        BY <1>1 DEF ToSet
    <2>1. CASE i = Len(s) + 1
        BY <1>1, <2>1
    <2>2. CASE i # Len(s) + 1
        BY <1>1, <2>2 DEF ToSet
    <2> QED
        BY <2>1, <2>2
<1>3. ToSet(s) \cup {e} \subseteq ToSet(t)
    <2>1. Len(s) + 1 \in 1 .. Len(t) /\ \A i \in 1 .. Len(s) : i \in 1 .. Len(t)
        BY <1>1
    <2> QED
        BY <1>1, <2>1 DEF ToSet
<1> QED
    BY <1>1, <1>2, <1>3 DEF t

LEMMA ToSetTail ==
    ASSUME NEW S, NEW s \in Seq(S), s # << >>
    PROVE  /\ Head(s) \in S /\ Tail(s) \in Seq(S)
           /\ Len(Tail(s)) = Len(s) - 1 /\ Len(s) \in Nat \ {0}
           /\ ToSet(s) = {Head(s)} \cup ToSet(Tail(s))
<1> DEFINE t == Tail(s)
<1>1. /\ Head(s) \in S /\ t \in Seq(S) /\ Len(t) = Len(s) - 1 /\ Len(s) \in Nat \ {0}
      /\ \A i \in 1 .. Len(t) : t[i] = s[i + 1]
      /\ Head(s) = s[1] /\ DOMAIN s = 1 .. Len(s) /\ DOMAIN t = 1 .. Len(t)
    BY HeadTailProperties, LenFacts
<1> HIDE DEF t
<1>2. ToSet(s) \subseteq {Head(s)} \cup ToSet(t)
    <2> SUFFICES ASSUME NEW i \in 1 .. Len(s) PROVE s[i] \in {Head(s)} \cup ToSet(t)
        BY <1>1 DEF ToSet
    <2>1. CASE i = 1
        BY <1>1, <2>1
    <2>2. CASE i # 1
        <3>1. i - 1 \in 1 .. Len(t) /\ s[i] = t[i - 1]
            BY <1>1, <2>2
        <3> QED
            BY <1>1, <3>1 DEF ToSet
    <2> QED
        BY <2>1, <2>2
<1>3. {Head(s)} \cup ToSet(t) \subseteq ToSet(s)
    <2>1. 1 \in 1 .. Len(s) /\ \A i \in 1 .. Len(t) : i + 1 \in 1 .. Len(s)
        BY <1>1
    <2> QED
        BY <1>1, <2>1 DEF ToSet
<1> QED
    BY <1>1, <1>2, <1>3 DEF t

-----------------------------------------------------------------------------
(* The tasks.                                                              *)

\* Besides the types: what a task that waits for its tools may still count.
TaskOK(t) ==
    /\ t.iter <= MaxIterations /\ t.total <= MaxCalls
    /\ (t.hand # NoResult) = (t.at = "holding")
    /\ t.at = "tools" => t.iter < MaxIterations /\ t.total + t.asked <= MaxCalls

Typed ==
    /\ TypeOK
    /\ orch = "waiting" => Len(popped) < 1 + Cardinality(Other)
    /\ \A i \in DOMAIN llm : TaskOK(llm[i])
    /\ IsFiniteSet(pushed)

LEMMA QueuedTask ==
    ASSUME NEW k \in Nat, NEW n \in Nat, NEW r \in Nat, k <= MaxIterations, n <= MaxCalls
    PROVE  Queued(k, n, r) \in LLMTask /\ TaskOK(Queued(k, n, r))
BY DEF Queued, LLMTask, TaskOK, NoResult

LEMMA DoneTask == Done \in LLMTask /\ TaskOK(Done)
BY QueuedTask DEF Done, Queued, LLMTask, TaskOK, NoResult, ToolLoopAssumption

LEMMA TaskTyped ==
    ASSUME Typed, NEW i \in DOMAIN llm
    PROVE  llm[i] \in LLMTask /\ TaskOK(llm[i]) /\ i \in Nat
BY DEF Typed, TypeOK

\* A task goes on.
Goes(i, t) == llm' = [llm EXCEPT ![i] = t]

LEMMA Moved ==
    ASSUME Typed, NEW i \in DOMAIN llm, NEW t \in LLMTask, Goes(i, t)
    PROVE  /\ llm' \in Seq(LLMTask) /\ Len(llm') = Len(llm) /\ DOMAIN llm' = DOMAIN llm
           /\ \A j \in DOMAIN llm : llm'[j] = IF j = i THEN t ELSE llm[j]
BY DEF Typed, TypeOK, Goes

\* It goes on, and another one is queued.
GoesAndQueues(i, t, u) == llm' = Append([llm EXCEPT ![i] = t], u)

LEMMA MovedAndQueued ==
    ASSUME Typed, NEW i \in DOMAIN llm, NEW t \in LLMTask, NEW u \in LLMTask, GoesAndQueues(i, t, u)
    PROVE  /\ llm' \in Seq(LLMTask) /\ Len(llm') = Len(llm) + 1 /\ Len(llm) \in Nat
           /\ DOMAIN llm = 1 .. Len(llm) /\ DOMAIN llm' = 1 .. Len(llm) + 1
           /\ \A j \in DOMAIN llm : llm'[j] = IF j = i THEN t ELSE llm[j]
           /\ llm'[Len(llm) + 1] = u
<1> DEFINE s == [llm EXCEPT ![i] = t]
<1>1. /\ s \in Seq(LLMTask) /\ Len(s) = Len(llm) /\ Len(llm) \in Nat
      /\ DOMAIN llm = 1 .. Len(llm)
      /\ \A j \in DOMAIN llm : s[j] = IF j = i THEN t ELSE llm[j]
    BY DEF Typed, TypeOK
<1> HIDE DEF s
<1>2. /\ llm' \in Seq(LLMTask) /\ Len(llm') = Len(s) + 1
      /\ \A j \in 1 .. Len(s) : llm'[j] = s[j]
      /\ llm'[Len(s) + 1] = u
    BY <1>1, AppendProperties DEF GoesAndQueues, s
<1> QED
    BY <1>1, <1>2

\* What each step of a handler makes of its task.
LEMMA HandlerTask ==
    ASSUME Typed, NEW i \in DOMAIN llm
    PROVE  /\ Begin(i) => Goes(i, [llm[i] EXCEPT !.at = "calling"])
           /\ Retry(i) => Goes(i, [llm[i] EXCEPT !.at = "queued", !.try = @ + 1])
           /\ PopResult(i) => Goes(i, [llm[i] EXCEPT !.at = "holding", !.hand = Head(list)])
           /\ Answer(i) \/ Forward(i) \/ ToolsTimeout(i) => Goes(i, Done)
           /\ NextRoundFails(i) \/ WaitTimeout(i) \/ Crash(i) =>
                Goes(i, Queued(llm[i].iter, llm[i].total, llm[i].try))
           /\ NextRound(i) =>
                GoesAndQueues(i, [llm[i] EXCEPT !.at = "waiting"],
                              Queued(llm[i].iter + 1, llm[i].total + llm[i].asked, 0))
BY DEF Begin, Retry, PopResult, Answer, Forward, ToolsTimeout, NextRoundFails, WaitTimeout, Crash,
       NextRound, Return, Rerun, Goes, GoesAndQueues

LEMMA AskTask ==
    ASSUME Typed, NEW i \in DOMAIN llm, NEW n, NEW k
    PROVE  /\ StopAtLimit(i, n) \/ DispatchFails(i, n, k) => Goes(i, Done)
           /\ AskTools(i, n, k) =>
                Goes(i, [llm[i] EXCEPT !.at = "tools", !.calls = made + 1 .. made + k, !.asked = n])
BY DEF StopAtLimit, DispatchFails, AskTools, Return, Goes

LEMMA PopTask ==
    ASSUME Typed, NEW i \in DOMAIN llm, PopTool(i)
    PROVE  \E c \in answered[llm[i].iter] :
              /\ Goes(i, [llm[i] EXCEPT !.got = @ \cup {c}])
              /\ answered' = [answered EXCEPT ![llm[i].iter] = @ \ {c}]
BY DEF PopTool, Goes

LEMMA InitTyped == Init => Typed
<1> SUFFICES ASSUME Init PROVE Typed
    OBVIOUS
<1>1. Queued(0, 0, 0) \in LLMTask /\ TaskOK(Queued(0, 0, 0))
    BY QueuedTask DEF ToolLoopAssumption
<1>2. Cardinality(Other) \in Nat /\ IsFiniteSet({})
    BY FS_CardinalityType, FS_EmptySet DEF ToolLoopAssumption
<1>3. llm \in Seq(LLMTask) /\ \A i \in DOMAIN llm : TaskOK(llm[i])
    BY <1>1 DEF Init
<1>4. popped = << >> /\ Len(popped) = 0 /\ popped \in Seq(Result) /\ list \in Seq(Result)
    BY DEF Init
<1>5. \A i \in DOMAIN llm : /\ llm[i].iter <= MaxIterations /\ llm[i].total <= MaxCalls
                            /\ (llm[i].hand # NoResult) = (llm[i].at = "holding")
    BY <1>3 DEF TaskOK
<1>6. answered \in [0 .. MaxIterations -> SUBSET Nat]
    BY DEF Init
<1>7. Len(popped) <= 1 + Cardinality(Other) /\ Len(popped) < 1 + Cardinality(Other)
    BY <1>2, <1>4
<1>8. TypeOK
    BY <1>3, <1>4, <1>5, <1>6, <1>7 DEF Init, TypeOK
<1> QED
    BY <1>2, <1>3, <1>7, <1>8 DEF Init, Typed

LEMMA PushTyped ==
    ASSUME Typed, NEW node \in Other \cup {"llm"}, Push(node)
    PROVE  /\ list' \in Seq(Result) /\ pushed' \in SUBSET Result /\ IsFiniteSet(pushed')
<1> DEFINE r == [node |-> node, push |-> Cardinality(pushed)]
<1>1. r \in Result
    BY FS_CardinalityType DEF Typed, Result
<1>2. list' = Append(list, r) /\ pushed' = pushed \cup {r}
    BY DEF Push
<1> HIDE DEF r
<1>3. IsFiniteSet(pushed') /\ list' \in Seq(Result)
    BY <1>1, <1>2, FS_AddElement, ToSetAppend DEF Typed, TypeOK
<1> QED
    BY <1>1, <1>2, <1>3 DEF Typed, TypeOK

\* The tasks keep their types when they move to tasks of the right type.
LEMMA MovedTyped ==
    ASSUME Typed, NEW i \in DOMAIN llm, NEW t \in LLMTask, TaskOK(t),
           \/ Goes(i, t)
           \/ \E u \in LLMTask : TaskOK(u) /\ GoesAndQueues(i, t, u)
    PROVE  llm' \in Seq(LLMTask) /\ \A j \in DOMAIN llm' : TaskOK(llm'[j])
<1>1. CASE Goes(i, t)
    BY <1>1, Moved, TaskTyped
<1>2. ASSUME NEW u \in LLMTask, TaskOK(u), GoesAndQueues(i, t, u)
      PROVE  llm' \in Seq(LLMTask) /\ \A j \in DOMAIN llm' : TaskOK(llm'[j])
    <2>1. /\ llm' \in Seq(LLMTask) /\ Len(llm) \in Nat
          /\ DOMAIN llm = 1 .. Len(llm) /\ DOMAIN llm' = 1 .. Len(llm) + 1
          /\ \A j \in DOMAIN llm : llm'[j] = IF j = i THEN t ELSE llm[j]
          /\ llm'[Len(llm) + 1] = u
        BY <1>2, MovedAndQueued
    <2>2. ASSUME NEW j \in DOMAIN llm' PROVE TaskOK(llm'[j])
        <3>1. CASE j = Len(llm) + 1
            BY <1>2, <2>1, <3>1
        <3>2. CASE j # Len(llm) + 1
            <4>1. j \in DOMAIN llm
                BY <2>1, <3>2
            <4> QED
                BY <2>1, <4>1, TaskTyped
        <3> QED
            BY <3>1, <3>2
    <2> QED
        BY <2>1, <2>2
<1> QED
    BY <1>1, <1>2

\* A step of a handler moves its task and keeps the other types.
LEMMA TypedAgain ==
    ASSUME Typed, llm' \in Seq(LLMTask), \A j \in DOMAIN llm' : TaskOK(llm'[j]),
           UNCHANGED <<orch, popped, others>>,
           list' \in Seq(Result), pushed' \in SUBSET Result, IsFiniteSet(pushed'),
           tools' \in SUBSET ToolTask, answered' \in [0 .. MaxIterations -> SUBSET Nat],
           made' \in Nat, errors' \in Nat, crashed' \in BOOLEAN
    PROVE  Typed'
<1>1. \A j \in DOMAIN llm' : /\ llm'[j].iter <= MaxIterations /\ llm'[j].total <= MaxCalls
                             /\ (llm'[j].hand # NoResult) = (llm'[j].at = "holding")
    BY DEF TaskOK
<1>2. TypeOK'
    BY <1>1 DEF Typed, TypeOK
<1> QED
    BY <1>2 DEF Typed

\* A round that a task dispatches.
LEMMA CallsTyped ==
    ASSUME Typed, NEW i \in DOMAIN llm, NEW k \in Nat
    PROVE  /\ {[call |-> c, iter |-> llm[i].iter, at |-> "queued"] : c \in made + 1 .. made + k}
                \in SUBSET ToolTask
           /\ made + 1 .. made + k \in SUBSET Nat /\ made + k \in Nat
<1>1. made \in Nat /\ llm[i].iter \in Nat
    BY TaskTyped DEF Typed, TypeOK, LLMTask
<1> QED
    BY <1>1 DEF ToolTask

LEMMA HandlerTyped ==
    ASSUME Typed, NEW i \in DOMAIN llm, Handler(i) \/ HandlerError(i)
    PROVE  Typed'
<1> DEFINE t == llm[i]
<1>1. /\ t \in LLMTask /\ TaskOK(t)
      /\ t.iter \in Nat /\ t.total \in Nat /\ t.try \in Nat /\ t.asked \in Nat
      /\ t.iter <= MaxIterations /\ t.total <= MaxCalls
    BY TaskTyped DEF LLMTask, TaskOK, Running
<1>2. /\ list \in Seq(Result) /\ pushed \in SUBSET Result /\ IsFiniteSet(pushed)
      /\ tools \in SUBSET ToolTask /\ answered \in [0 .. MaxIterations -> SUBSET Nat]
      /\ made \in Nat /\ errors \in Nat /\ errors + 1 \in Nat /\ crashed \in BOOLEAN
      /\ MaxIterations \in Nat /\ MaxCalls \in Nat
    BY DEF Typed, TypeOK, ToolLoopAssumption
<1>3. Queued(t.iter, t.total, t.try) \in LLMTask /\ TaskOK(Queued(t.iter, t.total, t.try))
    BY <1>1, QueuedTask
<1> DEFINE Good == llm' \in Seq(LLMTask) /\ \A j \in DOMAIN llm' : TaskOK(llm'[j])
<1> HIDE DEF t
<1>4. ASSUME NEW u \in LLMTask, TaskOK(u), Goes(i, u) PROVE Good
    BY <1>4, MovedTyped
<1> HIDE DEF Good
<1>5. CASE Begin(i)
    <2>1. t.at = "queued" /\ [t EXCEPT !.at = "calling"] \in LLMTask /\ TaskOK([t EXCEPT !.at = "calling"])
        BY <1>1, <1>5 DEF Begin, t, LLMTask, TaskOK, Running
    <2>2. Good
        BY <1>4, <1>5, <2>1, HandlerTask DEF t
    <2> QED
        BY <1>2, <1>5, <2>2, TypedAgain DEF Begin, Good
<1>6. CASE Answer(i) \/ Forward(i) \/ ToolsTimeout(i) \/ \E n, k \in 0 .. MaxBatch : StopAtLimit(i, n) \/ DispatchFails(i, n, k)
    <2>1. Good
        BY <1>4, <1>6, DoneTask, HandlerTask, AskTask
    <2>2. CASE Forward(i)
        <3>1. t.hand \in Result /\ list' = Append(list, t.hand)
            BY <1>1, <2>2 DEF Forward, TaskOK, LLMTask, t
        <3>2. list' \in Seq(Result)
            BY <1>2, <3>1, ToSetAppend
        <3> QED
            BY <1>2, <2>1, <2>2, <3>2, TypedAgain DEF Forward, Good
    <2>3. CASE Answer(i)
        BY <1>2, <2>1, <2>3, PushTyped, TypedAgain DEF Answer, Good
    <2>4. CASE ToolsTimeout(i)
        BY <1>2, <2>1, <2>4, PushTyped, TypedAgain DEF ToolsTimeout, Good
    <2>5. ASSUME NEW n, StopAtLimit(i, n) PROVE Typed'
        BY <1>2, <2>1, <2>5, PushTyped, TypedAgain DEF StopAtLimit, Good
    <2>6. ASSUME NEW n, NEW k \in 0 .. MaxBatch, DispatchFails(i, n, k) PROVE Typed'
        <3>1. tools' \in SUBSET ToolTask /\ made' \in Nat
            <4>1. k \in Nat
                BY DEF ToolLoopAssumption
            <4> QED
                BY <1>2, <2>6, <4>1, CallsTyped DEF DispatchFails
        <3> QED
            BY <1>2, <2>1, <2>6, <3>1, PushTyped, TypedAgain DEF DispatchFails, Good
    <2> QED
        BY <1>6, <2>2, <2>3, <2>4, <2>5, <2>6
<1>7. CASE Retry(i)
    <2> DEFINE u == [t EXCEPT !.at = "queued", !.try = @ + 1]
    <2>1. u \in LLMTask /\ TaskOK(u)
        BY <1>1, <1>7 DEF Retry, t, LLMTask, TaskOK, Running
    <2>2. Good
        BY <1>4, <1>7, <2>1, HandlerTask DEF t
    <2> QED
        BY <1>2, <1>7, <2>2, TypedAgain DEF Retry, Good
<1>8. ASSUME NEW n \in 1 .. MaxBatch, NEW k \in 0 .. n, AskTools(i, n, k) PROVE Typed'
    <2> DEFINE u == [t EXCEPT !.at = "tools", !.calls = made + 1 .. made + k, !.asked = n]
    <2>0. n \in Nat /\ k \in Nat
        BY DEF ToolLoopAssumption
    <2>1. /\ t.at = "calling" /\ t.iter < MaxIterations
          /\ t.total + n <= MaxCalls
        <3>1. t.at = "calling" /\ ~ LimitReached(t, n)
            BY <1>8 DEF AskTools, t
        <3>2. ~(t.iter >= MaxIterations) /\ ~(t.total + n > MaxCalls)
            BY <3>1 DEF LimitReached
        <3> QED
            BY <1>1, <1>2, <2>0, <3>1, <3>2
    <2>2. made + 1 .. made + k \in SUBSET Nat
        BY <2>0, CallsTyped
    <2>3. u \in LLMTask /\ TaskOK(u)
        BY <1>1, <2>0, <2>1, <2>2 DEF LLMTask, TaskOK, Running
    <2>4. Good
        BY <1>4, <1>8, <2>3, AskTask DEF t
    <2>5. tools' \in SUBSET ToolTask /\ made' \in Nat
        BY <1>2, <1>8, <2>0, CallsTyped DEF AskTools
    <2> QED
        BY <1>2, <1>8, <2>4, <2>5, TypedAgain DEF AskTools, Good
<1>9. CASE PopTool(i)
    <2>1. t.iter \in 0 .. MaxIterations
        BY <1>1, <1>2
    <2>2. PICK c \in answered[t.iter] :
              /\ Goes(i, [t EXCEPT !.got = @ \cup {c}])
              /\ answered' = [answered EXCEPT ![t.iter] = @ \ {c}]
        BY <1>9, PopTask DEF t
    <2>3. answered[t.iter] \in SUBSET Nat /\ answered' \in [0 .. MaxIterations -> SUBSET Nat]
        BY <1>2, <2>1, <2>2
    <2>4. [t EXCEPT !.got = @ \cup {c}] \in LLMTask /\ TaskOK([t EXCEPT !.got = @ \cup {c}])
        BY <1>1, <2>3 DEF LLMTask, TaskOK, Running
    <2>5. Good
        BY <1>4, <2>2, <2>4
    <2> QED
        BY <1>2, <1>9, <2>3, <2>5, TypedAgain DEF PopTool, Good
<1>10. CASE NextRound(i)
    <2> DEFINE u == [t EXCEPT !.at = "waiting"]
               w == Queued(t.iter + 1, t.total + t.asked, 0)
    <2>1. t.at = "tools" /\ t.iter < MaxIterations /\ t.total + t.asked <= MaxCalls /\ t.hand = NoResult
        <3>1. t.at = "tools"
            BY <1>10 DEF NextRound, t
        <3> QED
            BY <1>1, <3>1 DEF TaskOK
    <2>2. u \in LLMTask /\ TaskOK(u)
        BY <1>1, <2>1 DEF LLMTask, TaskOK, Running
    <2>3. w \in LLMTask /\ TaskOK(w)
        BY <1>1, <1>2, <2>1, QueuedTask
    <2>4. GoesAndQueues(i, u, w)
        BY <1>10, HandlerTask DEF t
    <2> HIDE DEF u, w
    <2>5. Good
        BY <2>2, <2>3, <2>4, MovedTyped DEF Good
    <2>6. answered' \in [0 .. MaxIterations -> SUBSET Nat]
        BY <1>2, <1>10 DEF NextRound
    <2> QED
        BY <1>2, <1>10, <2>5, <2>6, TypedAgain DEF NextRound, Good
<1>11. CASE NextRoundFails(i) \/ WaitTimeout(i) \/ Crash(i)
    <2>1. Good
        BY <1>3, <1>4, <1>11, HandlerTask DEF t
    <2>2. answered' \in [0 .. MaxIterations -> SUBSET Nat]
        BY <1>2, <1>11 DEF NextRoundFails, WaitTimeout, Crash
    <2> QED
        BY <1>2, <1>11, <2>1, <2>2, TypedAgain DEF NextRoundFails, WaitTimeout, Crash, Good
<1>12. CASE PopResult(i)
    <2> DEFINE u == [t EXCEPT !.at = "holding", !.hand = Head(list)]
    <2>1. Head(list) \in Result /\ Tail(list) \in Seq(Result) /\ NoResult \notin Result
        <3>1. Head(list) \in Result /\ Tail(list) \in Seq(Result)
            BY <1>2, <1>12, ToSetTail DEF PopResult
        <3>2. "none" \notin Other \cup {"llm"}
            BY DEF ToolLoopAssumption
        <3> QED
            BY <3>1, <3>2 DEF Result, NoResult
    <2>2. u \in LLMTask /\ TaskOK(u)
        BY <1>1, <2>1 DEF LLMTask, TaskOK, Running
    <2>3. Good
        BY <1>4, <1>12, <2>2, HandlerTask DEF t
    <2> QED
        BY <1>2, <1>12, <2>1, <2>3, TypedAgain DEF PopResult, Good
<1>13. MaxBatch \in Nat /\ \A n \in 1 .. MaxBatch : n \in 0 .. MaxBatch /\ 0 .. n \subseteq 0 .. MaxBatch
    BY DEF ToolLoopAssumption
<1> QED
    BY <1>5, <1>6, <1>7, <1>8, <1>9, <1>10, <1>11, <1>12, <1>13 DEF Handler, HandlerError

\* The tool tasks, the other nodes and the orchestrator.
LEMMA ToolTyped ==
    ASSUME Typed, NEW t \in tools, BeginTool(t) \/ EndTool(t)
    PROVE  Typed' /\ UNCHANGED <<orch, popped, list, llm, pushed, crashed>>
<1>1. /\ t \in ToolTask /\ tools \in SUBSET ToolTask
      /\ answered \in [0 .. MaxIterations -> SUBSET Nat]
    BY DEF Typed, TypeOK
<1>2. UNCHANGED <<orch, popped, list, llm, others, pushed, made, errors, crashed>>
    BY DEF BeginTool, EndTool
<1>3. tools' \in SUBSET ToolTask
    BY <1>1 DEF BeginTool, EndTool, ToolTask
<1>4. answered' \in [0 .. MaxIterations -> SUBSET Nat]
    <2>1. CASE BeginTool(t)
        BY <1>1, <2>1 DEF BeginTool
    <2>2. CASE EndTool(t)
        <3>1. t.call \in Nat /\ answered' = [answered EXCEPT ![t.iter] = @ \cup {t.call}]
            BY <1>1, <2>2 DEF EndTool, ToolTask
        <3> QED
            BY <1>1, <3>1
    <2> QED
        BY <2>1, <2>2
<1> QED
    BY <1>2, <1>3, <1>4 DEF Typed, TypeOK, TaskOK

LEMMA OtherTyped ==
    ASSUME Typed, NEW n \in Other, OtherNode(n)
    PROVE  Typed'
<1>1. list' \in Seq(Result) /\ pushed' \in SUBSET Result /\ IsFiniteSet(pushed')
    BY PushTyped DEF OtherNode
<1>2. others' \subseteq Other /\ UNCHANGED <<orch, popped, llm, tools, answered, made, errors, crashed>>
    BY DEF OtherNode, Typed, TypeOK
<1> QED
    BY <1>1, <1>2 DEF Typed, TypeOK, TaskOK

LEMMA CollectTyped ==
    ASSUME Typed, Collect
    PROVE  Typed'
<1>1. /\ popped \in Seq(Result) /\ list \in Seq(Result) /\ list # << >>
      /\ Len(popped) < 1 + Cardinality(Other) /\ Cardinality(Other) \in Nat
    BY FS_CardinalityType DEF Collect, Typed, TypeOK, ToolLoopAssumption
<1>2. /\ Head(list) \in Result /\ Tail(list) \in Seq(Result) /\ << >> \in Seq(Result)
    BY <1>1, ToSetTail
<1>3. popped' \in Seq(Result) /\ Len(popped') = Len(popped) + 1 /\ Len(popped) \in Nat
    BY <1>1, <1>2, ToSetAppend, LenFacts DEF Collect
<1>4. /\ list' \in Seq(Result)
      /\ \/ orch' = "done"
         \/ orch' = orch /\ Len(popped') # 1 + Cardinality(Other)
      /\ UNCHANGED <<llm, tools, answered, others, pushed, made, errors, crashed>>
    BY <1>2 DEF Collect
<1>5. Len(popped') <= 1 + Cardinality(Other)
    BY <1>1, <1>3
<1>6. orch' = "waiting" => Len(popped') < 1 + Cardinality(Other)
    BY <1>3, <1>4, <1>5, <1>1
<1> QED
    BY <1>3, <1>4, <1>5, <1>6 DEF Typed, TypeOK, TaskOK

LEMMA TypesKept == Typed /\ [Next]_vars => Typed'
<1> SUFFICES ASSUME Typed, [Next]_vars PROVE Typed'
    OBVIOUS
<1>1. CASE UNCHANGED vars
    BY <1>1 DEF vars, Typed, TypeOK, TaskOK
<1> QED
    BY <1>1, HandlerTyped, ToolTyped, OtherTyped, CollectTyped DEF Next

\* The counters of a request stay within its limits, the orchestrator consumes no more
\* results than the group has nodes, and only a handler that holds a result has one.
THEOREM TypeCorrect == Spec => []TypeOK
<1>1. Typed => TypeOK
    BY DEF Typed
<1> QED
    BY <1>1, InitTyped, TypesKept, PTL DEF Spec

-----------------------------------------------------------------------------
(* The results.                                                            *)

HoldingAt == {i \in DOMAIN llm : llm[i].at = "holding"}

\* The pushes are numbered, so that a new one is unlike the others.
Numbered == \A r \in pushed : r.push < Cardinality(pushed)

LEMMA HoldingFinite ==
    ASSUME Typed
    PROVE  IsFiniteSet(HoldingAt) /\ Cardinality(HoldingAt) \in Nat
<1>1. Len(llm) \in Nat /\ DOMAIN llm = 1 .. Len(llm)
    BY DEF Typed, TypeOK
<1>2. IsFiniteSet(1 .. Len(llm)) /\ HoldingAt \subseteq 1 .. Len(llm)
    BY <1>1, FS_Interval DEF HoldingAt
<1> QED
    BY <1>2, FS_Subset, FS_CardinalityType

\* What NoResultLost says, with the names used here.
Kept ==
    ~crashed /\ orch = "waiting" =>
        /\ pushed = ToSet(popped) \cup ToSet(list) \cup Holding
        /\ Cardinality(pushed) = Len(popped) + Len(list) + Cardinality(HoldingAt)

LEMMA KeptIs == Kept <=> NoResultLost
BY DEF Kept, NoResultLost, HoldingAt

\* A step of a task that holds nothing, to one that holds nothing.
LEMMA NothingInHand ==
    ASSUME Typed, NEW i \in DOMAIN llm, NEW t \in LLMTask,
           llm[i].at # "holding", t.at # "holding",
           \/ Goes(i, t)
           \/ \E u \in LLMTask : u.at # "holding" /\ GoesAndQueues(i, t, u)
    PROVE  HoldingAt' = HoldingAt /\ Holding' = Holding
<1>1. /\ \A j \in DOMAIN llm : j \in DOMAIN llm' /\ llm'[j] = IF j = i THEN t ELSE llm[j]
      /\ \A j \in DOMAIN llm' : j \notin DOMAIN llm => llm'[j].at # "holding"
    <2>1. CASE Goes(i, t)
        BY <2>1, Moved
    <2>2. ASSUME NEW u \in LLMTask, u.at # "holding", GoesAndQueues(i, t, u)
          PROVE  /\ \A j \in DOMAIN llm : j \in DOMAIN llm' /\ llm'[j] = IF j = i THEN t ELSE llm[j]
                 /\ \A j \in DOMAIN llm' : j \notin DOMAIN llm => llm'[j].at # "holding"
        <3>1. /\ Len(llm) \in Nat /\ DOMAIN llm = 1 .. Len(llm) /\ DOMAIN llm' = 1 .. Len(llm) + 1
              /\ \A j \in DOMAIN llm : llm'[j] = IF j = i THEN t ELSE llm[j]
              /\ llm'[Len(llm) + 1] = u
            BY <2>2, MovedAndQueued
        <3>2. \A j \in DOMAIN llm' : j \notin DOMAIN llm => j = Len(llm) + 1
            BY <3>1
        <3>3. \A j \in DOMAIN llm : j \in DOMAIN llm'
            BY <3>1
        <3> QED
            BY <2>2, <3>1, <3>2, <3>3
    <2> QED
        BY <2>1, <2>2
<1>2. HoldingAt' = HoldingAt
    BY <1>1 DEF HoldingAt
<1>3. \A j \in HoldingAt : llm'[j] = llm[j]
    BY <1>1 DEF HoldingAt
<1>4. Holding = {llm[j].hand : j \in HoldingAt} /\ Holding' = {llm'[j].hand : j \in HoldingAt'}
    BY DEF Holding, HoldingAt
<1> QED
    BY <1>2, <1>3, <1>4

\* A step that touches neither the lists nor the hands.
LEMMA KeptInPlace ==
    ASSUME Numbered, Kept, UNCHANGED <<popped, list, pushed, orch>>,
           crashed => crashed', HoldingAt' = HoldingAt, Holding' = Holding
    PROVE  Numbered' /\ Kept'
BY DEF Numbered, Kept

\* A push of a new result.
LEMMA KeptByPush ==
    ASSUME Typed, Numbered, Kept, NEW node \in Other \cup {"llm"}, Push(node),
           UNCHANGED <<popped, orch, crashed>>, HoldingAt' = HoldingAt, Holding' = Holding
    PROVE  Numbered' /\ Kept'
<1> DEFINE r == [node |-> node, push |-> Cardinality(pushed)]
<1>1. /\ IsFiniteSet(pushed) /\ Cardinality(pushed) \in Nat /\ list \in Seq(Result)
      /\ popped \in Seq(Result) /\ pushed \in SUBSET Result
    BY FS_CardinalityType DEF Typed, TypeOK
<1>2. r \in Result /\ r.push = Cardinality(pushed)
    BY <1>1 DEF Result
<1>3. list' = Append(list, r) /\ pushed' = pushed \cup {r}
    BY DEF Push
<1> HIDE DEF r
<1>4. r \notin pushed
    BY <1>1, <1>2 DEF Numbered
<1>5. Cardinality(pushed') = Cardinality(pushed) + 1
    BY <1>1, <1>3, <1>4, FS_AddElement
<1>6. Numbered'
    <2> SUFFICES ASSUME NEW x \in pushed' PROVE x.push < Cardinality(pushed')
        BY DEF Numbered
    <2>1. CASE x \in pushed
        <3>1. x.push < Cardinality(pushed) /\ x.push \in Nat
            BY <1>1, <2>1 DEF Numbered, Result
        <3> QED
            BY <1>1, <1>5, <3>1
    <2>2. CASE x = r
        BY <1>1, <1>2, <1>5, <2>2
    <2> QED
        BY <1>3, <2>1, <2>2
<1>7. ToSet(list') = ToSet(list) \cup {r} /\ Len(list') = Len(list) + 1
    BY <1>1, <1>2, <1>3, ToSetAppend
<1>8. Len(popped) \in Nat /\ Len(list) \in Nat /\ Cardinality(HoldingAt) \in Nat
    BY <1>1, LenFacts, HoldingFinite
<1>9. Kept'
    <2> SUFFICES ASSUME ~crashed, orch = "waiting"
                 PROVE  /\ pushed' = ToSet(popped) \cup ToSet(list') \cup Holding
                        /\ Cardinality(pushed') = Len(popped) + Len(list') + Cardinality(HoldingAt)
        BY DEF Kept
    <2>1. /\ pushed = ToSet(popped) \cup ToSet(list) \cup Holding
          /\ Cardinality(pushed) = Len(popped) + Len(list) + Cardinality(HoldingAt)
        BY DEF Kept
    <2>2. pushed' = ToSet(popped) \cup ToSet(list') \cup Holding
        BY <1>3, <1>7, <2>1
    <2>3. Cardinality(pushed') = Len(popped) + Len(list') + Cardinality(HoldingAt)
        BY <1>5, <1>7, <1>8, <2>1
    <2> QED
        BY <2>2, <2>3
<1> QED
    BY <1>6, <1>9

\* A handler takes the oldest result in hand.
LEMMA KeptByPop ==
    ASSUME Typed, Numbered, Kept, NEW i \in DOMAIN llm, PopResult(i)
    PROVE  Numbered' /\ Kept'
<1> DEFINE h == Head(list)
           t == [llm[i] EXCEPT !.at = "holding", !.hand = h]
<1>1. /\ llm[i].at = "waiting" /\ list # << >> /\ list' = Tail(list) /\ Goes(i, t)
      /\ UNCHANGED <<orch, popped, pushed, crashed>>
    BY HandlerTask DEF PopResult
<1>2. /\ list \in Seq(Result) /\ h \in Result /\ Len(list') = Len(list) - 1 /\ Len(list) \in Nat \ {0}
      /\ ToSet(list) = {h} \cup ToSet(list')
    BY <1>1, ToSetTail DEF Typed, TypeOK
<1>3. t \in LLMTask /\ t.at = "holding" /\ t.hand = h
    BY <1>2, TaskTyped DEF LLMTask, Running
<1> HIDE DEF t, h
<1>4. DOMAIN llm' = DOMAIN llm /\ \A j \in DOMAIN llm : llm'[j] = IF j = i THEN t ELSE llm[j]
    BY <1>1, <1>3, Moved
<1>5. HoldingAt' = HoldingAt \cup {i} /\ i \notin HoldingAt
    BY <1>1, <1>3, <1>4 DEF HoldingAt
<1>6. Holding' = Holding \cup {h}
    <2>1. Holding = {llm[j].hand : j \in HoldingAt} /\ Holding' = {llm'[j].hand : j \in HoldingAt'}
        BY DEF Holding, HoldingAt
    <2>2. \A j \in HoldingAt : llm'[j] = llm[j]
        BY <1>4, <1>5 DEF HoldingAt
    <2>3. llm'[i].hand = h
        BY <1>3, <1>4
    <2> QED
        BY <1>5, <2>1, <2>2, <2>3
<1>7. Cardinality(HoldingAt') = Cardinality(HoldingAt) + 1 /\ Cardinality(HoldingAt) \in Nat
    BY <1>5, HoldingFinite, FS_AddElement
<1>8. Len(popped) \in Nat
    BY LenFacts DEF Typed, TypeOK
<1>9. Kept'
    <2> SUFFICES ASSUME ~crashed, orch = "waiting"
                 PROVE  /\ pushed = ToSet(popped) \cup ToSet(list') \cup Holding'
                        /\ Cardinality(pushed) = Len(popped) + Len(list') + Cardinality(HoldingAt')
        BY <1>1 DEF Kept
    <2>1. /\ pushed = ToSet(popped) \cup ToSet(list) \cup Holding
          /\ Cardinality(pushed) = Len(popped) + Len(list) + Cardinality(HoldingAt)
        BY DEF Kept
    <2>2. Cardinality(pushed) = Len(popped) + Len(list') + Cardinality(HoldingAt')
        BY <1>2, <1>7, <1>8, <2>1
    <2> QED
        BY <1>2, <1>6, <2>1, <2>2
<1> QED
    BY <1>1, <1>9 DEF Numbered

\* It pushes it back.
LEMMA KeptByForward ==
    ASSUME Typed, Numbered, Kept, NEW i \in DOMAIN llm, Forward(i)
    PROVE  Numbered' /\ Kept'
<1> DEFINE h == llm[i].hand
<1>1. /\ llm[i].at = "holding" /\ list' = Append(list, h) /\ Goes(i, Done)
      /\ UNCHANGED <<orch, popped, pushed, crashed>>
    BY HandlerTask DEF Forward
<1>2. h \in Result /\ list \in Seq(Result) /\ Len(list) \in Nat /\ Len(popped) \in Nat
    BY <1>1, TaskTyped, LenFacts DEF TaskOK, LLMTask, Typed, TypeOK
<1>3. Len(list') = Len(list) + 1 /\ ToSet(list') = ToSet(list) \cup {h}
    BY <1>1, <1>2, ToSetAppend
<1>4. DOMAIN llm' = DOMAIN llm /\ \A j \in DOMAIN llm : llm'[j] = IF j = i THEN Done ELSE llm[j]
    BY <1>1, DoneTask, Moved
<1>5. HoldingAt = HoldingAt' \cup {i} /\ i \notin HoldingAt'
    BY <1>1, <1>4 DEF HoldingAt, Done, Queued
<1>6. Holding = Holding' \cup {h}
    <2>1. Holding = {llm[j].hand : j \in HoldingAt} /\ Holding' = {llm'[j].hand : j \in HoldingAt'}
        BY DEF Holding, HoldingAt
    <2>2. \A j \in HoldingAt' : llm'[j] = llm[j]
        BY <1>4, <1>5 DEF HoldingAt
    <2> QED
        BY <1>5, <2>1, <2>2
<1>7. Cardinality(HoldingAt) = Cardinality(HoldingAt') + 1 /\ Cardinality(HoldingAt') \in Nat
    <2>1. IsFiniteSet(HoldingAt) /\ HoldingAt' = HoldingAt \ {i} /\ i \in HoldingAt
        BY <1>5, HoldingFinite
    <2>2. IsFiniteSet(HoldingAt')
        BY <2>1, FS_Subset
    <2> QED
        BY <1>5, <2>2, FS_AddElement, FS_CardinalityType
<1> HIDE DEF h
<1> QED
    BY <1>1, <1>2, <1>3, <1>6, <1>7 DEF Kept, Numbered

\* The orchestrator consumes one; with the last of them the list goes, and the promise too.
LEMMA KeptByCollect ==
    ASSUME Typed, Numbered, Kept, Collect
    PROVE  Numbered' /\ Kept'
<1> DEFINE h == Head(list)
<1>1. /\ list # << >> /\ orch = "waiting" /\ popped' = Append(popped, h)
      /\ UNCHANGED <<llm, pushed, crashed>>
      /\ orch' = "done" \/ (orch' = orch /\ list' = Tail(list))
    BY DEF Collect
<1>2. /\ list \in Seq(Result) /\ popped \in Seq(Result) /\ h \in Result
      /\ Len(Tail(list)) = Len(list) - 1 /\ Len(list) \in Nat \ {0}
      /\ ToSet(list) = {h} \cup ToSet(Tail(list))
    BY <1>1, ToSetTail DEF Typed, TypeOK
<1> HIDE DEF h
<1>3. Len(popped') = Len(popped) + 1 /\ ToSet(popped') = ToSet(popped) \cup {h} /\ Len(popped) \in Nat
    BY <1>1, <1>2, ToSetAppend, LenFacts
<1>4. HoldingAt' = HoldingAt /\ Holding' = Holding /\ Cardinality(HoldingAt) \in Nat
    BY <1>1, HoldingFinite DEF HoldingAt, Holding
<1>5. CASE orch' = "done"
    BY <1>1, <1>5 DEF Kept, Numbered
<1>6. CASE orch' = orch /\ list' = Tail(list)
    BY <1>1, <1>2, <1>3, <1>4, <1>6 DEF Kept, Numbered
<1> QED
    BY <1>1, <1>5, <1>6

LEMMA HandlerKeeps ==
    ASSUME Typed, Numbered, Kept, NEW i \in DOMAIN llm, Handler(i) \/ HandlerError(i)
    PROVE  Numbered' /\ Kept'
<1> DEFINE t == llm[i]
           Rest == HoldingAt' = HoldingAt /\ Holding' = Holding
<1>1. /\ t \in LLMTask /\ t.iter \in Nat /\ t.total \in Nat /\ t.try \in Nat /\ t.asked \in Nat
      /\ t.iter <= MaxIterations /\ t.total <= MaxCalls
    BY TaskTyped DEF LLMTask, TaskOK
<1>2. Done \in LLMTask /\ Done.at # "holding"
    BY DoneTask DEF Done, Queued
<1>3. ASSUME NEW u \in LLMTask, t.at # "holding", u.at # "holding", Goes(i, u) PROVE Rest
    BY <1>3, NothingInHand
<1>4. CASE Begin(i)
    <2>1. [t EXCEPT !.at = "calling"] \in LLMTask
        BY <1>1 DEF LLMTask, Running
    <2>2. Rest
        BY <1>1, <1>3, <1>4, <2>1, HandlerTask DEF Begin, LLMTask
    <2> QED
        BY <1>4, <2>2, KeptInPlace DEF Begin
<1>5. CASE Answer(i) \/ ToolsTimeout(i)
    <2>1. Rest
        BY <1>2, <1>3, <1>5, HandlerTask DEF Answer, ToolsTimeout
    <2> QED
        BY <1>5, <2>1, KeptByPush DEF Answer, ToolsTimeout
<1>6. ASSUME NEW n, NEW k, StopAtLimit(i, n) \/ DispatchFails(i, n, k) PROVE Numbered' /\ Kept'
    <2>1. Rest
        BY <1>2, <1>3, <1>6, AskTask DEF StopAtLimit, DispatchFails
    <2> QED
        BY <1>6, <2>1, KeptByPush DEF StopAtLimit, DispatchFails
<1>7. CASE Retry(i)
    <2> DEFINE u == [t EXCEPT !.at = "queued", !.try = @ + 1]
    <2>1. Goes(i, u) /\ t.at # "holding"
        BY <1>7, HandlerTask DEF Retry
    <2> HIDE DEF t
    <2>2. u \in LLMTask
        <3>1. t.try + 1 \in Nat /\ t \in LLMTask
            BY <1>1
        <3> QED
            BY <3>1 DEF LLMTask, Running
    <2>3. u.at = "queued"
        BY <1>1 DEF LLMTask
    <2> HIDE DEF u
    <2>4. Rest
        BY <1>3, <2>1, <2>2, <2>3
    <2> QED
        BY <1>7, <2>4, KeptInPlace DEF Retry
<1>8. ASSUME NEW n \in 1 .. MaxBatch, NEW k \in 0 .. n, AskTools(i, n, k) PROVE Numbered' /\ Kept'
    <2> DEFINE u == [t EXCEPT !.at = "tools", !.calls = made + 1 .. made + k, !.asked = n]
    <2>1. n \in Nat /\ k \in Nat
        BY DEF ToolLoopAssumption
    <2>2. made + 1 .. made + k \in SUBSET Nat
        BY <2>1, CallsTyped
    <2>3. u \in LLMTask /\ u.at = "tools"
        BY <1>1, <2>1, <2>2 DEF LLMTask, Running
    <2>4. t.at = "calling" /\ Goes(i, u)
        BY <1>8, AskTask DEF AskTools
    <2>5. Rest
        BY <1>3, <2>3, <2>4
    <2> QED
        BY <1>8, <2>5, KeptInPlace DEF AskTools
<1>9. CASE PopTool(i)
    <2>1. PICK c \in answered[t.iter] : Goes(i, [t EXCEPT !.got = @ \cup {c}])
        BY <1>9, PopTask
    <2>2. c \in Nat
        BY <1>1, <2>1 DEF Typed, TypeOK, ToolLoopAssumption
    <2>3. [t EXCEPT !.got = @ \cup {c}] \in LLMTask /\ [t EXCEPT !.got = @ \cup {c}].at = t.at
        BY <1>1, <2>2 DEF LLMTask
    <2>4. Rest
        BY <1>3, <1>9, <2>1, <2>3 DEF PopTool
    <2> QED
        BY <1>9, <2>4, KeptInPlace DEF PopTool
<1>10. CASE NextRound(i)
    <2> DEFINE u == [t EXCEPT !.at = "waiting"]
               w == Queued(t.iter + 1, t.total + t.asked, 0)
    <2>1. t.at = "tools" /\ GoesAndQueues(i, u, w)
        BY <1>10, HandlerTask DEF NextRound
    <2>2. t.iter < MaxIterations /\ t.total + t.asked <= MaxCalls /\ MaxIterations \in Nat
        BY <2>1, TaskTyped DEF TaskOK, ToolLoopAssumption
    <2>3. u \in LLMTask /\ u.at = "waiting"
        BY <1>1 DEF LLMTask, Running
    <2>4. w \in LLMTask /\ w.at = "queued"
        BY <1>1, <2>2, QueuedTask DEF Queued
    <2> HIDE DEF u, w
    <2>5. Rest
        BY <2>1, <2>3, <2>4, NothingInHand
    <2> QED
        BY <1>10, <2>5, KeptInPlace DEF NextRound
<1>11. CASE NextRoundFails(i) \/ WaitTimeout(i)
    <2> DEFINE u == Queued(t.iter, t.total, t.try)
    <2>1. u \in LLMTask /\ u.at = "queued"
        BY <1>1, QueuedTask DEF Queued
    <2>2. Goes(i, u) /\ t.at # "holding"
        BY <1>11, HandlerTask DEF NextRoundFails, WaitTimeout
    <2>3. Rest
        BY <1>3, <2>1, <2>2
    <2> QED
        BY <1>11, <2>3, KeptInPlace DEF NextRoundFails, WaitTimeout
<1>12. CASE Crash(i)
    BY <1>12 DEF Crash, Kept, Numbered
<1> QED
    BY <1>4, <1>5, <1>6, <1>7, <1>8, <1>9, <1>10, <1>11, <1>12, KeptByPop, KeptByForward
       DEF Handler, HandlerError

LEMMA ResultsKept == Typed /\ Numbered /\ Kept /\ [Next]_vars => Numbered' /\ Kept'
<1> SUFFICES ASSUME Typed, Numbered, Kept, [Next]_vars PROVE Numbered' /\ Kept'
    OBVIOUS
<1>1. CASE UNCHANGED vars
    BY <1>1 DEF vars, Numbered, Kept, HoldingAt, Holding
<1>2. ASSUME NEW t \in tools, BeginTool(t) \/ EndTool(t) PROVE Numbered' /\ Kept'
    <2>1. UNCHANGED <<orch, popped, list, llm, pushed, crashed>>
        BY <1>2, ToolTyped
    <2> QED
        BY <2>1 DEF Numbered, Kept, HoldingAt, Holding
<1>3. ASSUME NEW n \in Other, OtherNode(n) PROVE Numbered' /\ Kept'
    <2>1. HoldingAt' = HoldingAt /\ Holding' = Holding
        BY <1>3 DEF OtherNode, HoldingAt, Holding
    <2> QED
        BY <1>3, <2>1, KeptByPush DEF OtherNode
<1> QED
    BY <1>1, <1>2, <1>3, HandlerKeeps, KeptByCollect DEF Next

LEMMA InitKept == Init => Numbered /\ Kept
<1> SUFFICES ASSUME Init PROVE Numbered /\ Kept
    OBVIOUS
<1>1. /\ pushed = {} /\ popped = << >> /\ list = << >> /\ llm = <<Queued(0, 0, 0)>>
    BY DEF Init
<1>2. ToSet(<< >>) = {} /\ Len(<< >>) = 0 /\ Cardinality({}) = 0
    BY FS_EmptySet DEF ToSet
<1>3. HoldingAt = {} /\ Holding = {}
    BY <1>1 DEF HoldingAt, Holding, Queued
<1> QED
    BY <1>1, <1>2, <1>3 DEF Numbered, Kept

\* A result that was pushed is neither lost nor doubled, however many waiting handlers pop
\* it and push it back between the node and the orchestrator, whatever times out and runs
\* again: it is in the list, with the orchestrator or in one hand, as long as no handler
\* dies between the two calls.
THEOREM ResultsAreKept == Spec => []NoResultLost
<1>1. Init => Typed /\ Numbered /\ Kept
    BY InitTyped, InitKept
<1>2. Typed /\ Numbered /\ Kept /\ [Next]_vars => (Typed /\ Numbered /\ Kept)'
    BY TypesKept, ResultsKept
<1> QED
    BY <1>1, <1>2, KeptIs, PTL DEF Spec

-----------------------------------------------------------------------------
(* The answers.                                                            *)

\* As long as nothing has failed, the tasks are the rounds of one node, in order: all but
\* the youngest wait or are done, and of a round yet to come nothing exists.
InRounds ==
    /\ Len(llm) > 0
    /\ \A i \in DOMAIN llm :
        /\ i < Len(llm) => llm[i].at \in {"waiting", "holding", "done"}
        /\ llm[i].at # "done" => llm[i].iter = i - 1
    /\ \A k \in 0 .. MaxIterations : k >= Len(llm) => answered[k] = {}
    /\ \A t \in tools : t.iter < Len(llm)

\* What a task knows of the answers of its round.
AnswersKnown(i) ==
    /\ llm[i].at \in {"queued", "calling"} =>
        llm[i].got = {} /\ answered[i - 1] = {} /\ \A t \in tools : t.iter # i - 1
    /\ llm[i].at = "tools" =>
        /\ IsFiniteSet(llm[i].calls) /\ llm[i].got \subseteq llm[i].calls
        /\ answered[i - 1] \subseteq llm[i].calls
        /\ \A t \in tools : t.iter = i - 1 => t.call \in llm[i].calls
    /\ llm[i].at \in {"waiting", "holding"} => llm[i].got = llm[i].calls

OwnInv == errors = 0 => InRounds /\ \A i \in DOMAIN llm : AnswersKnown(i)

LEMMA InitOwn == Init => OwnInv
<1> SUFFICES ASSUME Init PROVE OwnInv
    OBVIOUS
<1>1. /\ llm = <<Queued(0, 0, 0)>> /\ tools = {} /\ \A k \in 0 .. MaxIterations : answered[k] = {}
    BY DEF Init
<1>2. Len(llm) = 1 /\ DOMAIN llm = 1 .. 1 /\ llm[1] = Queued(0, 0, 0)
    BY <1>1
<1>3. /\ Queued(0, 0, 0).at = "queued" /\ Queued(0, 0, 0).got = {} /\ Queued(0, 0, 0).iter = 0
    BY DEF Queued
<1>4. 0 \in 0 .. MaxIterations
    BY DEF ToolLoopAssumption
<1>5. InRounds
    BY <1>1, <1>2, <1>3 DEF InRounds
<1>6. AnswersKnown(1)
    BY <1>1, <1>2, <1>3, <1>4 DEF AnswersKnown
<1>7. \A i \in DOMAIN llm : i = 1
    BY <1>2
<1> QED
    BY <1>5, <1>6, <1>7 DEF OwnInv

\* A task goes on while nothing changes for the rounds that were before or are to come.
LEMMA OwnByMove ==
    ASSUME Typed, InRounds, \A j \in DOMAIN llm : AnswersKnown(j),
           NEW i \in DOMAIN llm, NEW t \in LLMTask, Goes(i, t),
           t.at # "done" => t.iter = llm[i].iter /\ llm[i].at # "done",
           i < Len(llm) => t.at \in {"waiting", "holding", "done"},
           \A k \in 0 .. MaxIterations : k # i - 1 => answered'[k] = answered[k],
           \A u \in tools' : u \in tools \/ u.iter = i - 1,
           AnswersKnown(i)'
    PROVE  InRounds' /\ \A j \in DOMAIN llm' : AnswersKnown(j)'
<1>1. /\ Len(llm') = Len(llm) /\ DOMAIN llm' = DOMAIN llm /\ Len(llm) \in Nat /\ DOMAIN llm = 1 .. Len(llm)
      /\ \A j \in DOMAIN llm : llm'[j] = IF j = i THEN t ELSE llm[j]
    BY Moved DEF Typed, TypeOK
<1>2. InRounds'
    <2>1. ASSUME NEW j \in DOMAIN llm
          PROVE  /\ j < Len(llm) => llm'[j].at \in {"waiting", "holding", "done"}
                 /\ llm'[j].at # "done" => llm'[j].iter = j - 1
        BY <1>1, <2>1 DEF InRounds
    <2>2. \A k \in 0 .. MaxIterations : k >= Len(llm) => answered'[k] = {}
        BY <1>1 DEF InRounds
    <2>3. \A u \in tools' : u.iter < Len(llm)
        BY <1>1 DEF InRounds
    <2> QED
        BY <1>1, <2>1, <2>2, <2>3 DEF InRounds
<1>3. ASSUME NEW j \in DOMAIN llm, j # i PROVE AnswersKnown(j)'
    <2>1. llm'[j] = llm[j] /\ AnswersKnown(j)
        BY <1>1, <1>3
    <2>2. i \in Nat /\ j \in Nat
        BY <1>1, <1>3
    <2>3. j - 1 # i - 1
        BY <1>3, <2>2
    <2>4. llm[j] \in LLMTask /\ TaskOK(llm[j])
        BY <1>3, TaskTyped
    <2>5. llm[j].iter \in Nat /\ llm[j].iter <= MaxIterations
        BY <2>4 DEF LLMTask, TaskOK
    <2>6. llm[j].at # "done" => j - 1 \in 0 .. MaxIterations
        BY <1>3, <2>5 DEF InRounds, ToolLoopAssumption
    <2>7. llm[j].at # "done" => answered'[j - 1] = answered[j - 1]
        BY <2>3, <2>6
    <2>8. \A u \in tools' : u.iter = j - 1 => u \in tools
        BY <2>3
    <2> QED
        BY <2>1, <2>7, <2>8 DEF AnswersKnown
<1> QED
    BY <1>1, <1>2, <1>3

\* The steps of a handler that do not end a round.
LEMMA HandlerOwn ==
    ASSUME Typed, InRounds, \A j \in DOMAIN llm : AnswersKnown(j),
           NEW i \in DOMAIN llm, Handler(i), ~NextRound(i)
    PROVE  InRounds' /\ \A j \in DOMAIN llm' : AnswersKnown(j)'
<1> DEFINE t == llm[i]
           Result1 == InRounds' /\ \A j \in DOMAIN llm' : AnswersKnown(j)'
<1>1. /\ t \in LLMTask /\ t.iter \in Nat /\ t.try \in Nat /\ AnswersKnown(i) /\ i \in Nat
      /\ t.at # "done" => t.iter = i - 1 /\ i - 1 \in 0 .. MaxIterations
      /\ i < Len(llm) => t.at \in {"waiting", "holding", "done"}
    <2>1. t \in LLMTask /\ t.iter \in Nat /\ t.try \in Nat /\ t.iter <= MaxIterations /\ i \in Nat
        BY TaskTyped DEF LLMTask, TaskOK
    <2> QED
        BY <2>1 DEF InRounds, ToolLoopAssumption
<1>2. answered \in [0 .. MaxIterations -> SUBSET Nat]
    BY DEF Typed, TypeOK
<1>3. ASSUME NEW u \in LLMTask, Goes(i, u) PROVE llm'[i] = u
    BY <1>3, Moved
<1>4. CASE Answer(i) \/ Forward(i) \/ \E n : StopAtLimit(i, n)
    <2>1. Goes(i, Done) /\ Done \in LLMTask /\ Done.at = "done" /\ UNCHANGED <<tools, answered>>
        BY <1>4, HandlerTask, AskTask, DoneTask DEF Answer, Forward, StopAtLimit, Done, Queued
    <2>2. AnswersKnown(i)'
        BY <1>3, <2>1 DEF AnswersKnown
    <2> QED
        BY <2>1, <2>2, OwnByMove
<1>5. CASE Begin(i)
    <2> DEFINE u == [t EXCEPT !.at = "calling"]
    <2>1. t.at = "queued" /\ Goes(i, u) /\ UNCHANGED <<tools, answered>>
        BY <1>5, HandlerTask DEF Begin
    <2> HIDE DEF t
    <2>2. u \in LLMTask /\ u.at = "calling" /\ u.iter = t.iter /\ u.got = t.got
        BY <1>1 DEF LLMTask, Running
    <2> HIDE DEF u
    <2>3. AnswersKnown(i)'
        BY <1>1, <1>3, <2>1, <2>2 DEF AnswersKnown, t
    <2> QED
        BY <1>1, <2>1, <2>2, <2>3, OwnByMove DEF t
<1>6. CASE Retry(i)
    <2> DEFINE u == [t EXCEPT !.at = "queued", !.try = @ + 1]
    <2>1. t.at = "calling" /\ Goes(i, u) /\ UNCHANGED <<tools, answered>>
        BY <1>6, HandlerTask DEF Retry
    <2> HIDE DEF t
    <2>2. t.try + 1 \in Nat /\ t \in LLMTask
        BY <1>1
    <2>3. u \in LLMTask
        BY <2>2 DEF LLMTask, Running
    <2>4. u.at = "queued" /\ u.iter = t.iter /\ u.got = t.got
        BY <2>2 DEF LLMTask
    <2> HIDE DEF u
    <2>5. AnswersKnown(i)'
        BY <1>1, <1>3, <2>1, <2>3, <2>4 DEF AnswersKnown, t
    <2> QED
        BY <1>1, <2>1, <2>3, <2>4, <2>5, OwnByMove DEF t
<1>7. CASE PopResult(i)
    <2> DEFINE u == [t EXCEPT !.at = "holding", !.hand = Head(list)]
    <2>1. t.at = "waiting" /\ Goes(i, u) /\ UNCHANGED <<tools, answered>> /\ list # << >>
        BY <1>7, HandlerTask DEF PopResult
    <2>2. Head(list) \in Result
        BY <2>1, ToSetTail DEF Typed, TypeOK
    <2> HIDE DEF t
    <2>3. u \in LLMTask
        BY <1>1, <2>2 DEF LLMTask, Running
    <2>4. u.at = "holding" /\ u.iter = t.iter /\ u.got = t.got /\ u.calls = t.calls
        BY <1>1 DEF LLMTask
    <2> HIDE DEF u
    <2>5. AnswersKnown(i)'
        BY <1>1, <1>3, <2>1, <2>3, <2>4 DEF AnswersKnown, t
    <2> QED
        BY <1>1, <2>1, <2>3, <2>4, <2>5, OwnByMove DEF t
<1>8. ASSUME NEW n \in 1 .. MaxBatch, NEW k \in 0 .. n, AskTools(i, n, k) PROVE Result1
    <2> DEFINE calls == made + 1 .. made + k
               u == [t EXCEPT !.at = "tools", !.calls = calls, !.asked = n]
    <2>1. /\ t.at = "calling" /\ Goes(i, u) /\ answered' = answered
          /\ tools' = tools \cup {[call |-> c, iter |-> t.iter, at |-> "queued"] : c \in calls}
        BY <1>8, AskTask DEF AskTools
    <2>2. n \in Nat /\ k \in Nat /\ calls \in SUBSET Nat /\ IsFiniteSet(calls)
        <3>1. n \in Nat /\ k \in Nat /\ made \in Nat
            BY DEF ToolLoopAssumption, Typed, TypeOK
        <3>2. calls \in SUBSET Nat
            BY <3>1, CallsTyped
        <3>3. made + 1 \in Int /\ made + k \in Int
            BY <3>1
        <3> QED
            BY <3>1, <3>2, <3>3, FS_Interval
    <2> HIDE DEF t, calls
    <2>3. u \in LLMTask
        BY <1>1, <2>2 DEF LLMTask, Running
    <2>4. u.at = "tools" /\ u.iter = t.iter /\ u.got = t.got /\ u.calls = calls
        BY <1>1 DEF LLMTask
    <2> HIDE DEF u
    <2>5. \A v \in tools' : v \in tools \/ (v.iter = i - 1 /\ v.call \in calls)
        BY <1>1, <2>1
    <2>6. t.got = {} /\ answered[i - 1] = {} /\ \A v \in tools : v.iter # i - 1
        BY <1>1, <2>1 DEF AnswersKnown, t
    <2>7. llm'[i] = u
        BY <1>3, <2>1, <2>3
    <2>8. AnswersKnown(i)'
        BY <2>1, <2>2, <2>4, <2>5, <2>6, <2>7 DEF AnswersKnown
    <2>9. \A v \in tools' : v \in tools \/ v.iter = i - 1
        BY <2>5
    <2>10. u.at # "done" => u.iter = llm[i].iter /\ llm[i].at # "done"
        BY <2>1, <2>4 DEF t
    <2>11. i < Len(llm) => u.at \in {"waiting", "holding", "done"}
        BY <1>1, <2>1
    <2> QED
        BY <2>1, <2>3, <2>8, <2>9, <2>10, <2>11, OwnByMove
<1>9. CASE PopTool(i)
    <2>1. PICK c \in answered[t.iter] :
              /\ Goes(i, [t EXCEPT !.got = @ \cup {c}])
              /\ answered' = [answered EXCEPT ![t.iter] = @ \ {c}]
        BY <1>9, PopTask
    <2> DEFINE u == [t EXCEPT !.got = @ \cup {c}]
    <2>2. t.at = "tools" /\ Goes(i, u) /\ tools' = tools /\ t.iter = i - 1 /\ i - 1 \in 0 .. MaxIterations
        BY <1>1, <1>9, <2>1 DEF PopTool
    <2>3. c \in Nat /\ c \in answered[i - 1]
        BY <1>2, <2>1, <2>2
    <2> HIDE DEF t
    <2>4. u \in LLMTask
        BY <1>1, <2>3 DEF LLMTask
    <2>5. u.at = "tools" /\ u.iter = t.iter /\ u.got = t.got \cup {c} /\ u.calls = t.calls
        BY <1>1, <2>2 DEF LLMTask
    <2> HIDE DEF u
    <2>6. /\ answered'[i - 1] \subseteq answered[i - 1]
          /\ \A k \in 0 .. MaxIterations : k # i - 1 => answered'[k] = answered[k]
        BY <1>2, <2>1, <2>2
    <2>7. llm'[i] = u
        BY <1>3, <2>2, <2>4
    <2>8. /\ IsFiniteSet(t.calls) /\ t.got \subseteq t.calls /\ answered[i - 1] \subseteq t.calls
          /\ \A v \in tools : v.iter = i - 1 => v.call \in t.calls
        BY <1>1, <2>2 DEF AnswersKnown, t
    <2>9. AnswersKnown(i)'
        BY <2>2, <2>3, <2>5, <2>6, <2>7, <2>8 DEF AnswersKnown
    <2>10. u.at # "done" => u.iter = llm[i].iter /\ llm[i].at # "done"
        BY <2>2, <2>5 DEF t
    <2>11. i < Len(llm) => u.at \in {"waiting", "holding", "done"}
        BY <1>1, <2>2
    <2> QED
        BY <2>2, <2>4, <2>6, <2>9, <2>10, <2>11, OwnByMove
<1> QED
    BY <1>4, <1>5, <1>6, <1>7, <1>8, <1>9 DEF Handler

\* The end of a round: the answers are the calls, and of the next round there is nothing.
LEMMA NextRoundOwn ==
    ASSUME Typed, InRounds, \A j \in DOMAIN llm : AnswersKnown(j),
           NEW i \in DOMAIN llm, NextRound(i)
    PROVE  InRounds' /\ \A j \in DOMAIN llm' : AnswersKnown(j)'
<1> DEFINE t == llm[i]
           u == [t EXCEPT !.at = "waiting"]
           w == Queued(t.iter + 1, t.total + t.asked, 0)
<1>1. /\ t.at = "tools" /\ Cardinality(t.got) = Cardinality(t.calls) /\ tools' = tools
      /\ answered' = [answered EXCEPT ![t.iter] = {}] /\ GoesAndQueues(i, u, w)
    BY HandlerTask DEF NextRound
<1>2. /\ t \in LLMTask /\ t.iter \in Nat /\ t.total \in Nat /\ t.asked \in Nat /\ i \in Nat
      /\ t.iter < MaxIterations /\ t.total + t.asked <= MaxCalls /\ MaxIterations \in Nat
    BY <1>1, TaskTyped DEF LLMTask, TaskOK, ToolLoopAssumption
<1>3. /\ Len(llm) \in Nat /\ DOMAIN llm = 1 .. Len(llm)
      /\ answered \in [0 .. MaxIterations -> SUBSET Nat]
    BY DEF Typed, TypeOK
<1>4. i = Len(llm) /\ t.iter = i - 1 /\ i - 1 \in 0 .. MaxIterations /\ i \in 0 .. MaxIterations
    <2>1. ~(i < Len(llm)) /\ t.iter = i - 1
        BY <1>1 DEF InRounds
    <2> QED
        BY <1>2, <1>3, <2>1
<1>5. t.got = t.calls
    <2>1. IsFiniteSet(t.calls) /\ t.got \subseteq t.calls
        BY <1>1 DEF AnswersKnown
    <2> QED
        BY <1>1, <2>1, FS_Subset
<1>6. w \in LLMTask /\ w.at = "queued" /\ w.got = {} /\ w.iter = i
    BY <1>2, <1>4, QueuedTask DEF Queued
<1> HIDE DEF t, w
<1>7. u \in LLMTask /\ u.at = "waiting" /\ u.got = t.got /\ u.calls = t.calls /\ u.iter = t.iter
    BY <1>2 DEF LLMTask, Running
<1> HIDE DEF u
<1>8. /\ Len(llm') = Len(llm) + 1 /\ DOMAIN llm' = 1 .. Len(llm) + 1
      /\ \A j \in DOMAIN llm : llm'[j] = IF j = i THEN u ELSE llm[j]
      /\ llm'[Len(llm) + 1] = w
    BY <1>1, <1>6, <1>7, MovedAndQueued
<1>9. \A k \in 0 .. MaxIterations : answered'[k] = IF k = i - 1 THEN {} ELSE answered[k]
    BY <1>1, <1>3, <1>4
<1>10. InRounds'
    <2>1. ASSUME NEW j \in DOMAIN llm'
          PROVE  /\ j < Len(llm) + 1 => llm'[j].at \in {"waiting", "holding", "done"}
                 /\ llm'[j].at # "done" => llm'[j].iter = j - 1
        <3>1. CASE j = Len(llm) + 1
            BY <1>3, <1>4, <1>6, <1>8, <3>1
        <3>2. CASE j = i
            BY <1>3, <1>4, <1>7, <1>8, <3>2
        <3>3. CASE j # i /\ j # Len(llm) + 1
            <4>1. j \in DOMAIN llm /\ j < Len(llm) /\ llm'[j] = llm[j]
                BY <1>3, <1>4, <1>8, <3>3
            <4> QED
                BY <4>1 DEF InRounds
        <3> QED
            BY <3>1, <3>2, <3>3
    <2>2. \A k \in 0 .. MaxIterations : k >= Len(llm) + 1 => answered'[k] = {}
        BY <1>3, <1>9 DEF InRounds
    <2>3. \A v \in tools : v.iter < Len(llm) /\ v.iter \in Nat
        BY DEF InRounds, Typed, TypeOK, ToolTask
    <2>4. \A v \in tools' : v.iter < Len(llm) + 1
        BY <1>1, <1>3, <2>3
    <2> QED
        BY <1>3, <1>8, <2>1, <2>2, <2>4 DEF InRounds
<1>11. ASSUME NEW j \in DOMAIN llm' PROVE AnswersKnown(j)'
    <2>1. CASE j = Len(llm) + 1
        <3>1. llm'[j] = w /\ j - 1 = i
            BY <1>3, <1>4, <1>8, <2>1
        <3>2. answered'[i] = {}
            <4>1. i # i - 1 /\ i >= Len(llm)
                <5>1. i \in Nat /\ i = Len(llm)
                    BY <1>2, <1>4
                <5> QED
                    BY <5>1
            <4>2. answered[i] = {}
                BY <1>4, <4>1 DEF InRounds
            <4> QED
                BY <1>4, <1>9, <4>1, <4>2
        <3>3. \A v \in tools : v.iter # i
            BY <1>3, <1>4 DEF InRounds, Typed, TypeOK, ToolTask
        <3> QED
            BY <1>1, <1>6, <3>1, <3>2, <3>3 DEF AnswersKnown
    <2>2. CASE j = i
        <3>1. llm'[j] = u
            BY <1>8, <2>2
        <3> QED
            BY <1>5, <1>7, <3>1 DEF AnswersKnown
    <2>3. CASE j # i /\ j # Len(llm) + 1
        <3>1. j \in DOMAIN llm /\ j < Len(llm) /\ llm'[j] = llm[j]
            BY <1>3, <1>4, <1>8, <2>3
        <3>2. llm[j].at \in {"waiting", "holding", "done"} /\ AnswersKnown(j)
            BY <3>1 DEF InRounds
        <3> QED
            BY <3>1, <3>2 DEF AnswersKnown
    <2> QED
        BY <2>1, <2>2, <2>3
<1> QED
    BY <1>10, <1>11

\* The tools' answers go to the request of their round.
LEMMA ToolOwn ==
    ASSUME Typed, InRounds, \A j \in DOMAIN llm : AnswersKnown(j),
           NEW t \in tools, BeginTool(t) \/ EndTool(t)
    PROVE  InRounds' /\ \A j \in DOMAIN llm' : AnswersKnown(j)'
<1>1. /\ llm' = llm /\ t \in ToolTask /\ answered \in [0 .. MaxIterations -> SUBSET Nat]
      /\ Len(llm) \in Nat /\ DOMAIN llm = 1 .. Len(llm)
    BY ToolTyped DEF Typed, TypeOK
<1>2. \A v \in tools' : \E x \in tools : v.iter = x.iter /\ v.call = x.call
    BY <1>1 DEF BeginTool, EndTool, ToolTask
<1>3. \A k \in 0 .. MaxIterations :
        answered'[k] = answered[k] \/ (k = t.iter /\ answered'[k] = answered[k] \cup {t.call})
    BY <1>1 DEF BeginTool, EndTool
<1>4. t.iter < Len(llm) /\ t.iter \in Nat
    BY <1>1 DEF InRounds, ToolTask
<1>5. InRounds'
    <2>1. \A k \in 0 .. MaxIterations : k >= Len(llm) => answered'[k] = {}
        BY <1>1, <1>3, <1>4 DEF InRounds
    <2>2. \A v \in tools' : v.iter < Len(llm)
        BY <1>2 DEF InRounds
    <2> QED
        BY <1>1, <2>1, <2>2 DEF InRounds
<1>6. ASSUME NEW j \in DOMAIN llm PROVE AnswersKnown(j)'
    <2>1. AnswersKnown(j) /\ llm'[j] = llm[j]
        BY <1>1, <1>6
    <2>2. llm[j].iter \in Nat /\ llm[j].iter <= MaxIterations /\ j \in Nat
        BY <1>6, TaskTyped DEF LLMTask, TaskOK
    <2>3. llm[j].at # "done" => j - 1 \in 0 .. MaxIterations
        BY <1>6, <2>2 DEF InRounds, ToolLoopAssumption
    <2>4. CASE llm[j].at \in {"queued", "calling"}
        <3>1. llm[j].got = {} /\ answered[j - 1] = {} /\ \A x \in tools : x.iter # j - 1
            BY <2>1, <2>4 DEF AnswersKnown
        <3>2. answered'[j - 1] = {}
            BY <1>3, <2>3, <2>4, <3>1
        <3>3. \A v \in tools' : v.iter # j - 1
            BY <1>2, <3>1
        <3> QED
            BY <2>1, <2>4, <3>1, <3>2, <3>3 DEF AnswersKnown
    <2>5. CASE llm[j].at = "tools"
        <3>1. /\ IsFiniteSet(llm[j].calls) /\ llm[j].got \subseteq llm[j].calls
              /\ answered[j - 1] \subseteq llm[j].calls
              /\ \A x \in tools : x.iter = j - 1 => x.call \in llm[j].calls
            BY <2>1, <2>5 DEF AnswersKnown
        <3>2. answered'[j - 1] \subseteq llm[j].calls
            BY <1>3, <2>3, <2>5, <3>1
        <3>3. \A v \in tools' : v.iter = j - 1 => v.call \in llm[j].calls
            BY <1>2, <3>1
        <3> QED
            BY <2>1, <2>5, <3>1, <3>2, <3>3 DEF AnswersKnown
    <2>6. CASE llm[j].at \notin {"queued", "calling", "tools"}
        BY <2>1, <2>6 DEF AnswersKnown
    <2> QED
        BY <2>4, <2>5, <2>6
<1> QED
    BY <1>1, <1>5, <1>6

LEMMA OwnKept == Typed /\ OwnInv /\ [Next]_vars => OwnInv'
<1> SUFFICES ASSUME Typed, OwnInv, [Next]_vars, errors' = 0
             PROVE  InRounds' /\ \A j \in DOMAIN llm' : AnswersKnown(j)'
    BY DEF OwnInv
<1>1. errors \in Nat /\ ~(errors + 1 = 0)
    BY DEF Typed, TypeOK
<1>2. errors = 0
    <2>1. ASSUME NEW i \in DOMAIN llm, HandlerError(i) PROVE errors' = errors + 1
        BY <2>1 DEF HandlerError, DispatchFails, ToolsTimeout, NextRoundFails, WaitTimeout, Crash
    <2>2. ASSUME NEW i \in DOMAIN llm, Handler(i) PROVE errors' = errors
        BY <2>2 DEF Handler, Begin, Answer, Retry, StopAtLimit, AskTools, PopTool, NextRound,
                    PopResult, Forward
    <2>3. ASSUME NEW t \in tools, BeginTool(t) \/ EndTool(t) PROVE errors' = errors
        BY <2>3 DEF BeginTool, EndTool
    <2> QED
        BY <1>1, <2>1, <2>2, <2>3 DEF Next, vars, OtherNode, Collect
<1>3. InRounds /\ \A j \in DOMAIN llm : AnswersKnown(j)
    BY <1>2 DEF OwnInv
<1>4. ASSUME UNCHANGED <<llm, tools, answered>> PROVE InRounds' /\ \A j \in DOMAIN llm' : AnswersKnown(j)'
    BY <1>3, <1>4 DEF InRounds, AnswersKnown
<1>5. ASSUME NEW i \in DOMAIN llm, HandlerError(i) PROVE FALSE
    BY <1>1, <1>2, <1>5
       DEF HandlerError, DispatchFails, ToolsTimeout, NextRoundFails, WaitTimeout, Crash
<1>6. CASE Collect \/ UNCHANGED vars \/ \E n \in Other : OtherNode(n)
    BY <1>4, <1>6 DEF Collect, vars, OtherNode
<1> QED
    BY <1>3, <1>5, <1>6, HandlerOwn, NextRoundOwn, ToolOwn DEF Next

\* As long as nothing fails, a round trip that goes on has the answers of exactly the calls
\* it dispatched: they come in any order and the rounds use lists named alike, but the list
\* of a round is read by that round alone, and no tool task of an earlier one writes to it.
THEOREM AnswersOwned == Spec => []AnswersAreOwn
<1>1. Init => Typed /\ OwnInv
    BY InitTyped, InitOwn
<1>2. Typed /\ OwnInv /\ [Next]_vars => (Typed /\ OwnInv)'
    BY TypesKept, OwnKept
<1>3. OwnInv => AnswersAreOwn
    BY DEF OwnInv, AnswersKnown, AnswersAreOwn
<1> QED
    BY <1>1, <1>2, <1>3, PTL DEF Spec
=============================================================================
