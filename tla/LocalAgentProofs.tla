-------------------------- MODULE LocalAgentProofs --------------------------
(***************************************************************************)
(* Proofs about the superagent of a single process, for any limits, tools  *)
(* and ports: its counters are those of the calls it made, and it keeps    *)
(* the promise of module AgentPromise.                                     *)
(***************************************************************************)
EXTENDS LocalAgent, Integers, Sequences, SequenceTheorems, TLAPS

-----------------------------------------------------------------------------
(* Short lists, written out.                                               *)

\* What is first in a short list, and what follows.
LEMMA Lists ==
    /\ \A a : Head(<<a>>) = a /\ Tail(<<a>>) = << >>
    /\ \A a, b : Head(<<a, b>>) = a /\ Tail(<<a, b>>) = <<b>>
    /\ \A a, b, c : Head(<<a, b, c>>) = a /\ Tail(<<a, b, c>>) = <<b, c>>
OBVIOUS

\* Nothing joined to one element.
LEMMA JoinNone == ASSUME NEW a PROVE <<a>> \o << >> = <<a>> /\ << >> \o <<a>> = <<a>>
OBVIOUS

\* One element joined to one.
LEMMA JoinPair == ASSUME NEW a, NEW b PROVE <<a>> \o <<b>> = <<a, b>>
<1> DEFINE S == {a, b}
<1> DEFINE t == <<a>> \o <<b>>
<1>1. <<a>> \in Seq(S) /\ <<b>> \in Seq(S)
    OBVIOUS
<1>2. t \in Seq(S) /\ Len(t) = 2 /\ t[1] = a /\ t[2] = b
    BY <1>1
<1>3. <<a, b>> \in Seq(S) /\ Len(<<a, b>>) = 2
    OBVIOUS
<1> HIDE DEF t
<1>4. t = [i \in 1 .. 2 |-> t[i]] /\ <<a, b>> = [i \in 1 .. 2 |-> <<a, b>>[i]]
    BY <1>2, <1>3
<1>5. \A i \in 1 .. 2 : t[i] = <<a, b>>[i]
    BY <1>2
<1> QED
    BY <1>4, <1>5 DEF t

\* Two elements joined to one.
LEMMA JoinTriple == ASSUME NEW a, NEW b, NEW c PROVE <<a, b>> \o <<c>> = <<a, b, c>>
<1> DEFINE S == {a, b, c}
<1> DEFINE t == <<a, b>> \o <<c>>
<1>1. <<a, b>> \in Seq(S) /\ <<c>> \in Seq(S)
    OBVIOUS
<1>2. t \in Seq(S) /\ Len(t) = 3 /\ t[1] = a /\ t[2] = b /\ t[3] = c
    BY <1>1
<1>3. <<a, b, c>> \in Seq(S) /\ Len(<<a, b, c>>) = 3
    OBVIOUS
<1> HIDE DEF t
<1>4. t = [i \in 1 .. 3 |-> t[i]] /\ <<a, b, c>> = [i \in 1 .. 3 |-> <<a, b, c>>[i]]
    BY <1>2, <1>3
<1>5. \A i \in 1 .. 3 : t[i] = <<a, b, c>>[i]
    BY <1>2
<1> QED
    BY <1>4, <1>5 DEF t

-----------------------------------------------------------------------------

USE AgentRulesAssumption, LocalAgentAssumption

-----------------------------------------------------------------------------
(* The inductive invariant.                                                *)

\* Where RunToolLoop runs, or has just returned.
LoopSteps == {"round", "model", "calls", "totals"}
Ends == {"outputs", "returned"}

Typed ==
    /\ pc \in Steps /\ ctx \in {"live", "timeout", "cancelled"}
    /\ iteration \in Nat /\ total \in Nat /\ todo \in Nat
    /\ made \in Nat /\ lost \in Nat
    /\ history \in Seq(Tool)
    /\ finish \in Reasons

\* What is left of an iteration where the handler is in a side step of it.
Continues ==
    /\ pc = "reflect" => after \in {<<"stuck">>, <<"size">>, <<"flush", "size">>}
    /\ pc \in {"flush", "summary"} => after \in {<<"size">>, <<"tail">>}

\* Until the agent ends there is no reason, no lost call, and room for another iteration.
Working ==
    /\ pc \notin Ends =>
        /\ finish = "none" /\ lost = 0
        /\ iteration < MaxIterations /\ total < MaxTotalCalls
    /\ pc = "outputs" => finish # "none"

\* The tool loop's calls are in its own history until the agent takes them over.
Counted ==
    /\ made = IF pc \in LoopSteps THEN total + Len(history) ELSE total + lost
    /\ pc \in LoopSteps => Len(history) <= MaxCallsPerIteration
    /\ pc = "calls" => Len(history) + todo <= MaxCallsPerIteration
    /\ made < MaxTotalCalls + MaxCallsPerIteration

IInv == Typed /\ Continues /\ Working /\ Counted

LEMMA InitIInv == Init => IInv
<1> SUFFICES ASSUME Init PROVE IInv
    OBVIOUS
<1>1. Len(history) = 0 /\ history \in Seq(Tool)
    BY DEF Init
<1> QED
    BY <1>1 DEF Init, IInv, Typed, Continues, Working, Counted, Steps, Reasons, LoopSteps, Ends


-----------------------------------------------------------------------------
(* The invariant is inductive.                                             *)

\* The steps of RunToolLoop keep it.
LEMMA ToolLoopKeeps ==
    ASSUME IInv, ToolLoopStep
    PROVE  IInv'
<1> USE DEF IInv, Typed, Continues, Working, Counted, Steps, Reasons, LoopSteps, Ends,
        agentVars, builtinVars, roundVars, detector, endVars
<1>1. CASE BeginRound
    <2>1. pc' \in {"totals", "model"}
        BY <1>1, Lists DEF BeginRound, Returns, Goto
    <2> QED
        BY <1>1, <2>1 DEF BeginRound, Returns
<1>2. CASE LoopFails
    <2>1. /\ pc \in {"model", "calls"} /\ lost' = Len(history) /\ todo' = 0
          /\ Len(history) \in Nat /\ Len(history) =< MaxCallsPerIteration
          /\ UNCHANGED <<ctx, iteration, total, history, made>>
        BY <1>2 DEF LoopFails
    <2>2. CASE ctx # "live"
        <3>1. pc' = "outputs" /\ after' = << >> /\ finish' = ctx
            BY <1>2, <2>2 DEF LoopFails, Finish
        <3> QED
            BY <2>1, <2>2, <3>1
    <2>3. CASE ctx = "live"
        <3>1. pc' = "returned" /\ after' = << >> /\ finish' = finish
            BY <1>2, <2>3 DEF LoopFails, Return
        <3> QED
            BY <2>1, <2>3, <3>1
    <2> QED
        BY <2>2, <2>3
<1>3. CASE NextRound
    BY <1>3, Lists DEF NextRound, Goto
<1>4. ASSUME NEW said \in {"blank", "said"}, ModelText(said) PROVE IInv'
    <2>1. pc' = "totals"
        BY <1>4, Lists DEF ModelText, Goto
    <2> QED
        BY <1>4, <2>1 DEF ModelText
<1>5. ASSUME NEW said \in {"blank", "said"}, NEW n \in 1 .. MaxBatch, ModelCalls(n, said)
      PROVE  IInv'
    <2>1. n \in Nat /\ MaxCallsPerIteration \in Nat /\ Len(history) \in Nat
        OBVIOUS
    <2>2. CASE Goto(<<"totals">>) /\ UNCHANGED <<req, todo>>
        BY <1>5, <2>2, Lists DEF ModelCalls, Goto
    <2>3. CASE todo' = n /\ Goto(<<"calls">>) /\ Len(history) + n <= MaxCallsPerIteration
        BY <1>5, <2>1, <2>3, Lists DEF ModelCalls, Goto
    <2> QED
        BY <1>5, <2>1, <2>2, <2>3 DEF ModelCalls
<1>6. ASSUME NEW tool \in Tool, NEW opened \in BOOLEAN, NEW finalised, Call(tool, opened, finalised)
      PROVE  IInv'
    <2>1. history' = Append(history, tool) /\ history \in Seq(Tool)
        BY <1>6 DEF Call
    <2>2. /\ history' \in Seq(Tool) /\ Len(history') = Len(history) + 1 /\ Len(history) \in Nat
        BY ONLY <2>1, AppendProperties, LenProperties
    <2>3. /\ pc = "calls" /\ todo > 0 /\ made' = made + 1 /\ todo' = todo - 1
          /\ UNCHANGED <<pc, after, ctx, iteration, total, finish, lost>>
        BY <1>6 DEF Call
    <2>4. Typed' /\ Continues' /\ Working'
        <3>1. made + 1 \in Nat /\ todo - 1 \in Nat
            BY <2>3
        <3> QED
            BY <2>2, <2>3, <3>1
    <2>5. Counted'
        <3>1. /\ made = total + Len(history) /\ Len(history) + todo =< MaxCallsPerIteration
              /\ total < MaxTotalCalls
              /\ todo \in Nat /\ total \in Nat /\ made \in Nat
              /\ MaxCallsPerIteration \in Nat /\ MaxTotalCalls \in Nat
            BY <2>3
        <3>2. made + 1 = total + Len(history') /\ Len(history') + (todo - 1) =< MaxCallsPerIteration
              /\ Len(history') =< MaxCallsPerIteration
            BY ONLY <2>2, <2>3, <3>1
        <3>3. made + 1 < MaxTotalCalls + MaxCallsPerIteration
            BY ONLY <2>2, <3>1, <3>2
        <3> QED
            BY <2>3, <3>1, <3>2, <3>3
    <2> QED
        BY <2>4, <2>5
<1> QED
    BY <1>1, <1>2, <1>3, <1>4, <1>5, <1>6 DEF ToolLoopStep

\* What is left of the iteration after a verdict.
Rest(v) ==
    (IF v.stuck THEN <<"reflect">> ELSE << >>)
        \o (IF v.compact THEN <<"flush">> ELSE << >>) \o <<"size">>
Rests == {<<"size">>, <<"flush", "size">>, <<"reflect", "size">>, <<"reflect", "flush", "size">>}

LEMMA RestOf ==
    ASSUME NEW v \in Verdicts
    PROVE  Rest(v) \in Rests
<1> USE DEF Rests
<1>1. CASE v.stuck /\ v.compact
    BY <1>1, JoinPair, JoinTriple DEF Rest
<1>2. CASE v.stuck /\ ~ v.compact
    BY <1>2, JoinNone, JoinPair DEF Rest
<1>3. CASE ~ v.stuck /\ v.compact
    BY <1>3, JoinNone, JoinPair DEF Rest
<1>4. CASE ~ v.stuck /\ ~ v.compact
    BY <1>4, JoinNone DEF Rest
<1> QED
    BY <1>1, <1>2, <1>3, <1>4 DEF Verdicts

LEMMA RestFirst ==
    ASSUME NEW v \in Verdicts, Goto(Rest(v))
    PROVE  \/ pc' = "size"
           \/ pc' = "flush" /\ after' = <<"size">>
           \/ pc' = "reflect" /\ after' \in {<<"size">>, <<"flush", "size">>}
<1>1. Rest(v) \in Rests
    BY RestOf
<1>2. pc' = Head(Rest(v)) /\ after' = Tail(Rest(v))
    BY DEF Goto
<1>3. CASE Rest(v) = <<"size">>
    BY <1>2, <1>3, Lists
<1>4. CASE Rest(v) = <<"flush", "size">>
    BY <1>2, <1>4, Lists
<1>5. CASE Rest(v) = <<"reflect", "size">>
    BY <1>2, <1>5, Lists
<1>6. CASE Rest(v) = <<"reflect", "flush", "size">>
    BY <1>2, <1>6, Lists
<1> QED
    BY <1>1, <1>3, <1>4, <1>5, <1>6 DEF Rests

\* Where the handler goes on after a reflection.
LEMMA AfterReflection ==
    ASSUME after \in {<<"stuck">>, <<"size">>, <<"flush", "size">>}, Goto(after)
    PROVE  \/ pc' = "stuck" \/ pc' = "size"
           \/ pc' = "flush" /\ after' = <<"size">>
<1>1. pc' = Head(after) /\ after' = Tail(after)
    BY DEF Goto
<1>2. CASE after = <<"stuck">>
    BY <1>1, <1>2, Lists
<1>3. CASE after = <<"size">>
    BY <1>1, <1>3, Lists
<1>4. CASE after = <<"flush", "size">>
    BY <1>1, <1>4, Lists
<1> QED
    BY <1>2, <1>3, <1>4

\* In a compaction the summary follows the flush, and what was left the summary.
LEMMA AfterFlush ==
    ASSUME after \in {<<"size">>, <<"tail">>}, Goto(<<"summary">> \o after)
    PROVE  pc' = "summary" /\ after' \in {<<"size">>, <<"tail">>}
<1>1. <<"summary">> \o after \in {<<"summary", "size">>, <<"summary", "tail">>}
    BY JoinPair
<1> QED
    BY <1>1, Lists DEF Goto

LEMMA AfterSummary ==
    ASSUME after \in {<<"size">>, <<"tail">>}, Goto(after)
    PROVE  pc' \in {"size", "tail"}
BY Lists DEF Goto

\* The other steps of the agent keep it.
LEMMA AgentKeeps ==
    ASSUME IInv, AgentStep
    PROVE  IInv'
<1> USE DEF IInv, Typed, Continues, Working, Counted, Steps, Reasons, LoopSteps, Ends,
        agentVars, builtinVars, roundVars, detector, endVars
<1>1. CASE Setup
    BY <1>1, Lists DEF Setup, Goto
<1>2. CASE SetupFails
    BY <1>2, Lists DEF SetupFails, Return
<1>3. CASE BeginIteration
    <2>1. CASE ctx # "live"
        BY <1>3, <2>1 DEF BeginIteration, Finish
    <2>2. CASE ctx = "live"
        <3>1. history' = << >> /\ history' \in Seq(Tool) /\ Len(history') = 0
            BY <1>3, <2>2 DEF BeginIteration
        <3>2. pc' = "round"
            BY <1>3, <2>2, Lists DEF BeginIteration, Goto
        <3> QED
            BY <1>3, <2>2, <3>1, <3>2 DEF BeginIteration
    <2> QED
        BY <2>1, <2>2
<1>4. CASE Totals
    <2>1. /\ pc = "totals" /\ total' = total + Len(history) /\ todo' = Len(history)
          /\ Len(history) \in Nat /\ made = total + Len(history)
          /\ UNCHANGED <<ctx, iteration, history, made, lost>>
        BY <1>4 DEF Totals
    <2>2. CASE total' >= MaxTotalCalls
        <3>1. pc' = "outputs" /\ after' = << >> /\ finish' = "max_tool_calls"
            BY <1>4, <2>2 DEF Totals, Finish
        <3> QED
            BY <2>1, <3>1
    <2>3. CASE ~(total' >= MaxTotalCalls)
        <3>1. pc' = "stuck" /\ finish' = finish
            BY <1>4, <2>3, Lists DEF Totals, Goto
        <3>2. total' < MaxTotalCalls
            BY <2>1, <2>3
        <3> QED
            BY <2>1, <3>1, <3>2
    <2> QED
        BY <2>2, <2>3
<1>5. CASE Record
    <2>1. /\ pc = "stuck" /\ todo > 0 /\ todo' = todo - 1
          /\ UNCHANGED <<ctx, iteration, total, history, made, lost>>
        BY <1>5 DEF Record
    <2>2. CASE UNCHANGED <<pc, after, endVars>>
        BY <2>1, <2>2
    <2>3. CASE Goto(<<"reflect", "stuck">>) /\ UNCHANGED endVars
        <3>1. pc' = "reflect" /\ after' = <<"stuck">> /\ finish' = finish
            BY <2>3, Lists DEF Goto
        <3> QED
            BY <2>1, <3>1
    <2>4. CASE Finish("stuck")
        <3>1. pc' = "outputs" /\ after' = << >> /\ finish' = "stuck"
            BY <2>4 DEF Finish
        <3> QED
            BY <2>1, <3>1
    <2>5. CASE breaches' # breaches
        <3>1. Level(breaches') \in {"warn", "reflect", "force_exit"}
            BY DEF Level
        <3> QED
            BY <1>5, <2>2, <2>3, <2>4, <2>5, <3>1 DEF Record
    <2>6. CASE breaches' = breaches
        BY <1>5, <2>2, <2>6 DEF Record
    <2> QED
        BY <2>5, <2>6
<1>6. CASE Recorded
    BY <1>6, Lists DEF Recorded, Goto
<1>7. CASE EvaluateFails
    BY <1>7, Lists DEF EvaluateFails, Goto, Finish
<1>8. ASSUME NEW v \in Verdicts, Evaluated(v) PROVE IInv'
    <2>1. CASE Finish("done") \/ Finish("stuck")
        BY <1>8, <2>1 DEF Evaluated, Finish
    <2>2. CASE UNCHANGED endVars /\ Goto(Rest(v))
        BY <1>8, <2>2, RestFirst DEF Evaluated
    <2> QED
        BY <1>8, <2>1, <2>2 DEF Evaluated, Rest
<1>9. CASE Reflected
    <2>1. \/ pc' = "stuck" \/ pc' = "size"
          \/ pc' = "flush" /\ after' = <<"size">>
        BY <1>9, AfterReflection DEF Reflected
    <2> QED
        BY <1>9, <2>1 DEF Reflected
<1>10. CASE ReflectFails
    BY <1>10, Lists DEF ReflectFails, Return
<1>11. CASE Flush
    <2>1. pc' = "summary" /\ after' \in {<<"size">>, <<"tail">>}
        BY <1>11, AfterFlush DEF Flush
    <2> QED
        BY <1>11, <2>1 DEF Flush
<1>12. CASE Summarised
    BY <1>12, AfterSummary DEF Summarised
<1>13. CASE SummaryFails
    BY <1>13, AfterSummary DEF SummaryFails
<1>14. ASSUME NEW over \in BOOLEAN, CheckSize(over) PROVE IInv'
    BY <1>14, Lists DEF CheckSize, Goto
<1>15. CASE NextIteration
    <2>1. /\ pc = "tail" /\ UNCHANGED <<ctx, total, todo, history, made, lost>>
          /\ iteration' \in Nat
        BY <1>15 DEF NextIteration
    <2>2. CASE Finish("stuck") \/ Finish("max_iterations")
        BY <2>1, <2>2 DEF Finish
    <2>3. CASE iteration' = iteration + 1 /\ iteration + 1 # MaxIterations
               /\ Goto(<<"head">>) /\ UNCHANGED endVars
        <3>1. pc' = "head" /\ finish' = finish /\ iteration' < MaxIterations
            BY <2>1, <2>3, Lists DEF Goto
        <3> QED
            BY <2>1, <3>1
    <2> QED
        BY <1>15, <2>2, <2>3 DEF NextIteration
<1>16. CASE ResolvePort
    BY <1>16, Lists DEF ResolvePort
<1>17. CASE ExtractFails
    BY <1>17, Lists DEF ExtractFails, Return
<1>18. CASE OutputsDone
    BY <1>18, Lists DEF OutputsDone, Return
<1> QED
    BY <1>1, <1>2, <1>3, <1>4, <1>5, <1>6, <1>7, <1>8, <1>9, <1>10, <1>11, <1>12, <1>13,
       <1>14, <1>15, <1>16, <1>17, <1>18 DEF AgentStep

LEMMA StepKeeps == IInv /\ [Next]_vars => IInv'
<1> USE DEF IInv, Typed, Continues, Working, Counted, Steps, Reasons, LoopSteps, Ends,
        agentVars, builtinVars, roundVars, detector, endVars
<1> SUFFICES ASSUME IInv, [Next]_vars PROVE IInv'
    OBVIOUS
<1>1. CASE ContextEnds
    BY <1>1 DEF ContextEnds
<1>2. CASE UNCHANGED vars
    BY <1>2 DEF vars
<1> QED
    BY <1>1, <1>2, ToolLoopKeeps, AgentKeeps DEF Next

\* What an agent counts and reports are the calls it made, but for those of a tool loop
\* that returned an error, and never more than a batch over its limit (runAgentLoop,
\* RunToolLoop).
THEOREM CallsAreCounted == Spec => []CallsCounted
<1>1. IInv => CallsCounted
    BY DEF IInv, Working, Counted, CallsCounted, LoopSteps, Ends
<1> QED
    BY <1>1, InitIInv, StepKeeps, PTL DEF Spec

-----------------------------------------------------------------------------
(* The promise.                                                            *)

LEMMA InitPromise == Init => P!Init
BY DEF Init, P!Init

\* What an agent does between its tool loops, without an end, the promise does not see.
LEMMA Silent ==
    ASSUME pc \notin {"totals", "returned"}, pc' \notin {"totals", "returned"},
           UNCHANGED <<iteration, total, finish, results>>
    PROVE  UNCHANGED P!promiseVars
BY DEF P!promiseVars

\* The node returns an error.
LEMMA Failing ==
    ASSUME Return(Failed)
    PROVE  [P!Next]_P!promiseVars
<1>1. P!Report("failed")
    BY DEF Return, Failed, P!Report, P!Failed
<1> QED
    BY <1>1 DEF P!Next

\* The loop is left for a reason that is true.
LEMMA Ending ==
    ASSUME IInv, NEW why \in P!Reasons, Finish(why),
           pc \notin {"totals", "outputs", "returned"}, UNCHANGED total,
           iteration' \in {iteration, iteration + 1},
           why = "max_iterations" <=> iteration' = MaxIterations,
           why # "max_tool_calls"
    PROVE  [P!Next]_P!promiseVars
<1>1. P!End(why)
    BY DEF IInv, Typed, Working, Ends, Finish, P!End, P!True, P!Reasons
<1> QED
    BY <1>1 DEF P!Next

\* What the context ends with is a reason.
LEMMA ContextReason ==
    ASSUME IInv, ctx # "live"
    PROVE  ctx \in P!Reasons /\ ctx \notin {"max_iterations", "max_tool_calls"}
BY DEF IInv, Typed, P!Reasons

\* The tool loop returns: its calls are known at once.
LEMMA LoopReturns ==
    ASSUME IInv, pc \in {"round", "model"}, pc' = "totals",
           UNCHANGED <<iteration, total, history, finish, results>>
    PROVE  [P!Next]_P!promiseVars
<1>1. Len(history) \in 0 .. MaxCallsPerIteration /\ total \in Nat /\ total < MaxTotalCalls
      /\ finish = "none"
    BY DEF IInv, Typed, Working, Counted, LoopSteps, Ends
<1>2. CASE Len(history) = 0
    BY <1>1, <1>2 DEF P!promiseVars
<1>3. CASE Len(history) > 0
    <2>1. total + Len(history) \in total + 1 .. MaxTotalCalls - 1 + MaxCallsPerIteration
        BY <1>1, <1>3
    <2>2. P!Work
        BY <1>1, <2>1 DEF P!Work
    <2> QED
        BY <2>2 DEF P!Next
<1> QED
    BY <1>1, <1>2, <1>3

\* The steps of RunToolLoop.
LEMMA ToolLoopPromise ==
    ASSUME IInv, ToolLoopStep
    PROVE  [P!Next]_P!promiseVars
<1> USE DEF agentVars, builtinVars, roundVars, detector, endVars
<1>1. CASE BeginRound
    <2>1. UNCHANGED <<iteration, total, history, finish, results>> /\ pc = "round"
        BY <1>1 DEF BeginRound, Returns
    <2>2. pc' = "totals" \/ pc' = "model"
        BY <1>1, Lists DEF BeginRound, Returns, Goto
    <2> QED
        BY <2>1, <2>2, LoopReturns, Silent
<1>2. CASE LoopFails
    <2>1. CASE ctx # "live"
        BY <1>2, <2>1, Ending, ContextReason DEF LoopFails, IInv, Typed, Working, Ends
    <2>2. CASE ctx = "live"
        BY <1>2, <2>2, Failing DEF LoopFails
    <2> QED
        BY <2>1, <2>2
<1>3. CASE NextRound
    BY <1>3, Silent, Lists DEF NextRound, Goto
<1>4. ASSUME NEW said \in {"blank", "said"}, ModelText(said) PROVE [P!Next]_P!promiseVars
    BY <1>4, LoopReturns, Lists DEF ModelText, Goto
<1>5. ASSUME NEW said \in {"blank", "said"}, NEW n \in 1 .. MaxBatch, ModelCalls(n, said)
      PROVE  [P!Next]_P!promiseVars
    <2>1. UNCHANGED <<iteration, total, history, finish, results>> /\ pc = "model"
        BY <1>5 DEF ModelCalls
    <2>2. pc' = "totals" \/ pc' = "calls"
        BY <1>5, Lists DEF ModelCalls, Goto
    <2> QED
        BY <2>1, <2>2, LoopReturns, Silent
<1>6. ASSUME NEW tool, NEW opened, NEW finalised, Call(tool, opened, finalised)
      PROVE  [P!Next]_P!promiseVars
    BY <1>6, Silent DEF Call
<1> QED
    BY <1>1, <1>2, <1>3, <1>4, <1>5, <1>6 DEF ToolLoopStep

\* The other steps of the agent.
LEMMA AgentPromised ==
    ASSUME IInv, AgentStep
    PROVE  [P!Next]_P!promiseVars
<1> USE DEF agentVars, builtinVars, roundVars, detector, endVars
<1>1. CASE Setup
    BY <1>1, Silent, Lists DEF Setup, Goto
<1>2. CASE SetupFails
    BY <1>2, Failing DEF SetupFails
<1>3. CASE BeginIteration
    <2>1. CASE ctx # "live"
        BY <1>3, <2>1, Ending, ContextReason DEF BeginIteration, IInv, Typed, Working, Ends
    <2>2. CASE ctx = "live"
        BY <1>3, <2>2, Silent, Lists DEF BeginIteration, Goto
    <2> QED
        BY <2>1, <2>2
<1>4. CASE Totals
    <2>1. total \in Nat /\ Len(history) \in Nat /\ finish = "none" /\ iteration < MaxIterations
          /\ iteration \in Nat
        BY <1>4 DEF Totals, IInv, Typed, Working, Ends
    <2>2. CASE total' >= MaxTotalCalls
        <3>1. P!End("max_tool_calls")
            BY <1>4, <2>1, <2>2 DEF Totals, Finish, P!End, P!True, P!Reasons
        <3> QED
            BY <3>1 DEF P!Next, P!Reasons
    <2>3. CASE ~ (total' >= MaxTotalCalls)
        <3>1. pc' = "stuck"
            BY <1>4, <2>3, Lists DEF Totals, Goto
        <3> QED
            BY <1>4, <2>3, <3>1 DEF Totals, P!promiseVars
    <2> QED
        BY <2>2, <2>3
<1>5. CASE Record
    <2>1. pc = "stuck" /\ UNCHANGED <<iteration, total>>
        BY <1>5 DEF Record
    <2>2. CASE UNCHANGED <<pc, endVars>>
        BY <2>1, <2>2, Silent
    <2>3. CASE Goto(<<"reflect", "stuck">>) /\ UNCHANGED endVars
        BY <2>1, <2>3, Silent, Lists DEF Goto
    <2>4. CASE Finish("stuck")
        BY <2>1, <2>4, Ending DEF P!Reasons, IInv, Typed, Working, Ends
    <2>5. Level(breaches') \in {"warn", "reflect", "force_exit"}
        BY DEF Level
    <2> QED
        BY <1>5, <2>2, <2>3, <2>4, <2>5 DEF Record
<1>6. CASE Recorded
    BY <1>6, Silent, Lists DEF Recorded, Goto
<1>7. CASE EvaluateFails
    <2>1. CASE ctx # "live"
        BY <1>7, <2>1, Ending, ContextReason DEF EvaluateFails, IInv, Typed, Working, Ends
    <2>2. CASE ctx = "live"
        BY <1>7, <2>2, Silent, Lists DEF EvaluateFails, Goto
    <2> QED
        BY <2>1, <2>2
<1>8. ASSUME NEW v \in Verdicts, Evaluated(v) PROVE [P!Next]_P!promiseVars
    <2>1. pc = "evaluate" /\ UNCHANGED <<iteration, total>>
        BY <1>8 DEF Evaluated
    <2>2. CASE Finish("done") \/ Finish("stuck")
        BY <2>1, <2>2, Ending DEF P!Reasons, IInv, Typed, Working, Ends
    <2>3. CASE UNCHANGED endVars /\ Goto(Rest(v))
        BY <2>1, <2>3, RestFirst, Silent
    <2> QED
        BY <1>8, <2>2, <2>3 DEF Evaluated, Rest
<1>9. CASE Reflected
    BY <1>9, AfterReflection, Silent DEF Reflected, IInv, Continues
<1>10. CASE ReflectFails
    BY <1>10, Failing DEF ReflectFails
<1>11. CASE Flush
    BY <1>11, AfterFlush, Silent DEF Flush, IInv, Continues
<1>12. CASE Summarised
    BY <1>12, AfterSummary, Silent DEF Summarised, IInv, Continues
<1>13. CASE SummaryFails
    BY <1>13, AfterSummary, Silent DEF SummaryFails, IInv, Continues
<1>14. ASSUME NEW over \in BOOLEAN, CheckSize(over) PROVE [P!Next]_P!promiseVars
    BY <1>14, Silent, Lists DEF CheckSize, Goto
<1>15. CASE NextIteration
    <2>1. pc = "tail" /\ UNCHANGED total
        BY <1>15 DEF NextIteration
    <2>2. iteration \in Nat /\ iteration < MaxIterations /\ finish = "none" /\ total < MaxTotalCalls
        BY <2>1 DEF IInv, Typed, Working, Ends
    <2>3. CASE reflections > MaxReflections
        BY <1>15, <2>1, <2>2, <2>3, Ending DEF NextIteration, P!Reasons
    <2>4. CASE ~ (reflections > MaxReflections) /\ iteration + 1 = MaxIterations
        BY <1>15, <2>1, <2>2, <2>4, Ending DEF NextIteration, P!Reasons
    <2>5. CASE ~ (reflections > MaxReflections) /\ iteration + 1 # MaxIterations
        <3>1. pc' = "head" /\ iteration' = iteration + 1 /\ UNCHANGED endVars
            BY <1>15, <2>5, Lists DEF NextIteration, Goto
        <3>2. P!NextRound
            BY <2>1, <2>2, <2>5, <3>1 DEF P!NextRound
        <3> QED
            BY <3>2 DEF P!Next
    <2> QED
        BY <2>3, <2>4, <2>5
<1>16. CASE ResolvePort
    BY <1>16, Silent DEF ResolvePort
<1>17. CASE ExtractFails
    BY <1>17, Failing DEF ExtractFails
<1>18. CASE OutputsDone
    <2>1. P!Report("completed")
        BY <1>18 DEF OutputsDone, Return, P!Report, P!Made, IInv, Working
    <2> QED
        BY <2>1 DEF P!Next
<1> QED
    BY <1>1, <1>2, <1>3, <1>4, <1>5, <1>6, <1>7, <1>8, <1>9, <1>10, <1>11, <1>12, <1>13,
       <1>14, <1>15, <1>16, <1>17, <1>18 DEF AgentStep

\* The superagent of a single process keeps the promise of the node, for any limits, tools
\* and answers of the model: it reports the iterations and calls it made, within the
\* limits, and the reason of its end is true (runAgentLoop, buildMetaOutputs).
THEOREM PromiseKept == Spec => KeepsPromise
<1>1. IInv /\ [Next]_vars => [P!Next]_P!promiseVars
    <2> SUFFICES ASSUME IInv, [Next]_vars PROVE [P!Next]_P!promiseVars
        OBVIOUS
    <2>1. CASE ContextEnds
        BY <2>1, Silent DEF ContextEnds, endVars, agentVars, roundVars, P!promiseVars
    <2>2. CASE UNCHANGED vars
        BY <2>2 DEF vars, endVars, agentVars, roundVars, P!promiseVars
    <2> QED
        BY <2>1, <2>2, ToolLoopPromise, AgentPromised DEF Next
<1> QED
    BY <1>1, InitPromise, InitIInv, StepKeeps, PTL DEF Spec, KeepsPromise, P!Promise
=============================================================================
