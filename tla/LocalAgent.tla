----------------------------- MODULE LocalAgent -----------------------------
(***************************************************************************)
(* The superagent executor of a single process                             *)
(* (engine/executor/superagent.go) and the tool loop each iteration of it  *)
(* runs (engine/executor/llm_tool_loop.go, RunToolLoop).  One goroutine    *)
(* calls the model and the tools in line; only its context ends by itself. *)
(* The tool loop works on its own copy of the conversation and on its own  *)
(* counters, which the agent takes over when the loop returns a result.    *)
(***************************************************************************)
EXTENDS AgentRules

CONSTANTS
    MaxIterations,        \* max_iterations
    MaxCallsPerIteration, \* max_tool_calls_per_iteration: MaxCalls of the tool loop
    MaxRounds,            \* max_tool_loop_rounds: MaxIterations of the tool loop
    MaxTotalCalls,        \* max_total_tool_calls
    MaxReflections,       \* overrides.reflection.max_reflections
    EvaluatorDisabled,    \* overrides.evaluator.disabled
    AutoFlush,            \* shared_memory.auto_flush
    Tool,                 \* the tools, and names the model makes up
    Ports,                \* the number of output ports
    StringPort,           \* the only one is a string
    MaxBatch              \* bound on the tool calls of a response

ASSUME LocalAgentAssumption ==
    /\ {MaxRounds, MaxReflections, Ports} \subseteq Nat
    /\ {MaxIterations, MaxCallsPerIteration, MaxTotalCalls, MaxBatch} \subseteq Nat \ {0}
    /\ {EvaluatorDisabled, AutoFlush, StringPort} \subseteq BOOLEAN

VARIABLES
    pc,       \* where the executor is
    after,    \* the steps of the iteration that follow pc
    ctx,      \* the context of the loop: "live", or what ended it
    messages, \* state.messages
    iteration, total, reflections,
    text,     \* lastResponseText is not blank
    tasks,    \* the task tracker holds tasks
    buffers,  \* the output ports with a finalised buffer
    req,      \* RunToolLoop: req.Messages
    round,    \* its iteration
    todo,     \* calls of the response without an answer; calls the detector has not seen
    history,  \* the calls it made
    last,     \* its last response: "none", "blank" or "said"
    window, breaches, \* the stuck detector
    port,     \* the output port to resolve next
    finish,   \* the finish reason
    made,     \* all the calls that were made
    lost,     \* of them, those of a tool loop that returned an error
    results   \* what Execute returned

agentVars == <<messages, iteration, total, reflections, text>>
builtinVars == <<tasks, buffers>>
roundVars == <<req, round, todo, history, last>>
detector == <<window, breaches>>
endVars == <<port, finish, results>>
vars == <<pc, after, ctx, agentVars, builtinVars, roundVars, detector, endVars, made, lost>>

Steps == {"setup", "head", "round", "model", "calls", "totals", "stuck", "evaluate", "reflect", "flush",
          "summary", "size", "tail", "outputs", "returned"}
Asking == {"model", "evaluate", "reflect", "flush", "summary"}
Reasons == {"none", "timeout", "cancelled", "max_tool_calls", "stuck", "done", "max_iterations"}

TypeOK ==
    /\ pc \in Steps /\ after \in Seq(Steps)
    /\ ctx \in {"live", "timeout", "cancelled"}
    /\ messages \in Seq(Message) /\ req \in Seq(Message)
    /\ {iteration, total, reflections, round, todo, port, made, lost} \subseteq Nat
    /\ text \in BOOLEAN /\ tasks \in BOOLEAN /\ buffers \subseteq 1 .. Ports
    /\ history \in Seq(Tool) /\ last \in {"none", "blank", "said"}
    /\ window \in Seq(Tool) /\ Len(window) <= WindowSize /\ breaches \in Nat
    /\ finish \in Reasons
    /\ results \in Seq([status : {"completed", "failed"}, reason : Reasons, rounds : Nat, calls : Nat])

Init ==
    /\ pc = "setup" /\ after = << >> /\ ctx = "live"
    /\ messages = Opening /\ iteration = 0 /\ total = 0 /\ reflections = 0 /\ text = FALSE
    /\ tasks = FALSE /\ buffers = {}
    /\ req = << >> /\ round = 0 /\ todo = 0 /\ history = << >> /\ last = "none"
    /\ window = << >> /\ breaches = 0
    /\ port = 1 /\ finish = "none" /\ results = << >>
    /\ made = 0 /\ lost = 0

-----------------------------------------------------------------------------
Goto(s) == pc' = Head(s) /\ after' = Tail(s)

\* The loop's context ends with the loop; the outputs use the caller's.
Finish(reason) ==
    /\ pc' = "outputs" /\ after' = << >> /\ finish' = reason
    /\ UNCHANGED <<port, results>>

Failed == [status |-> "failed", reason |-> "none", rounds |-> 0, calls |-> 0]
Return(r) == pc' = "returned" /\ after' = << >> /\ results' = Append(results, r) /\ UNCHANGED <<port, finish>>

\* Configuration, key, provider, the tools of each skill, the prompt and the history given.
Setup ==
    /\ pc = "setup"
    /\ Goto(<<"head">>)
    /\ UNCHANGED <<ctx, agentVars, builtinVars, roundVars, detector, endVars, made, lost>>

SetupFails ==
    /\ pc = "setup"
    /\ Return(Failed)
    /\ UNCHANGED <<ctx, agentVars, builtinVars, roundVars, detector, made, lost>>

\* The head of an iteration: the context, the reminder of the open tasks.
BeginIteration ==
    /\ pc = "head"
    /\ IF ctx # "live"
       THEN Finish(ctx) /\ UNCHANGED <<messages, req, round, history, last>>
       ELSE /\ messages' = IF tasks /\ iteration > 0 THEN Append(messages, System) ELSE messages
            /\ req' = messages' /\ round' = 0 /\ history' = << >> /\ last' = "none"
            /\ Goto(<<"round">>)
            /\ UNCHANGED endVars
    /\ UNCHANGED <<ctx, iteration, total, reflections, text, builtinVars, todo, detector, made, lost>>

-----------------------------------------------------------------------------
(* RunToolLoop.                                                            *)

\* The tool loop returns a result, with a response of the model or without one.
Returns ==
    /\ Goto(<<"totals">>)
    /\ UNCHANGED <<ctx, agentVars, builtinVars, roundVars, detector, endVars, made, lost>>

\* A round begins with a look at the context: "cancelled" is a result like any other.
BeginRound ==
    /\ pc = "round"
    /\ IF ctx # "live"
       THEN Returns
       ELSE /\ Goto(<<"model">>)
            /\ UNCHANGED <<ctx, agentVars, builtinVars, roundVars, detector, endVars, made, lost>>

\* The model, a header of a route or the client cache returns an error, and with it the
\* tool loop: what it did is dropped, and when the context has ended that is the reason.
LoopFails ==
    /\ pc \in {"model", "calls"}
    /\ IF ctx # "live"
       THEN Finish(ctx) /\ UNCHANGED results
       ELSE Return(Failed)
    /\ lost' = Len(history)
    /\ todo' = 0
    /\ UNCHANGED <<ctx, agentVars, builtinVars, req, round, history, last, detector, made>>

\* A response without calls ends the loop; it does not join the conversation.
ModelText(said) ==
    /\ pc = "model" /\ ctx = "live"
    /\ last' = said
    /\ Goto(<<"totals">>)
    /\ UNCHANGED <<ctx, agentVars, builtinVars, req, round, todo, history, detector, endVars, made, lost>>

\* The limits are looked at before the calls are made, and all of them are left.
ModelCalls(n, said) ==
    /\ pc = "model" /\ ctx = "live"
    /\ last' = said
    /\ IF round >= MaxRounds \/ Len(history) + n > MaxCallsPerIteration
       THEN Goto(<<"totals">>) /\ UNCHANGED <<req, todo>>
       ELSE req' = Append(req, Calls(n)) /\ todo' = n /\ Goto(<<"calls">>)
    /\ UNCHANGED <<ctx, agentVars, builtinVars, round, history, detector, endVars, made, lost>>

\* Mutant: a call the interceptor handles is not counted.
CallUncounted(tool, opened, finalised) ==
    /\ pc = "calls" /\ todo > 0
    /\ req' = Append(req, ToolAnswer)
    /\ (history' = Append(history, tool) \/ UNCHANGED history) /\ made' = made + 1 /\ todo' = todo - 1
    /\ tasks' = (tasks \/ opened) /\ buffers' = buffers \union finalised
    /\ UNCHANGED <<pc, after, ctx, agentVars, round, last, detector, endVars, lost>>

\* A built-in tool, an unknown one, an API endpoint or an MCP tool: each call is counted
\* and answered, with its result or its error, whatever the context has become.  A
\* built-in may open tasks and finalise buffers.
Call(tool, opened, finalised) ==
    /\ pc = "calls" /\ todo > 0
    /\ req' = Append(req, ToolAnswer)
    /\ history' = Append(history, tool) /\ made' = made + 1 /\ todo' = todo - 1
    /\ tasks' = (tasks \/ opened) /\ buffers' = buffers \union finalised
    /\ UNCHANGED <<pc, after, ctx, agentVars, round, last, detector, endVars, lost>>

NextRound ==
    /\ pc = "calls" /\ todo = 0
    /\ round' = round + 1
    /\ Goto(<<"round">>)
    /\ UNCHANGED <<ctx, agentVars, builtinVars, req, todo, history, last, detector, endVars, made, lost>>

-----------------------------------------------------------------------------
(* The rest of an iteration.                                               *)

\* Mutant: the calls of the last loop replace those of the loops before.
TotalsReplaced ==
    /\ pc = "totals"
    /\ messages' = req /\ total' = Len(history)
    /\ text' = IF last = "none" THEN text ELSE last = "said"
    /\ todo' = Len(history)
    /\ IF total' >= MaxTotalCalls
       THEN Finish("max_tool_calls")
       ELSE Goto(<<"stuck">>) /\ UNCHANGED endVars
    /\ UNCHANGED <<ctx, iteration, reflections, builtinVars, req, round, history, last>>
    /\ UNCHANGED <<detector, made, lost>>

\* The agent takes the loop's conversation and calls over, and looks at its own limit.
Totals ==
    /\ pc = "totals"
    /\ messages' = req /\ total' = total + Len(history)
    /\ text' = IF last = "none" THEN text ELSE last = "said"
    /\ todo' = Len(history)
    /\ IF total' >= MaxTotalCalls
       THEN Finish("max_tool_calls")
       ELSE Goto(<<"stuck">>) /\ UNCHANGED endVars
    /\ UNCHANGED <<ctx, iteration, reflections, builtinVars, req, round, history, last>>
    /\ UNCHANGED <<detector, made, lost>>

\* StuckDetector.Record, call by call.
Record ==
    /\ pc = "stuck" /\ todo > 0
    /\ todo' = todo - 1
    /\ window' = Slide(window, history[Len(history) - todo + 1])
    /\ breaches' = IF Repeats(window') THEN breaches + 1 ELSE breaches
    /\ CASE breaches' = breaches -> UNCHANGED <<pc, after, messages, endVars>>
         [] breaches' # breaches /\ Level(breaches') = "warn" ->
                messages' = Append(messages, System) /\ UNCHANGED <<pc, after, endVars>>
         [] breaches' # breaches /\ Level(breaches') = "reflect" ->
                Goto(<<"reflect", "stuck">>) /\ UNCHANGED <<messages, endVars>>
         [] breaches' # breaches /\ Level(breaches') = "force_exit" ->
                Finish("stuck") /\ UNCHANGED messages
    /\ UNCHANGED <<ctx, iteration, total, reflections, text, builtinVars, req, round, history, last, made, lost>>

Recorded ==
    /\ pc = "stuck" /\ todo = 0
    /\ Goto(<<IF EvaluatorDisabled THEN "tail" ELSE "evaluate">>)
    /\ UNCHANGED <<ctx, agentVars, builtinVars, roundVars, detector, endVars, made, lost>>

\* An evaluator that fails is passed over, unless the context ended.
EvaluateFails ==
    /\ pc = "evaluate"
    /\ IF ctx # "live" THEN Finish(ctx) ELSE Goto(<<"size">>) /\ UNCHANGED endVars
    /\ UNCHANGED <<ctx, agentVars, builtinVars, roundVars, detector, made, lost>>

Evaluated(v) ==
    /\ pc = "evaluate" /\ ctx = "live"
    /\ IF ~ v.more THEN Finish("done")
       ELSE IF v.stuck /\ reflections >= MaxReflections THEN Finish("stuck")
       ELSE /\ Goto((IF v.stuck THEN <<"reflect">> ELSE << >>)
                    \o (IF v.compact THEN <<"flush">> ELSE << >>) \o <<"size">>)
            /\ UNCHANGED endVars
    /\ UNCHANGED <<ctx, agentVars, builtinVars, roundVars, detector, made, lost>>

Reflected ==
    /\ pc = "reflect" /\ ctx = "live"
    /\ messages' = Append(messages, System) /\ reflections' = reflections + 1
    /\ breaches' = 0
    /\ Goto(after)
    /\ UNCHANGED <<ctx, iteration, total, text, builtinVars, roundVars, window, endVars, made, lost>>

\* A reflection that fails fails the node, also when only the context ended.
ReflectFails ==
    /\ pc = "reflect"
    /\ Return(Failed)
    /\ UNCHANGED <<ctx, agentVars, builtinVars, roundVars, detector, made, lost>>

\* compactContext: the memory flush, whose failure nobody looks at, and the summary.
Flush ==
    /\ pc = "flush"
    /\ Goto(<<"summary">> \o after)
    /\ UNCHANGED <<ctx, agentVars, builtinVars, roundVars, detector, endVars, made, lost>>

Summarised ==
    /\ pc = "summary" /\ ctx = "live"
    /\ messages' = Compacted(messages)
    /\ Goto(after)
    /\ UNCHANGED <<ctx, iteration, total, reflections, text, builtinVars, roundVars, detector>>
    /\ UNCHANGED <<endVars, made, lost>>

SummaryFails ==
    /\ pc = "summary"
    /\ Goto(after)
    /\ UNCHANGED <<ctx, agentVars, builtinVars, roundVars, detector, endVars, made, lost>>

CheckSize(over) ==
    /\ pc = "size"
    /\ Goto(IF over THEN <<"flush", "tail">> ELSE <<"tail">>)
    /\ UNCHANGED <<ctx, agentVars, builtinVars, roundVars, detector, endVars, made, lost>>

NextIteration ==
    /\ pc = "tail"
    /\ IF reflections > MaxReflections
       THEN Finish("stuck") /\ UNCHANGED iteration
       ELSE /\ iteration' = iteration + 1
            /\ IF iteration + 1 = MaxIterations
               THEN Finish("max_iterations")
               ELSE Goto(<<"head">>) /\ UNCHANGED endVars
    /\ UNCHANGED <<ctx, messages, total, reflections, text, builtinVars, roundVars, detector, made, lost>>

-----------------------------------------------------------------------------
(* The outputs.                                                            *)

\* resolveOutputs: a finalised buffer, the final text for a single string port, or what
\* the model extracts.
ResolvePort ==
    /\ pc = "outputs" /\ port <= Ports
    /\ port' = port + 1
    /\ UNCHANGED <<pc, after, ctx, agentVars, builtinVars, roundVars, detector, finish, results, made, lost>>

ExtractFails ==
    /\ pc = "outputs" /\ port <= Ports
    /\ port \notin buffers /\ ~ (Ports = 1 /\ StringPort /\ text)
    /\ Return(Failed)
    /\ UNCHANGED <<ctx, agentVars, builtinVars, roundVars, detector, made, lost>>

\* buildMetaOutputs.
OutputsDone ==
    /\ pc = "outputs" /\ port > Ports
    /\ Return([status |-> "completed", reason |-> finish, rounds |-> iteration, calls |-> total])
    /\ UNCHANGED <<ctx, agentVars, builtinVars, roundVars, detector, made, lost>>

\* The timer of the loop, or whoever cancels the execution.
ContextEnds ==
    /\ pc \notin {"setup", "outputs", "returned"} /\ ctx = "live"
    /\ ctx' \in {"timeout", "cancelled"}
    /\ UNCHANGED <<pc, after, agentVars, builtinVars, roundVars, detector, endVars, made, lost>>

-----------------------------------------------------------------------------
Verdicts == [more : BOOLEAN, stuck : BOOLEAN, compact : BOOLEAN]

ToolLoopStep ==
    \/ BeginRound \/ LoopFails \/ NextRound
    \/ \E said \in {"blank", "said"} : ModelText(said) \/ \E n \in 1 .. MaxBatch : ModelCalls(n, said)
    \/ \E tool \in Tool, opened \in BOOLEAN, finalised \in {{}} \union {{p} : p \in 1 .. Ports} :
        Call(tool, opened, finalised)

AgentStep ==
    \/ Setup \/ SetupFails \/ BeginIteration \/ Totals \/ Record \/ Recorded
    \/ EvaluateFails \/ \E v \in Verdicts : Evaluated(v)
    \/ Reflected \/ ReflectFails \/ Flush \/ Summarised \/ SummaryFails
    \/ \E over \in BOOLEAN : CheckSize(over)
    \/ NextIteration \/ ResolvePort \/ ExtractFails \/ OutputsDone

Next == ToolLoopStep \/ AgentStep \/ ContextEnds

Spec == Init /\ [][Next]_vars /\ WF_vars(ToolLoopStep \/ AgentStep)

-----------------------------------------------------------------------------
(* Properties.                                                             *)

\* The calls an agent reports, and counts against its limit, are the calls it made, except
\* for those of a tool loop that returned an error (runAgentLoop, RunToolLoop).
CallsCounted ==
    /\ pc \notin {"round", "model", "calls", "totals"} => made = total + lost
    /\ lost > 0 => pc \in {"outputs", "returned"}
    /\ made < MaxTotalCalls + MaxCallsPerIteration

P == INSTANCE AgentPromise WITH
        Burst <- MaxCallsPerIteration,
        reason <- IF pc = "returned" THEN "none" ELSE finish,
        rounds <- IF pc = "returned" THEN 0 ELSE iteration,
        calls <- CASE pc = "returned" -> 0 [] pc = "totals" -> total + Len(history) [] OTHER -> total,
        reports <- results

\* The in-process superagent keeps the promise the distributed one keeps.
KeepsPromise == P!Promise

=============================================================================
