----------------------------- MODULE Superagent -----------------------------
(***************************************************************************)
(* The superagent of the distributed engine (worker/superagent_handler.go):*)
(* one task that holds the agent's state in memory and sends every call of *)
(* the model and of a tool as a task of its own, waiting for the answer on *)
(* a list named by a counter of the process.  asynq runs the task again,   *)
(* from nothing, when the handler returns an error or its process dies;    *)
(* what the run before asked for is answered all the same.                 *)
(***************************************************************************)
EXTENDS AgentRules

CONSTANTS
    MaxIterations,        \* max_iterations
    MaxCallsPerIteration, \* max_tool_calls_per_iteration
    MaxTotalCalls,        \* max_total_tool_calls
    MaxReflections,       \* overrides.reflection.max_reflections
    EvaluatorDisabled,    \* overrides.evaluator.disabled
    TaskReminders,        \* overrides.task_tracking.enabled
    AutoFlush,            \* shared_memory.auto_flush
    Skills,               \* the MCP skills, each of which is listed
    Builtin,              \* the built-in tools and the introspection of compacted skills
    CodeTools,            \* the code-execution tools
    MCPTools,             \* the tools of the MCP skills
    APITools,             \* the endpoints of the API-tool skills
    Excluded,             \* the tools that are denied or require an approval
    Unknown,              \* names the model makes up
    Ports,                \* the number of output ports
    StringPort,           \* the only one is a string
    MaxBatch,             \* bound on the tool calls of a response
    MaxNested,            \* bound on the tool calls of one execution of code
    MaxRuns,              \* bound on the runs of the task
    MaxFaults             \* bound on refused calls, repeated call tasks and dead workers

ASSUME SuperagentAssumption ==
    /\ {MaxIterations, MaxReflections, Skills, Ports, MaxNested, MaxRuns, MaxFaults} \subseteq Nat
    /\ {MaxCallsPerIteration, MaxTotalCalls, MaxBatch} \subseteq Nat \ {0}
    /\ {EvaluatorDisabled, TaskReminders, AutoFlush, StringPort} \subseteq BOOLEAN

VARIABLES
    pc,       \* where the handler is; also what it is waiting for
    after,    \* the steps of the iteration that follow pc
    ctx,      \* "live", or what ended it: the loop's timer, the task's, a cancellation
    sctx,     \* superagentContext
    todo,     \* calls of the response without an answer; calls the detector has not seen
    call,     \* the tool being called
    nested,   \* the calls the running code has made
    window,   \* the stuck detector's buffer
    breaches, \* its counter
    finish,   \* the finish reason
    port,     \* the output port to resolve next; the skill to list next
    wait,     \* the request the handler waits for
    seq,      \* seqCounter of the process
    queue,    \* the requests that are queued or running
    answers,  \* the answers in the lists, each with the request it answers
    run,      \* how often the task was begun
    moved,    \* a run began in a process with a counter of its own
    faults,   \* refused calls, repeated call tasks and dead workers
    results   \* what was pushed for the orchestrator

batchVars == <<todo, call, nested>>
detector == <<window, breaches>>
vars == <<pc, after, ctx, sctx, batchVars, detector, finish, port,
          wait, seq, queue, answers, run, moved, faults, results>>

loopVars == <<batchVars, detector, finish, port>>
callVars == <<wait, seq, queue, answers>>
taskVars == <<run, moved, faults, results>>
runVars == <<run, moved, results>>

Tools == Builtin \union CodeTools \union MCPTools \union APITools \union Unknown

\* The steps that send a task and wait for its answer.
Asking == {"list", "model", "tool", "nested", "evaluate", "reflect", "flush", "summary", "extract"}
Steps == Asking \union {"head", "calls", "code", "limits", "stuck", "text", "size", "tail",
                        "left", "outputs", "push", "failure", "returned"}
Reasons == {"none", "timeout", "cancelled", "max_tool_calls", "stuck", "done", "max_iterations"}
Request == [key : Nat, run : Nat, for : Asking]
None == [key |-> 0, run |-> 0, for |-> "none"]

TypeOK ==
    /\ pc \in Steps /\ after \in Seq(Steps)
    /\ ctx \in {"live", "timeout", "deadline", "cancelled"}
    /\ sctx \in [messages : Seq(Message), iteration : Nat, total : Nat, reflections : Nat,
                 history : Seq(Tools), lastResp : BOOLEAN, tasks : BOOLEAN,
                 buffers : SUBSET (1 .. Ports)]
    /\ todo \in Nat /\ call \in Tools \union {"none"} /\ nested \in 0 .. MaxNested
    /\ window \in Seq(Tools) /\ Len(window) <= WindowSize
    /\ breaches \in Nat
    /\ finish \in Reasons /\ port \in Nat
    /\ wait \in Request \union {None} /\ seq \in Nat
    /\ queue \subseteq Request /\ answers \subseteq Request
    /\ run \in Nat /\ moved \in BOOLEAN /\ faults \in Nat
    /\ results \in Seq([status : {"completed", "failed"}, reason : Reasons, rounds : Nat, calls : Nat])

\* superagentContext as a run makes it.  toolHistory is what this iteration added.
Fresh == [messages |-> Opening, iteration |-> 0, total |-> 0, reflections |-> 0,
          history |-> << >>, lastResp |-> FALSE, tasks |-> FALSE, buffers |-> {}]

Init ==
    /\ pc = "list" /\ after = << >> /\ ctx = "live" /\ sctx = Fresh
    /\ todo = 0 /\ call = "none" /\ nested = 0 /\ window = << >> /\ breaches = 0
    /\ finish = "none" /\ port = 1
    /\ wait = None /\ seq = 0 /\ queue = {} /\ answers = {}
    /\ run = 1 /\ moved = FALSE /\ faults = 0 /\ results = << >>

-----------------------------------------------------------------------------
(* Steps of the handler, and calls.                                        *)

\* On to the next step of the list s.
Goto(s) == pc' = Head(s) /\ after' = Tail(s)

\* A tool is routed when a skill has it: the policies are applied to MCP tools only.
Routed == APITools \union (MCPTools \ Excluded)

\* The loop's context says only timeout or cancelled; the task's own ends it, too.
Ended == IF ctx = "cancelled" THEN "cancelled" ELSE "timeout"
TaskEnded == ctx \in {"deadline", "cancelled"}

\* Once the loop is left its context is gone, and calls use the task's.
CallContextEnded == IF pc = "extract" THEN TaskEnded ELSE ctx # "live"

\* The step sends its request: the next number of the counter names the list.
Send ==
    /\ wait = None
    /\ LET r == [key |-> seq + 1, run |-> run, for |-> pc]
       IN  wait' = r /\ queue' = queue \union {r}
    /\ seq' = seq + 1
    /\ UNCHANGED answers

\* BRPOP takes whatever is in the list of that name.
Pop ==
    /\ wait # None
    /\ \E a \in answers : a.key = wait.key /\ answers' = answers \ {a}
    /\ wait' = None
    /\ UNCHANGED <<seq, queue>>

\* The call ends with its context, or the queue or Redis refuses it.
GiveUp(broken) ==
    /\ IF broken
       THEN faults < MaxFaults /\ faults' = faults + 1
       ELSE wait # None /\ CallContextEnded /\ UNCHANGED faults
    /\ wait' = None
    /\ UNCHANGED <<seq, queue, answers>>

\* No answer of the model is to be had: one that says so counts, too.
NoAnswer(broken) == (~ broken /\ Pop /\ UNCHANGED faults) \/ GiveUp(broken)

\* The loop's variables out of their scope.
Locals == todo' = 0 /\ call' = "none" /\ nested' = 0 /\ window' = << >> /\ breaches' = 0

Finish(reason) == pc' = "left" /\ after' = << >> /\ finish' = reason
Fail == pc' = "failure" /\ after' = << >> /\ UNCHANGED finish

\* The error of a call of the loop: a context that ended is a finish reason.
EndOrFail == IF ctx # "live" THEN Finish(Ended) ELSE Fail

Ask ==
    /\ pc \in Asking
    /\ pc = "list" => port <= Skills
    /\ pc = "flush" => AutoFlush
    /\ Send
    /\ UNCHANGED <<pc, after, ctx, sctx, loopVars, taskVars>>

-----------------------------------------------------------------------------
(* ProcessTask up to the loop.                                             *)

\* A configuration, key, API tool or prompt that does not resolve.
SetupFails ==
    /\ pc = "list" /\ wait = None
    /\ Fail
    /\ faults < MaxFaults /\ faults' = faults + 1
    /\ UNCHANGED <<ctx, sctx, batchVars, detector, port, callVars, runVars>>

Listed ==
    /\ pc = "list" /\ Pop
    /\ port' = port + 1
    /\ UNCHANGED <<pc, after, ctx, sctx, batchVars, detector, finish, taskVars>>

\* A list that is an error, two minutes without an answer, or the context's end.
ListFails(broken) ==
    /\ pc = "list" /\ NoAnswer(broken)
    /\ Fail
    /\ UNCHANGED <<ctx, sctx, batchVars, detector, port, runVars>>

StartLoop ==
    /\ pc = "list" /\ port > Skills /\ wait = None
    /\ port' = 1
    /\ IF MaxIterations = 0 THEN Finish("max_iterations") ELSE Goto(<<"head">>) /\ UNCHANGED finish
    /\ UNCHANGED <<ctx, sctx, batchVars, detector, callVars, taskVars>>

-----------------------------------------------------------------------------
(* The loop: an iteration's responses and calls.                           *)

\* The iteration begins with the reminder of the tasks, unless time is up.
BeginIteration ==
    /\ pc = "head"
    /\ IF ctx # "live"
       THEN Finish(Ended) /\ UNCHANGED sctx
       ELSE /\ Goto(<<"model">>) /\ UNCHANGED finish
            /\ sctx' = [sctx EXCEPT
                 !.messages = IF TaskReminders /\ sctx.tasks /\ sctx.iteration > 0
                              THEN Append(@, System) ELSE @,
                 !.history = << >>]
    /\ UNCHANGED <<ctx, batchVars, detector, port, callVars, taskVars>>

ModelFails(broken) ==
    /\ pc = "model" /\ NoAnswer(broken)
    /\ EndOrFail
    /\ UNCHANGED <<ctx, sctx, batchVars, detector, port, runVars>>

\* A text ends the responses of the iteration.
ModelText(blank) ==
    /\ pc = "model" /\ Pop
    /\ sctx' = [sctx EXCEPT !.messages = Append(@, Text), !.lastResp = ~ blank]
    /\ Goto(<<"limits">>)
    /\ UNCHANGED <<ctx, loopVars, taskVars>>

\* The response asks for n tools.
ModelCalls(n) ==
    /\ pc = "model" /\ Pop
    /\ sctx' = [sctx EXCEPT !.messages = Append(@, Calls(n))]
    /\ todo' = n
    /\ Goto(<<"calls">>)
    /\ UNCHANGED <<ctx, call, nested, detector, finish, port, taskVars>>

\* The next call of the batch is answered; n calls count for the limit of all.
Answered(tool, n) ==
    /\ sctx' = [sctx EXCEPT !.messages = Append(@, ToolAnswer),
                            !.history = Append(@, tool), !.total = @ + n]
    /\ todo' = todo - 1 /\ call' = "none" /\ nested' = 0

\* A built-in tool works on the agent's own state and counts for the iteration only.
CallBuiltin(tool, tasks, buffers) ==
    /\ pc = "calls" /\ todo > 0 /\ tool \in Builtin
    /\ tasks \in {sctx.tasks, TRUE} /\ sctx.buffers \subseteq buffers
    /\ sctx' = [sctx EXCEPT !.messages = Append(@, ToolAnswer), !.tasks = tasks,
                            !.buffers = buffers, !.history = Append(@, tool)]
    /\ todo' = todo - 1
    /\ UNCHANGED <<pc, after, ctx, call, nested, detector, finish, port, callVars, taskVars>>

\* A name nobody knows, or a tool the policies exclude, is answered with an error.
CallUnknown(tool) ==
    /\ pc = "calls" /\ todo > 0 /\ tool \in Tools \ (Builtin \union CodeTools \union Routed)
    /\ Answered(tool, 0)
    /\ UNCHANGED <<pc, after, ctx, detector, finish, port, callVars, taskVars>>

\* A routed call, an MCP tool's or an endpoint's.
CallTool(tool) ==
    /\ pc = "calls" /\ todo > 0 /\ tool \in Routed
    /\ call' = tool
    /\ Goto(<<"tool">>)
    /\ UNCHANGED <<ctx, sctx, todo, nested, detector, finish, port, callVars, taskVars>>

\* The tool's answer, also when it is an error.
ToolAnswered(kind) ==
    /\ pc = "tool" /\ call \in kind
    /\ Pop
    /\ Answered(call, 1)
    /\ Goto(<<"calls">>)
    /\ UNCHANGED <<ctx, detector, finish, port, taskVars>>
MCPToolAnswered == ToolAnswered(MCPTools \ APITools)
APIToolAnswered == ToolAnswered(APITools)

ToolFails(broken) ==
    /\ pc = "tool" /\ GiveUp(broken)
    /\ EndOrFail
    /\ UNCHANGED <<ctx, sctx, batchVars, detector, port, runVars>>

\* Code calls tools of its own while it runs (the relay is module CodeExec).
RunCode(tool) ==
    /\ pc = "calls" /\ todo > 0 /\ tool \in CodeTools
    /\ call' = tool
    /\ Goto(<<"code">>)
    /\ UNCHANGED <<ctx, sctx, todo, nested, detector, finish, port, callVars, taskVars>>

CodeCallsTool ==
    /\ pc = "code" /\ nested < MaxNested
    /\ nested' = nested + 1
    /\ Goto(<<"nested">>)
    /\ UNCHANGED <<ctx, sctx, todo, call, detector, finish, port, callVars, taskVars>>

\* Whatever becomes of such a call, the code gets an answer and the call counts.
CodeToolAnswered(broken) ==
    /\ pc = "nested" /\ NoAnswer(broken)
    /\ sctx' = [sctx EXCEPT !.total = @ + 1]
    /\ Goto(<<"code">>)
    /\ UNCHANGED <<ctx, loopVars, runVars>>

\* The code has ended, or could not be run, or the context ended: an answer in each case.
CodeEnds ==
    /\ pc = "code"
    /\ Answered(call, 0)
    /\ Goto(<<"calls">>)
    /\ UNCHANGED <<ctx, detector, finish, port, callVars, taskVars>>

\* Mutant: the limit of the iteration ends a batch, too.
BatchCut ==
    /\ pc = "calls" /\ (todo = 0 \/ Len(sctx.history) >= MaxCallsPerIteration)
    /\ IF Len(sctx.history) >= MaxCallsPerIteration
       THEN Goto(<<"limits">>) /\ UNCHANGED finish
       ELSE IF sctx.total >= MaxTotalCalls
       THEN Finish("max_tool_calls")
       ELSE Goto(<<"model">>) /\ UNCHANGED finish
    /\ UNCHANGED <<ctx, sctx, batchVars, detector, port, callVars, taskVars>>

\* The batch is answered: the limit of the iteration first, then the one of all.
BatchDone ==
    /\ pc = "calls" /\ todo = 0
    /\ IF Len(sctx.history) >= MaxCallsPerIteration
       THEN Goto(<<"limits">>) /\ UNCHANGED finish
       ELSE IF sctx.total >= MaxTotalCalls
       THEN Finish("max_tool_calls")
       ELSE Goto(<<"model">>) /\ UNCHANGED finish
    /\ UNCHANGED <<ctx, sctx, batchVars, detector, port, callVars, taskVars>>

-----------------------------------------------------------------------------
(* The loop: limits, stuck detection, evaluation.                          *)

\* The calls of the iteration go to the detector one by one.
Limits ==
    /\ pc = "limits"
    /\ IF sctx.total >= MaxTotalCalls
       THEN Finish("max_tool_calls") /\ UNCHANGED todo
       ELSE todo' = Len(sctx.history) /\ Goto(<<"stuck">>) /\ UNCHANGED finish
    /\ UNCHANGED <<ctx, sctx, call, nested, detector, port, callVars, taskVars>>

\* Record: the counter goes up at every call while something in the window repeats.
Record ==
    /\ pc = "stuck" /\ todo > 0
    /\ todo' = todo - 1
    /\ window' = Slide(window, sctx.history[Len(sctx.history) - todo + 1])
    /\ IF ~ Repeats(window')
       THEN UNCHANGED <<pc, after, sctx, breaches, finish>>
       ELSE CASE Level(breaches + 1) = "warn" ->
                   /\ breaches' = breaches + 1
                   /\ sctx' = [sctx EXCEPT !.messages = Append(@, System)]
                   /\ UNCHANGED <<pc, after, finish>>
              [] Level(breaches + 1) = "reflect" ->
                   /\ breaches' = breaches + 1
                   /\ Goto(<<"reflect", "stuck">>)
                   /\ UNCHANGED <<sctx, finish>>
              [] Level(breaches + 1) = "force_exit" ->
                   /\ breaches' = breaches + 1
                   /\ Finish("stuck")
                   /\ UNCHANGED sctx
    /\ UNCHANGED <<ctx, call, nested, port, callVars, taskVars>>

\* Without an evaluator the first iteration without a call is the last.
Recorded ==
    /\ pc = "stuck" /\ todo = 0
    /\ IF EvaluatorDisabled /\ sctx.history = << >>
       THEN Finish("done")
       ELSE Goto(<<IF EvaluatorDisabled THEN "tail" ELSE "evaluate">>) /\ UNCHANGED finish
    /\ UNCHANGED <<ctx, sctx, batchVars, detector, port, callVars, taskVars>>

\* An evaluator that fails is passed over.
EvaluateFails(broken) ==
    /\ pc = "evaluate" /\ NoAnswer(broken)
    /\ IF ctx # "live" THEN Finish(Ended) ELSE Goto(<<"size">>) /\ UNCHANGED finish
    /\ UNCHANGED <<ctx, sctx, batchVars, detector, port, runVars>>

\* The evaluator's verdict: done, stuck, or more to do, after a reflection or compaction.
Evaluated(v) ==
    /\ pc = "evaluate" /\ Pop
    /\ IF ~ v.more
       THEN Finish("done")
       ELSE IF v.stuck /\ sctx.reflections >= MaxReflections
       THEN Finish("stuck")
       ELSE /\ Goto((IF v.stuck THEN <<"reflect">> ELSE << >>)
                    \o (IF v.compact THEN <<"flush">> ELSE << >>) \o <<"size">>)
            /\ UNCHANGED finish
    /\ UNCHANGED <<ctx, sctx, batchVars, detector, port, taskVars>>

\* A reflection that fails ends the node, also when only its time was up.
ReflectFails(broken) ==
    /\ pc = "reflect" /\ NoAnswer(broken)
    /\ Fail
    /\ UNCHANGED <<ctx, sctx, batchVars, detector, port, runVars>>

\* The reflection joins the conversation, and the detector's counter starts anew.
Reflected ==
    /\ pc = "reflect" /\ Pop
    /\ sctx' = [sctx EXCEPT !.messages = Append(@, System), !.reflections = @ + 1]
    /\ breaches' = 0
    /\ Goto(after)
    /\ UNCHANGED <<ctx, batchVars, window, finish, port, taskVars>>

\* compactContext: what the conversation says is stored in the memory first, if it may be.
Flush(broken) ==
    /\ pc = "flush"
    /\ IF AutoFlush THEN NoAnswer(broken) ELSE ~ broken /\ UNCHANGED <<callVars, faults>>
    /\ Goto(<<"summary">> \o after)
    /\ UNCHANGED <<ctx, sctx, loopVars, runVars>>

\* The summary replaces the messages; without one they stay.
Summarised ==
    /\ pc = "summary" /\ Pop
    /\ sctx' = [sctx EXCEPT !.messages = Compacted(@)]
    /\ Goto(after)
    /\ UNCHANGED <<ctx, loopVars, taskVars>>

SummaryFails(broken) ==
    /\ pc = "summary" /\ NoAnswer(broken)
    /\ Goto(after)
    /\ UNCHANGED <<ctx, sctx, loopVars, runVars>>

\* The estimate of the tokens is over the threshold, or not.
CheckSize(over) ==
    /\ pc = "size"
    /\ Goto(IF over THEN <<"flush", "tail">> ELSE <<"tail">>)
    /\ UNCHANGED <<ctx, sctx, loopVars, callVars, taskVars>>

\* The end of an iteration.
NextIteration ==
    /\ pc = "tail"
    /\ IF sctx.reflections > MaxReflections
       THEN Finish("stuck") /\ UNCHANGED sctx
       ELSE /\ sctx' = [sctx EXCEPT !.iteration = @ + 1]
            /\ IF sctx.iteration + 1 = MaxIterations
               THEN Finish("max_iterations")
               ELSE Goto(<<"head">>) /\ UNCHANGED finish
    /\ UNCHANGED <<ctx, batchVars, detector, port, callVars, taskVars>>

-----------------------------------------------------------------------------
(* Outputs and the result.                                                 *)

\* The loop's context is gone, and its variables.
LeaveLoop ==
    /\ pc = "left"
    /\ Locals
    /\ sctx' = [sctx EXCEPT !.history = << >>]
    /\ Goto(<<"outputs">>)
    /\ UNCHANGED <<ctx, finish, port, callVars, taskVars>>

\* A finalised buffer, or the text of the agent, is the output.
ResolvePort ==
    /\ pc = "outputs" /\ port <= Ports
    /\ \/ port \in sctx.buffers
       \/ /\ Ports = 1 /\ StringPort
          /\ sctx.lastResp \/ \E m \in ToSet(sctx.messages) : m.role \in {"assistant", "calls"}
    /\ port' = port + 1
    /\ UNCHANGED <<pc, after, ctx, sctx, batchVars, detector, finish, callVars, taskVars>>

\* Else the model extracts it.
ExtractPort ==
    /\ pc = "outputs" /\ port <= Ports
    /\ port \notin sctx.buffers /\ ~ (Ports = 1 /\ StringPort /\ sctx.lastResp)
    /\ Goto(<<"extract">>)
    /\ UNCHANGED <<ctx, sctx, loopVars, callVars, taskVars>>

Extracted ==
    /\ pc = "extract" /\ Pop
    /\ port' = port + 1
    /\ Goto(<<"outputs">>)
    /\ UNCHANGED <<ctx, sctx, batchVars, detector, finish, taskVars>>

ExtractFails(broken) ==
    /\ pc = "extract" /\ NoAnswer(broken)
    /\ Fail
    /\ UNCHANGED <<ctx, sctx, batchVars, detector, port, runVars>>

OutputsDone ==
    /\ pc = "outputs" /\ port > Ports
    /\ Goto(<<"push">>)
    /\ UNCHANGED <<ctx, sctx, loopVars, callVars, taskVars>>

\* The meta outputs, and what pushFailure says instead.
Completed == [status |-> "completed", reason |-> finish, rounds |-> sctx.iteration, calls |-> sctx.total]
Failure == [status |-> "failed", reason |-> "none", rounds |-> 0, calls |-> 0]

\* The result goes to the execution's list, with the task's context.
Push ==
    /\ pc \in {"push", "failure"} /\ ~ TaskEnded
    /\ results' = Append(results, IF pc = "push" THEN Completed ELSE Failure)
    /\ Goto(<<"returned">>) /\ Locals /\ sctx' = Fresh /\ finish' = "none" /\ port' = 1
    /\ UNCHANGED <<ctx, callVars, run, moved, faults>>

\* Mutant: the calls of the run before still count.
BeginCounting(fresh) ==
    /\ pc' = "list" /\ after' = << >> /\ ctx' = "live" /\ sctx' = [Fresh EXCEPT !.total = sctx.total]
    /\ Locals /\ finish' = "none" /\ port' = 1 /\ wait' = None
    /\ seq' = (IF fresh THEN 0 ELSE seq)
    /\ moved' = (moved \/ fresh)
    /\ run' = run + 1
    /\ UNCHANGED <<queue, answers, results>>

\* Everything in memory is gone, and the counter, too, in another process.
Begin(fresh) ==
    /\ pc' = "list" /\ after' = << >> /\ ctx' = "live" /\ sctx' = Fresh
    /\ Locals /\ finish' = "none" /\ port' = 1 /\ wait' = None
    /\ seq' = (IF fresh THEN 0 ELSE seq)
    /\ moved' = (moved \/ fresh)
    /\ run' = run + 1
    /\ UNCHANGED <<queue, answers, results>>

\* Mutant: the failed push is only logged.
PushGivesUp(fresh) ==
    /\ pc \in {"push", "failure"} /\ TaskEnded
    /\ Goto(<<"returned">>) /\ UNCHANGED <<ctx, sctx, loopVars, callVars, taskVars>>

\* The push fails with the context: the handler returns an error, and the task is run
\* again, in this process or in another one.
PushFails(fresh) ==
    /\ pc \in {"push", "failure"} /\ TaskEnded
    /\ IF run < MaxRuns
       THEN Begin(fresh) /\ UNCHANGED faults
       ELSE Goto(<<"returned">>) /\ UNCHANGED <<ctx, sctx, loopVars, callVars, taskVars>>

-----------------------------------------------------------------------------
(* The surroundings.                                                       *)

\* The loop's timer, then the task's, 60 s later, or a shutdown.
TimeUp ==
    /\ pc # "returned"
    /\ \/ ctx = "live" /\ pc \notin {"list", "left", "outputs", "extract", "push", "failure"} /\ ctx' = "timeout"
       \/ ctx \in {"live", "timeout"} /\ ctx' \in {"deadline", "cancelled"}
    /\ UNCHANGED <<pc, after, sctx, loopVars, callVars, taskVars>>

\* The worker dies.
Crash ==
    /\ pc # "returned" /\ run < MaxRuns
    /\ faults < MaxFaults /\ faults' = faults + 1
    /\ Begin(TRUE)

\* A call task runs; asynq runs it again when it could not acknowledge it.
Serve(r, again) ==
    /\ r \in queue
    /\ answers' = answers \union {r}
    /\ IF again
       THEN faults < MaxFaults /\ faults' = faults + 1 /\ UNCHANGED queue
       ELSE queue' = queue \ {r} /\ UNCHANGED faults
    /\ UNCHANGED <<pc, after, ctx, sctx, loopVars, wait, seq, runVars>>

Verdicts == [more : BOOLEAN, stuck : BOOLEAN, compact : BOOLEAN]

\* Whatever the answers are, and unless the infrastructure refuses a call (broken).
Handler(broken) ==
    \/ ListFails(broken) \/ ModelFails(broken) \/ ToolFails(broken) \/ CodeToolAnswered(broken)
    \/ EvaluateFails(broken) \/ ReflectFails(broken) \/ Flush(broken) \/ SummaryFails(broken)
    \/ ExtractFails(broken)

Progress ==
    \/ Ask \/ Listed \/ StartLoop \/ BeginIteration
    \/ \E blank \in BOOLEAN : ModelText(blank)
    \/ \E n \in 1 .. MaxBatch : ModelCalls(n)
    \/ \E tool \in Tools :
        \/ \E tasks \in BOOLEAN, buffers \in SUBSET (1 .. Ports) : CallBuiltin(tool, tasks, buffers)
        \/ CallUnknown(tool) \/ CallTool(tool) \/ RunCode(tool)
    \/ MCPToolAnswered \/ APIToolAnswered \/ CodeCallsTool \/ CodeEnds \/ BatchDone
    \/ Limits \/ Record \/ Recorded
    \/ \E v \in Verdicts : Evaluated(v)
    \/ Reflected \/ Summarised
    \/ \E over \in BOOLEAN : CheckSize(over)
    \/ NextIteration \/ LeaveLoop \/ ResolvePort \/ ExtractPort \/ Extracted \/ OutputsDone
    \/ Push \/ \E fresh \in BOOLEAN : PushFails(fresh)
    \/ Handler(FALSE)

Next ==
    \/ Progress
    \/ SetupFails \/ Handler(TRUE) \/ TimeUp \/ Crash
    \/ \E r \in queue, again \in BOOLEAN : Serve(r, again)

\* A handler that can go on does, and a queued call is answered in the end.
Fairness ==
    /\ WF_vars(Progress)
    /\ WF_vars(\E r \in queue : Serve(r, FALSE))

Spec == Init /\ [][Next]_vars /\ Fairness

-----------------------------------------------------------------------------
\* What a step can add before the limit is looked at: a batch, each call of it code.
Burst == MaxBatch * (1 + MaxNested)

P == INSTANCE AgentPromise WITH
        reason <- finish, rounds <- sctx.iteration, calls <- sctx.total, reports <- results

-----------------------------------------------------------------------------
(* Properties.                                                             *)

\* The answer a handler pops is the one to its own request, of this run, and not a late one
\* of another call: unless a run went to another process, whose counter names lists anew.
AnswersAreOwn ==
    ~ moved /\ wait # None => \A r \in queue \union answers : r.key = wait.key => r = wait

\* What the model is sent in the loop has an answer to every tool call of the agent,
\* whatever the history given, the tool, its failure and the limits; when the history has
\* all its answers, to every call at all.  A compaction cuts a round at its seam only.
\* Only the extraction after a loop that ran out of time in a batch sees calls without an
\* answer; they are in the _conversation_history of that agent, too, and a later agent that
\* is given it sends them on as they are.
Conversation ==
    pc \in {"model", "evaluate", "reflect", "flush", "summary", "extract"} =>
        /\ AllAnswered(sctx.messages) \/ (pc = "extract" /\ finish \in {"timeout", "cancelled"})
        /\ OrphansAtSeam(sctx.messages)

\* The superagent of the distributed engine keeps the promise of the node, across runs of
\* its task: what a run reports is what that run did.
KeepsPromise == P!Promise

\* The task ends: with a result, or after its last run, whatever the model answers.
Reported == <>(pc = "returned" /\ (results # << >> \/ run = MaxRuns))
=============================================================================
