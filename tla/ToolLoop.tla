------------------------------ MODULE ToolLoop ------------------------------
(***************************************************************************)
(* The tool loop of an LLM node (worker/llm_call.go).  Every round trip to *)
(* the model is a task of its own: its handler calls the model, fans the   *)
(* tool calls out as tasks, pops their results from the list of its        *)
(* request, queues the task of the next round trip, and then waits on the  *)
(* list of the execution, next to the orchestrator that waits there for    *)
(* the results of the group (executeGroup).  What a handler pops there it  *)
(* pushes back.  All tasks share the slots of one worker                   *)
(* (cmd/worker/main.go), and asynq runs a task again whose handler         *)
(* returned an error or died.                                              *)
(*                                                                         *)
(* Requests are named by their iteration, so a task that runs again uses   *)
(* the list of the run before.                                             *)
(***************************************************************************)
EXTENDS Naturals, Sequences, FiniteSets, SequencesExt

CONSTANTS
    MaxIterations, \* max_loop_iterations
    MaxCalls,      \* max_tool_calls
    MaxBatch,      \* bound on the tool calls of one response
    MaxRetries,    \* MaxRetries of the node's retry policy
    Other,         \* the other nodes of the group
    Slots,         \* Concurrency: tasks the worker runs at a time
    MaxErrors      \* bound on the handlers that time out, fail or die

ASSUME ToolLoopAssumption ==
    /\ {MaxIterations, MaxCalls, MaxRetries, MaxErrors} \subseteq Nat
    /\ {MaxBatch, Slots} \subseteq Nat \ {0}
    /\ IsFiniteSet(Other) /\ Other \cap {"llm", "none"} = {}

VARIABLES
    orch,     \* the fan-in of the group
    popped,   \* the results it consumed
    list,     \* exec:{id}:results, oldest first
    llm,      \* the llm-call tasks in the order they were queued
    tools,    \* the tool-call tasks that are queued or running
    answered, \* iteration -> the results in exec:{id}:llm:{request}:mcp-results
    others,   \* the other nodes that have not pushed yet
    pushed,   \* every result pushed for the first time
    made,     \* tool calls dispatched
    errors,   \* handlers that timed out, failed or died
    crashed   \* one of them died, or could not push

vars == <<orch, popped, list, llm, tools, answered, others, pushed, made, errors, crashed>>

\* A result is known by its node and by its place among the pushes, a call by the place
\* among the dispatches.
Result == [node : Other \union {"llm"}, push : Nat]
NoResult == [node |-> "none", push |-> 0]
Running == {"calling", "tools", "waiting", "holding"}
LLMTask == [at : {"queued", "done"} \union Running, iter : Nat, total : Nat, try : Nat,
            calls : SUBSET Nat, asked : Nat, got : SUBSET Nat,
            hand : Result \union {NoResult}]
ToolTask == [call : Nat, iter : Nat, at : {"queued", "running"}]

TypeOK ==
    /\ orch \in {"waiting", "done"}
    /\ popped \in Seq(Result) /\ Len(popped) <= 1 + Cardinality(Other)
    /\ list \in Seq(Result)
    /\ llm \in Seq(LLMTask)
    /\ \A i \in DOMAIN llm :
        /\ llm[i].iter <= MaxIterations /\ llm[i].total <= MaxCalls
        /\ (llm[i].hand # NoResult) = (llm[i].at = "holding")
    /\ tools \subseteq ToolTask
    /\ answered \in [0 .. MaxIterations -> SUBSET Nat]
    /\ others \subseteq Other
    /\ pushed \subseteq Result
    /\ made \in Nat /\ errors \in Nat /\ crashed \in BOOLEAN

\* A task as it is queued: the payload and nothing else.
Queued(iter, total, try) ==
    [at |-> "queued", iter |-> iter, total |-> total, try |-> try,
     calls |-> {}, asked |-> 0, got |-> {}, hand |-> NoResult]

\* A task whose handler returned: nothing of it is used again.
Done == [Queued(0, 0, 0) EXCEPT !.at = "done"]

Init ==
    /\ orch = "waiting" /\ popped = << >> /\ list = << >>
    /\ llm = <<Queued(0, 0, 0)>>
    /\ tools = {} /\ answered = [k \in 0 .. MaxIterations |-> {}]
    /\ others = Other /\ pushed = {}
    /\ made = 0 /\ errors = 0 /\ crashed = FALSE

-----------------------------------------------------------------------------
\* The slots: the orchestrator keeps one until it ends, a handler while it runs, also
\* while it only waits.
Used ==
    (IF orch = "waiting" THEN 1 ELSE 0)
        + Cardinality({i \in DOMAIN llm : llm[i].at \in Running})
        + Cardinality({t \in tools : t.at = "running"})

Free == Used < Slots

\* pushResult: a new result of the node at the young end of the list.
Push(node) ==
    LET r == [node |-> node, push |-> Cardinality(pushed)]
    IN  list' = Append(list, r) /\ pushed' = pushed \union {r}

Return(i) == llm' = [llm EXCEPT ![i] = Done]

\* asynq runs the task again, from its payload.
Rerun(i) == llm' = [llm EXCEPT ![i] = Queued(llm[i].iter, llm[i].total, llm[i].try)]

\* The request's limits: the round trips made, and the calls made with the new ones.
LimitReached(t, n) == t.iter >= MaxIterations \/ t.total + n > MaxCalls

-----------------------------------------------------------------------------
(* The handler of an llm-call task.                                        *)

Begin(i) ==
    /\ llm[i].at = "queued" /\ Free
    /\ llm' = [llm EXCEPT ![i].at = "calling"]
    /\ UNCHANGED <<orch, popped, list, tools, answered, others, pushed, made, errors, crashed>>

\* The model's last word, also when it is a failure that is not retried: the result goes
\* to the execution's list.
Answer(i) ==
    /\ llm[i].at = "calling"
    /\ Push("llm")
    /\ Return(i)
    /\ UNCHANGED <<orch, popped, tools, answered, others, made, errors, crashed>>

\* shouldRetry: a task of the same request, with the next attempt.
Retry(i) ==
    /\ llm[i].at = "calling" /\ llm[i].try < MaxRetries
    /\ llm' = [llm EXCEPT ![i].at = "queued", ![i].try = @ + 1]
    /\ UNCHANGED <<orch, popped, list, tools, answered, others, pushed, made, errors, crashed>>

\* The model asks for n tools, of which it knows k; within the limits the tasks of
\* those are queued, and the others are answered with an error.
AskTools(i, n, k) ==
    /\ llm[i].at = "calling" /\ k <= n /\ ~ LimitReached(llm[i], n)
    /\ LET calls == made + 1 .. made + k IN
        /\ tools' = tools \union {[call |-> c, iter |-> llm[i].iter, at |-> "queued"] : c \in calls}
        /\ llm' = [llm EXCEPT ![i].at = "tools", ![i].calls = calls, ![i].asked = n]
        /\ made' = made + k
    /\ UNCHANGED <<orch, popped, list, answered, others, pushed, errors, crashed>>

\* Over a limit the calls are not made, and the node ends with what there is.
StopAtLimit(i, n) ==
    /\ llm[i].at = "calling" /\ LimitReached(llm[i], n)
    /\ Push("llm")
    /\ Return(i)
    /\ UNCHANGED <<orch, popped, tools, answered, others, made, errors, crashed>>

\* The queue refuses a tool task: a failure is pushed, the first k tasks stay queued.
DispatchFails(i, n, k) ==
    /\ llm[i].at = "calling" /\ k < n /\ ~ LimitReached(llm[i], n)
    /\ errors < MaxErrors /\ errors' = errors + 1
    /\ tools' = tools \union
            {[call |-> c, iter |-> llm[i].iter, at |-> "queued"] : c \in made + 1 .. made + k}
    /\ made' = made + k
    /\ Push("llm")
    /\ Return(i)
    /\ UNCHANGED <<orch, popped, answered, others, crashed>>

\* One result of a tool: whichever is in the list of the request.
PopTool(i) ==
    /\ llm[i].at = "tools"
    /\ Cardinality(llm[i].got) < Cardinality(llm[i].calls)
    /\ \E c \in answered[llm[i].iter] :
        /\ llm' = [llm EXCEPT ![i].got = @ \union {c}]
        /\ answered' = [answered EXCEPT ![llm[i].iter] = @ \ {c}]
    /\ UNCHANGED <<orch, popped, list, tools, others, pushed, made, errors, crashed>>

\* A tool that does not answer within five minutes fails the node; nothing runs again.
ToolsTimeout(i) ==
    /\ llm[i].at = "tools"
    /\ Cardinality(llm[i].got) < Cardinality(llm[i].calls) /\ answered[llm[i].iter] = {}
    /\ errors < MaxErrors /\ errors' = errors + 1
    /\ Push("llm")
    /\ Return(i)
    /\ UNCHANGED <<orch, popped, tools, answered, others, made, crashed>>

\* Mutant: the wait ends one result early.
NextRoundEarly(i) ==
    /\ llm[i].at = "tools"
    /\ Cardinality(llm[i].got) + 1 >= Cardinality(llm[i].calls)
    /\ answered' = [answered EXCEPT ![llm[i].iter] = {}]
    /\ llm' = Append([llm EXCEPT ![i].at = "waiting"],
                     Queued(llm[i].iter + 1, llm[i].total + llm[i].asked, 0))
    /\ UNCHANGED <<orch, popped, list, tools, others, pushed, made, errors, crashed>>

\* All results are there: the request's list is deleted, the next round trip queued with
\* the counters advanced, by the calls of unknown tools too, and the handler waits.
NextRound(i) ==
    /\ llm[i].at = "tools"
    /\ Cardinality(llm[i].got) = Cardinality(llm[i].calls)
    /\ answered' = [answered EXCEPT ![llm[i].iter] = {}]
    /\ llm' = Append([llm EXCEPT ![i].at = "waiting"],
                     Queued(llm[i].iter + 1, llm[i].total + llm[i].asked, 0))
    /\ UNCHANGED <<orch, popped, list, tools, others, pushed, made, errors, crashed>>

\* The queue refuses the next round trip: the handler returns the error.
NextRoundFails(i) ==
    /\ llm[i].at = "tools"
    /\ Cardinality(llm[i].got) = Cardinality(llm[i].calls)
    /\ errors < MaxErrors /\ errors' = errors + 1
    /\ answered' = [answered EXCEPT ![llm[i].iter] = {}]
    /\ Rerun(i)
    /\ UNCHANGED <<orch, popped, list, tools, others, pushed, made, crashed>>

\* enqueueNextLLMCall waits for "the next LLM call's result", and takes any of the
\* execution.
PopResult(i) ==
    /\ llm[i].at = "waiting" /\ list # << >>
    /\ llm' = [llm EXCEPT ![i].at = "holding", ![i].hand = Head(list)]
    /\ list' = Tail(list)
    /\ UNCHANGED <<orch, popped, tools, answered, others, pushed, made, errors, crashed>>

\* Mutant: what was popped is taken for delivered.
ForwardNothing(i) ==
    /\ llm[i].at = "holding"
    /\ llm' = [llm EXCEPT ![i] = Done]
    /\ UNCHANGED <<orch, popped, list, tools, answered, others, pushed, made, errors, crashed>>

\* Mutant: a handler that forwarded a result waits for the next one.
ForwardAndWait(i) ==
    /\ llm[i].at = "holding"
    /\ list' = Append(list, llm[i].hand)
    /\ llm' = [llm EXCEPT ![i].at = "waiting", ![i].hand = NoResult]
    /\ UNCHANGED <<orch, popped, tools, answered, others, pushed, made, errors, crashed>>

\* It is pushed back, behind whatever came meanwhile, and the handler returns.
Forward(i) ==
    /\ llm[i].at = "holding"
    /\ list' = Append(list, llm[i].hand)
    /\ llm' = [llm EXCEPT ![i] = Done]
    /\ UNCHANGED <<orch, popped, tools, answered, others, pushed, made, errors, crashed>>

\* Nothing comes for ten minutes, or, the orchestrator having taken it, ever: the handler
\* returns the error, and asynq runs the round trip and all that follow it again.
WaitTimeout(i) ==
    /\ llm[i].at = "waiting" /\ list = << >>
    /\ errors < MaxErrors /\ errors' = errors + 1
    /\ Rerun(i)
    /\ UNCHANGED <<orch, popped, list, tools, answered, others, pushed, made, crashed>>

\* The worker dies, or Redis refuses the push: what the handler holds is gone.
Crash(i) ==
    /\ llm[i].at \in Running
    /\ errors < MaxErrors /\ errors' = errors + 1
    /\ crashed' = TRUE
    /\ Rerun(i)
    /\ UNCHANGED <<orch, popped, list, tools, answered, others, pushed, made>>

-----------------------------------------------------------------------------
(* The tool tasks, the other nodes and the orchestrator.                   *)

BeginTool(t) ==
    /\ t.at = "queued" /\ Free
    /\ tools' = (tools \ {t}) \union {[t EXCEPT !.at = "running"]}
    /\ UNCHANGED <<orch, popped, list, llm, answered, others, pushed, made, errors, crashed>>

\* The tool has answered or failed: one result, in the list of the request.
EndTool(t) ==
    /\ t.at = "running"
    /\ tools' = tools \ {t}
    /\ answered' = [answered EXCEPT ![t.iter] = @ \union {t.call}]
    /\ UNCHANGED <<orch, popped, list, llm, others, pushed, made, errors, crashed>>

\* The task of another node runs and pushes its result.
OtherNode(n) ==
    /\ n \in others /\ Free
    /\ others' = others \ {n}
    /\ Push(n)
    /\ UNCHANGED <<orch, popped, llm, tools, answered, made, errors, crashed>>

\* executeGroup counts the results it pops; after the last one the execution ends and its
\* list is deleted.
Collect ==
    /\ orch = "waiting" /\ list # << >>
    /\ popped' = Append(popped, Head(list))
    /\ IF Len(popped') = 1 + Cardinality(Other)
       THEN orch' = "done" /\ list' = << >>
       ELSE list' = Tail(list) /\ UNCHANGED orch
    /\ UNCHANGED <<llm, tools, answered, others, pushed, made, errors, crashed>>

Handler(i) ==
    \/ Begin(i) \/ Answer(i) \/ Retry(i)
    \/ \E n \in 1 .. MaxBatch : \/ StopAtLimit(i, n)
                                \/ \E k \in 0 .. n : AskTools(i, n, k)
    \/ PopTool(i) \/ NextRound(i) \/ PopResult(i) \/ Forward(i)

HandlerError(i) ==
    \/ \E n \in 1 .. MaxBatch : \E k \in 0 .. n : DispatchFails(i, n, k)
    \/ ToolsTimeout(i) \/ NextRoundFails(i) \/ WaitTimeout(i) \/ Crash(i)

Next ==
    \/ \E i \in DOMAIN llm : Handler(i) \/ HandlerError(i)
    \/ \E t \in tools : BeginTool(t) \/ EndTool(t)
    \/ \E n \in Other : OtherNode(n)
    \/ Collect

\* Handlers and tool tasks that have a slot run on, a free slot is given to a task, and
\* the orchestrator pops what is there.  No handler has to time out or die.
MaxTasks == 1 + MaxIterations
Fairness ==
    /\ \A i \in 1 .. MaxTasks : WF_vars(i \in DOMAIN llm /\ Handler(i))
    /\ WF_vars(\E t \in tools : BeginTool(t) \/ EndTool(t))
    /\ \A n \in Other : WF_vars(OtherNode(n))
    /\ WF_vars(Collect)

Spec == Init /\ [][Next]_vars /\ Fairness

-----------------------------------------------------------------------------
(* Properties.                                                             *)

Holding == {llm[i].hand : i \in {j \in DOMAIN llm : llm[j].at = "holding"}}

\* Until the group ends, a result that was pushed is in the list, was consumed or is in
\* the hand of a handler, in one of them and once, however many handlers pop and push
\* back between the node and the orchestrator (enqueueNextLLMCall).  Only a handler that
\* dies between the two calls, or whose push is refused, loses one.
NoResultLost ==
    ~ crashed /\ orch = "waiting" =>
        /\ pushed = ToSet(popped) \union ToSet(list) \union Holding
        /\ Cardinality(pushed) = Len(popped) + Len(list)
                + Cardinality({i \in DOMAIN llm : llm[i].at = "holding"})

\* A round trip that goes on has the answers of exactly the calls it dispatched, although
\* they come in any order and the rounds of a node share names
\* (dispatchAndCollectMCPCalls).
AnswersAreOwn ==
    errors = 0 => \A i \in DOMAIN llm : llm[i].at \in {"waiting", "holding"} => llm[i].got = llm[i].calls

\* The group ends: no handler that pops the results of others keeps them from the
\* orchestrator, and one slot more than the orchestrator and the waiting round trips take
\* is enough (cmd/worker/main.go shares one pool among them).
Reported == <>(orch = "done" \/ errors > 0)

-----------------------------------------------------------------------------
\* docs/nodes/llm.md: max_tool_calls is the maximum of the calls across all iterations.
\* The code breaks it with nothing failing but a wait: when the orchestrator, which waits
\* longer, took the node's result, the handler that waits for it times out, and its task,
\* run again, makes its round trip and its calls again, starting to count at its payload.
CallsBounded == ~ crashed => made <= MaxCalls
=============================================================================
