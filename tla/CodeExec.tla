------------------------------ MODULE CodeExec ------------------------------
(***************************************************************************)
(* Code that a superagent runs: the relay in the superagent's handler      *)
(* (worker/superagent_handler.go), the runner in a coderunner process      *)
(* (worker/code_exec_runner.go) and the Python process it starts           *)
(* (engine/codeexec/assets).  The first two share three lists in Redis for *)
(* each execution, the last two a pair of pipes and a directory.  Each     *)
(* side has its own end of time, and neither tells the other of it but by  *)
(* these lists.  A call of Redis begun with an ended context fails at once; *)
(* one that is blocked already is not interrupted (ContextTimeoutEnabled is *)
(* not set, cmd/coderunner/main.go), and a client that is blocked on a list *)
(* has what is pushed to it before anybody can delete it.                  *)
(***************************************************************************)
EXTENDS Naturals, Sequences, FiniteSets, SequencesExt

CONSTANTS
    Execs,         \* bound on the executions the model asks for
    MaxExecutions, \* max_executions_per_run
    MaxToolCalls,  \* max_tool_calls_per_execution
    MaxAsked,      \* bound on the calls the code tries
    Slots,         \* BROCKLEY_CODERUNNER_CONCURRENCY
    MaxFaults      \* bound on refused Redis calls and dead coderunners

ASSUME CodeExecAssumption ==
    /\ {Execs, MaxExecutions, MaxAsked, MaxFaults} \subseteq Nat
    /\ {MaxToolCalls, Slots} \subseteq Nat \ {0}

VARIABLES
    ctx,       \* the context of the superagent's loop
    count,     \* codeExecCount
    cur,       \* the execution the handler relays, 0 for none
    relay,     \* where codeExecRelayLoop is
    hand,      \* the request it works on
    answer,    \* execution -> what the model was told of it
    callbacks, \* execution -> the list of requests
    responses, \* execution -> the list of responses
    outcome,   \* execution -> the list of results
    runner,    \* execution -> where codeExecRunner is
    deadline,  \* execution -> the runner's context has ended
    asked,     \* execution -> toolCalls of the runner
    req,       \* execution -> the request the runner handles
    code,      \* execution -> where the Python process is
    seq,       \* execution -> _seq, the calls it made
    pipe,      \* execution -> the signals on its standard output
    stdin,     \* execution -> the signals on its standard input
    got,       \* execution -> what the last call of the code returned
    tools,     \* execution -> the tools called for it
    faults     \* refused Redis calls and dead coderunners

handlerVars == <<ctx, count, cur, relay, hand, answer>>
lists == <<callbacks, responses, outcome>>
runnerVars == <<runner, deadline, asked, req>>
codeVars == <<code, seq, pipe, stdin, got>>
vars == <<handlerVars, lists, runnerVars, codeVars, tools, faults>>

Exec == 1 .. Execs

\* What answers call n of the code: the response to the request n, an error, a cancel.
Response == [kind : {"result", "error", "cancel"}, n : Nat]
Nothing == [kind |-> "none", n |-> 0]
Statuses == {"completed", "error", "timeout", "cancelled"}

TypeOK ==
    /\ ctx \in {"live", "ended"} /\ count \in Nat /\ cur \in 0 .. Execs
    /\ relay \in {"idle", "pop", "dispatch", "cleanup"} /\ hand \in Nat
    /\ answer \in [Exec -> Statuses \union {"none", "refused"}]
    /\ callbacks \in [Exec -> Seq(Nat)] /\ (\A e \in Exec : Len(callbacks[e]) <= 1 + faults)
    /\ responses \in [Exec -> Seq(Response)]
    /\ outcome \in [Exec -> Seq(Statuses)]
    /\ runner \in [Exec -> {"none", "queued", "scan", "push", "sent", "await", "drain", "done"}]
    /\ deadline \in [Exec -> BOOLEAN] /\ asked \in [Exec -> Nat] /\ req \in [Exec -> Nat]
    /\ code \in [Exec -> {"none", "run", "wait", "ended", "killed"}] /\ seq \in [Exec -> Nat]
    /\ pipe \in [Exec -> Seq(Nat)] /\ stdin \in [Exec -> Seq(Response)]
    /\ got \in [Exec -> Response \union {Nothing}]
    /\ tools \in [Exec -> Nat] /\ faults \in Nat

Init ==
    /\ ctx = "live" /\ count = 0 /\ cur = 0 /\ relay = "idle" /\ hand = 0
    /\ answer = [e \in Exec |-> "none"]
    /\ callbacks = [e \in Exec |-> << >>] /\ responses = [e \in Exec |-> << >>]
    /\ outcome = [e \in Exec |-> << >>]
    /\ runner = [e \in Exec |-> "none"] /\ deadline = [e \in Exec |-> FALSE]
    /\ asked = [e \in Exec |-> 0] /\ req = [e \in Exec |-> 0]
    /\ code = [e \in Exec |-> "none"] /\ seq = [e \in Exec |-> 0]
    /\ pipe = [e \in Exec |-> << >>] /\ stdin = [e \in Exec |-> << >>]
    /\ got = [e \in Exec |-> Nothing]
    /\ tools = [e \in Exec |-> 0] /\ faults = 0

\* x at the young end of the list l of execution e; its oldest element taken off.
Put(l, e, x) == [l EXCEPT ![e] = Append(@, x)]
Take(l, e) == [l EXCEPT ![e] = Tail(@)]
Fault == faults < MaxFaults /\ faults' = faults + 1

-----------------------------------------------------------------------------
(* The handler of the superagent.                                          *)

\* handleCodeExecute: the execution counts before it is looked at; over the limit, or
\* without code, the model is told so.
Refuse(bad) ==
    /\ cur = 0 /\ count < Execs
    /\ count' = count + 1
    /\ bad \/ count + 1 > MaxExecutions
    /\ answer' = [answer EXCEPT ![count + 1] = "refused"]
    /\ UNCHANGED <<ctx, cur, relay, hand, lists, runnerVars, codeVars, tools, faults>>

\* Else its task goes to the queue of the coderunners, and the relay begins.
Execute ==
    /\ cur = 0 /\ count < Execs /\ count + 1 <= MaxExecutions
    /\ count' = count + 1 /\ cur' = count + 1 /\ relay' = "pop"
    /\ runner' = [runner EXCEPT ![count + 1] = "queued"]
    /\ UNCHANGED <<ctx, hand, answer, lists, deadline, asked, req, codeVars, tools, faults>>

\* A request is taken before a result, the lists being popped in this order.
PopCallback ==
    /\ relay = "pop" /\ callbacks[cur] # << >>
    /\ hand' = Head(callbacks[cur])
    /\ callbacks' = Take(callbacks, cur)
    /\ relay' = "dispatch"
    /\ UNCHANGED <<ctx, count, cur, answer, responses, outcome, runnerVars, codeVars, tools, faults>>

\* The response is pushed with the loop's context, and so not at all once that ended.
Respond(kind) ==
    /\ relay = "dispatch"
    /\ responses' = IF ctx = "live" THEN Put(responses, cur, [kind |-> kind, n |-> hand]) ELSE responses
    /\ relay' = "pop" /\ hand' = 0

\* dispatchCodeToolCall: a tool that needs an approval or has no route is an error; a
\* built-in, MCP or API tool is called, and its failure is an error, too.
DispatchRefused ==
    /\ Respond("error")
    /\ UNCHANGED <<ctx, count, cur, answer, callbacks, outcome, runnerVars, codeVars, tools, faults>>
DispatchCall(kind) ==
    /\ Respond(kind)
    /\ tools' = [tools EXCEPT ![cur] = @ + 1]
    /\ UNCHANGED <<ctx, count, cur, answer, callbacks, outcome, runnerVars, codeVars, faults>>

\* The result ends the relay.
PopResult ==
    /\ relay = "pop" /\ callbacks[cur] = << >> /\ outcome[cur] # << >>
    /\ answer' = [answer EXCEPT ![cur] = Head(outcome[cur])]
    /\ outcome' = Take(outcome, cur)
    /\ relay' = "cleanup"
    /\ UNCHANGED <<ctx, count, cur, hand, callbacks, responses, runnerVars, codeVars, tools, faults>>

\* The loop's time is up: a cancel for the runner.  With the list empty for five seconds
\* the model is told why; a call that failed with the context is an error.
RelayEnds(status) ==
    /\ relay = "pop" /\ ctx = "ended"
    /\ status \in {"timeout", "cancelled", "error"}
    /\ responses' = Put(responses, cur, [kind |-> "cancel", n |-> 0])
    /\ answer' = [answer EXCEPT ![cur] = status]
    /\ relay' = "cleanup"
    /\ UNCHANGED <<ctx, count, cur, hand, callbacks, outcome, runnerVars, codeVars, tools, faults>>

\* Redis refuses the response, and nobody looks at the error: the runner gets none.
RespondFails(called) ==
    /\ relay = "dispatch" /\ ctx = "live" /\ Fault
    /\ tools' = IF called THEN [tools EXCEPT ![cur] = @ + 1] ELSE tools
    /\ relay' = "pop" /\ hand' = 0
    /\ UNCHANGED <<ctx, count, cur, answer, lists, runnerVars, codeVars>>

\* Redis refuses the pop while the context lives, or the cancel once it has ended: the
\* runner is not told.
RelayFails ==
    /\ relay = "pop" /\ Fault
    /\ answer' = [answer EXCEPT ![cur] = IF ctx = "live" THEN "refused" ELSE "error"]
    /\ relay' = "cleanup"
    /\ UNCHANGED <<ctx, count, cur, hand, lists, runnerVars, codeVars, tools>>

\* Mutant: the list of the responses is left to its time to live.
CleanUpTwo ==
    /\ relay = "cleanup"
    /\ callbacks' = [callbacks EXCEPT ![cur] = << >>]
    /\ outcome' = [outcome EXCEPT ![cur] = << >>] /\ UNCHANGED responses
    /\ relay' = "idle" /\ cur' = 0
    /\ UNCHANGED <<ctx, count, hand, answer, runnerVars, codeVars, tools, faults>>

\* The deferred deletion: whatever is in the lists is gone, the cancel included unless
\* the runner is blocked on it.
CleanUp ==
    /\ relay = "cleanup" /\ (runner[cur] = "await" => responses[cur] = << >>)
    /\ callbacks' = [callbacks EXCEPT ![cur] = << >>]
    /\ responses' = [responses EXCEPT ![cur] = << >>]
    /\ outcome' = [outcome EXCEPT ![cur] = << >>]
    /\ relay' = "idle" /\ cur' = 0
    /\ UNCHANGED <<ctx, count, hand, answer, runnerVars, codeVars, tools, faults>>

\* Redis refuses the deletion.
CleanUpFails ==
    /\ relay = "cleanup" /\ Fault
    /\ relay' = "idle" /\ cur' = 0
    /\ UNCHANGED <<ctx, count, hand, answer, lists, runnerVars, codeVars, tools>>

\* The timeout of the superagent, or a cancellation.
ContextEnds ==
    /\ ctx = "live" /\ ctx' = "ended"
    /\ UNCHANGED <<count, cur, relay, hand, answer, lists, runnerVars, codeVars, tools, faults>>

-----------------------------------------------------------------------------
(* The runner.                                                             *)

Alive == {"scan", "push", "sent", "await", "drain"}
Busy == Cardinality({e \in Exec : runner[e] \in Alive})

\* A slot is free: the process is started.
Start(e) ==
    /\ runner[e] = "queued" /\ Busy < Slots
    /\ runner' = [runner EXCEPT ![e] = "scan"]
    /\ code' = [code EXCEPT ![e] = "run"]
    /\ UNCHANGED <<handlerVars, lists, deadline, asked, req, seq, pipe, stdin, got, tools, faults>>

\* Code that is too long, or a process that does not start.
StartFails(e) ==
    /\ runner[e] = "queued" /\ Busy < Slots
    /\ Fault
    /\ outcome' = Put(outcome, e, "error")
    /\ runner' = [runner EXCEPT ![e] = "done"]
    /\ UNCHANGED <<handlerVars, callbacks, responses, deadline, asked, req, codeVars, tools>>

\* A signal of the code: the call counts, and over the limit it is an error.
Scan(e) ==
    /\ runner[e] = "scan" /\ pipe[e] # << >>
    /\ asked' = [asked EXCEPT ![e] = @ + 1]
    /\ req' = [req EXCEPT ![e] = Head(pipe[e])]
    /\ pipe' = Take(pipe, e)
    /\ IF asked[e] + 1 > MaxToolCalls
       THEN stdin' = Put(stdin, e, [kind |-> "error", n |-> Head(pipe[e])]) /\ UNCHANGED runner
       ELSE runner' = [runner EXCEPT ![e] = "push"] /\ UNCHANGED stdin
    /\ UNCHANGED <<handlerVars, lists, deadline, code, seq, got, tools, faults>>

\* Mutant: a push that was taken for lost is made again.
PushRequestTwice(e) ==
    /\ runner[e] = "push" /\ ~ deadline[e]
    /\ callbacks' = Put(Put(callbacks, e, req[e]), e, req[e])
    /\ runner' = [runner EXCEPT ![e] = "sent"]
    /\ UNCHANGED <<handlerVars, responses, outcome, deadline, asked, req, codeVars, tools, faults>>

\* The request goes to the handler.
PushRequest(e) ==
    /\ runner[e] = "push" /\ ~ deadline[e]
    /\ callbacks' = Put(callbacks, e, req[e])
    /\ runner' = [runner EXCEPT ![e] = "sent"]
    /\ UNCHANGED <<handlerVars, responses, outcome, deadline, asked, req, codeVars, tools, faults>>

\* It does not, for Redis or for the deadline: an error for the code.
PushRequestFails(e) ==
    /\ runner[e] = "push"
    /\ IF deadline[e] THEN UNCHANGED faults ELSE Fault
    /\ stdin' = Put(stdin, e, [kind |-> "error", n |-> req[e]])
    /\ runner' = [runner EXCEPT ![e] = "scan"]
    /\ UNCHANGED <<handlerVars, lists, deadline, asked, req, code, seq, pipe, got, tools>>

\* The wait for its response begins, with no end of its own.
Block(e) ==
    /\ runner[e] = "sent" /\ ~ deadline[e]
    /\ runner' = [runner EXCEPT ![e] = "await"]
    /\ UNCHANGED <<handlerVars, lists, deadline, asked, req, codeVars, tools, faults>>

\* A response: the oldest in the list, whatever request it answers.
PopResponse(e) ==
    /\ runner[e] = "await" /\ responses[e] # << >>
    /\ LET r == Head(responses[e]) IN
        /\ stdin' = Put(stdin, e, r)
        /\ runner' = [runner EXCEPT ![e] = IF r.kind = "cancel" THEN "drain" ELSE "scan"]
    /\ responses' = Take(responses, e)
    /\ UNCHANGED <<handlerVars, callbacks, outcome, deadline, asked, req, code, seq, pipe, got, tools, faults>>

\* The deadline is over before the wait begins: the code is told to stop.
AwaitEnds(e) ==
    /\ runner[e] = "sent" /\ deadline[e]
    /\ stdin' = Put(stdin, e, [kind |-> "cancel", n |-> req[e]])
    /\ runner' = [runner EXCEPT ![e] = "drain"]
    /\ UNCHANGED <<handlerVars, lists, deadline, asked, req, code, seq, pipe, got, tools, faults>>

\* Redis refuses the wait: an error for the code, and the response still comes; or, after
\* the deadline, the end.
AwaitFails(e) ==
    /\ runner[e] = "await" /\ Fault
    /\ stdin' = Put(stdin, e, [kind |-> IF deadline[e] THEN "cancel" ELSE "error", n |-> req[e]])
    /\ runner' = [runner EXCEPT ![e] = IF deadline[e] THEN "drain" ELSE "scan"]
    /\ UNCHANGED <<handlerVars, lists, deadline, asked, req, code, seq, pipe, got, tools>>

\* The output is at its end: the process is gone.
OutputEnds(e) ==
    /\ runner[e] = "scan" /\ pipe[e] = << >> /\ code[e] \in {"ended", "killed"}
    /\ runner' = [runner EXCEPT ![e] = "drain"]
    /\ UNCHANGED <<handlerVars, lists, deadline, asked, req, codeVars, tools, faults>>

\* Runner and process are gone, and what they held.
Gone(e) ==
    /\ runner' = [runner EXCEPT ![e] = "done"] /\ deadline' = [deadline EXCEPT ![e] = FALSE]
    /\ asked' = [asked EXCEPT ![e] = 0] /\ req' = [req EXCEPT ![e] = 0]
    /\ code' = [code EXCEPT ![e] = "ended"] /\ seq' = [seq EXCEPT ![e] = 0]
    /\ pipe' = [pipe EXCEPT ![e] = << >>] /\ stdin' = [stdin EXCEPT ![e] = << >>]
    /\ got' = [got EXCEPT ![e] = Nothing]

\* The process has exited: the result is what it wrote, or why it wrote nothing.
PushResult(e, status) ==
    /\ runner[e] = "drain" /\ code[e] \in {"ended", "killed"}
    /\ status \in IF code[e] = "ended" THEN {"completed", "error", "cancelled"}
                  ELSE IF deadline[e] THEN {"timeout"} ELSE {"error"}
    /\ outcome' = Put(outcome, e, status)
    /\ Gone(e)
    /\ UNCHANGED <<handlerVars, callbacks, responses, tools, faults>>

\* Mutant: the process is not started with the context.
DeadlineSpares(e) ==
    /\ runner[e] \in Alive /\ ~ deadline[e]
    /\ deadline' = [deadline EXCEPT ![e] = TRUE]
    /\ UNCHANGED <<handlerVars, lists, runner, asked, req, codeVars, tools, faults>>

\* max_execution_time_sec: the context ends, and with it the process.
Deadline(e) ==
    /\ runner[e] \in Alive /\ ~ deadline[e]
    /\ deadline' = [deadline EXCEPT ![e] = TRUE]
    /\ code' = [code EXCEPT ![e] = IF @ \in {"run", "wait"} THEN "killed" ELSE @]
    /\ UNCHANGED <<handlerVars, lists, runner, asked, req, seq, pipe, stdin, got, tools, faults>>

\* The coderunner dies, or Redis refuses the result: MaxRetry(0), and nobody pushes one.
RunnerDies(e) ==
    /\ runner[e] \in Alive /\ Fault
    /\ Gone(e)
    /\ UNCHANGED <<handlerVars, lists, tools>>

-----------------------------------------------------------------------------
(* The code.                                                               *)

\* tools.call: the request's file, a signal, and a wait for the signal of the answer.
Call(e) ==
    /\ code[e] = "run" /\ seq[e] < MaxAsked
    /\ seq' = [seq EXCEPT ![e] = @ + 1]
    /\ pipe' = Put(pipe, e, seq[e] + 1)
    /\ code' = [code EXCEPT ![e] = "wait"]
    /\ UNCHANGED <<handlerVars, lists, runnerVars, stdin, got, tools, faults>>

\* The answer, an error or a cancel: the code may go on after any of them.
Return(e) ==
    /\ code[e] = "wait" /\ stdin[e] # << >>
    /\ got' = [got EXCEPT ![e] = Head(stdin[e])]
    /\ stdin' = Take(stdin, e)
    /\ code' = [code EXCEPT ![e] = "run"]
    /\ UNCHANGED <<handlerVars, lists, runnerVars, seq, pipe, tools, faults>>

\* The runner reads no more, and its end of the pipe is closed: an error.
ReturnClosed(e) ==
    /\ code[e] = "wait" /\ stdin[e] = << >> /\ runner[e] = "drain"
    /\ got' = [got EXCEPT ![e] = [kind |-> "error", n |-> seq[e]]]
    /\ code' = [code EXCEPT ![e] = "run"]
    /\ UNCHANGED <<handlerVars, lists, runnerVars, seq, pipe, stdin, tools, faults>>

\* run.py writes the result's file when the code has ended, well or not.
CodeEnds(e) ==
    /\ code[e] = "run"
    /\ code' = [code EXCEPT ![e] = "ended"]
    /\ UNCHANGED <<handlerVars, lists, runnerVars, seq, pipe, stdin, got, tools, faults>>

-----------------------------------------------------------------------------
Handler ==
    \/ Execute \/ PopCallback \/ PopResult \/ CleanUp
    \/ DispatchRefused \/ \E kind \in {"result", "error"} : DispatchCall(kind)
    \/ \E status \in Statuses : RelayEnds(status)

Runner(e) ==
    \/ Start(e) \/ Scan(e) \/ PushRequest(e) \/ Block(e) \/ PopResponse(e) \/ AwaitEnds(e)
    \/ (deadline[e] /\ PushRequestFails(e))
    \/ OutputEnds(e) \/ \E status \in Statuses : PushResult(e, status)

Code(e) == Call(e) \/ Return(e) \/ ReturnClosed(e) \/ CodeEnds(e)

Next ==
    \/ Handler \/ ContextEnds \/ RelayFails \/ CleanUpFails
    \/ \E bad \in BOOLEAN : Refuse(bad) \/ RespondFails(bad)
    \/ \E e \in Exec :
        \/ Runner(e) \/ Code(e) \/ Deadline(e) \/ StartFails(e)
        \/ PushRequestFails(e) \/ AwaitFails(e) \/ RunnerDies(e)

\* Both processes go on, and their timers end: the code itself may never do.
Fairness ==
    /\ WF_vars(Handler) /\ WF_vars(ContextEnds)
    /\ \A e \in Exec : WF_vars(Runner(e)) /\ WF_vars(Deadline(e))

Spec == Init /\ [][Next]_vars /\ Fairness

-----------------------------------------------------------------------------
(* Properties.                                                             *)

\* Call n of the code returns the response to its request n, although nothing but its
\* place in a list says which it is (PopResponse, Respond).  When Redis once refuses the
\* wait for a response, the one that comes late answers the next call.
AnswersInStep ==
    faults = 0 => \A e \in Exec :
        code[e] = "run" /\ got[e].kind \in {"result", "error"} => got[e].n = seq[e]

\* While the loop lives and Redis serves, the handler leaves an execution only when its
\* runner is through: no list stays behind, even when the deadline fell between a request
\* and its response, and no runner waits for a handler that went on.
NothingLeft ==
    ctx = "live" /\ faults = 0 => \A e \in Exec : runner[e] # "none" /\ e # cur =>
        runner[e] = "done" /\ callbacks[e] = << >> /\ responses[e] = << >> /\ outcome[e] = << >>

\* A runner waits, without end, for a handler that has left: Redis refused its response,
\* or its cancel was deleted between the runner's push and the runner's wait.  It holds
\* its slot until Redis breaks the connection or the coderunner goes.
Stranded(e) == runner[e] = "await" /\ e # cur /\ responses[e] = << >>

\* The handler never waits for ever: an execution that was begun is answered, though its
\* code never ends, its runner never has a slot, or a coderunner dies.  Its process ends,
\* too, unless a stranded runner holds a slot.
BothEnd == \A e \in Exec :
    runner[e] # "none" ~> answer[e] # "none" /\ (runner[e] = "done" \/ \E d \in Exec : Stranded(d))

-----------------------------------------------------------------------------
\* "Allocate Redis keys with TTL", "Clean up keys on exit"
\* (worker/superagent_handler.go:1582 and :1596).  EXPIRE does nothing to a list that does
\* not exist yet, and the runner whose cancel the clean-up deleted pushes after it.
ListsExpire ==
    \A e \in Exec : runner[e] = "done" /\ e # cur /\ answer[e] # "none" =>
        callbacks[e] = << >> /\ responses[e] = << >> /\ outcome[e] = << >>

\* "Wall-clock limit per execution" (docs/nodes/superagent.md:105).  The deadline does not
\* end a wait that is blocked.
RunnersEnd == \A e \in Exec : runner[e] # "none" ~> runner[e] = "done"
=============================================================================
