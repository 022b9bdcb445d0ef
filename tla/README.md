# Verification of the Brockley execution engine

TLA+ models of how Brockley runs a graph: the two orchestrators, the workers of
the distributed one and what they share in Redis and PostgreSQL, the agents that
a graph's nodes may be, and the algorithms all of them rely on. The modules are
translated from the source; TLC checks them on small instances and TLAPS proves
theorems about them for every size.

## The system

A client invokes a graph through the API (`server/api/executions.go`), which
inserts an execution row and enqueues one `graph:start` task. A worker process
(`cmd/worker/main.go`, one asynq pool for all task types) runs that task: the
**orchestrator** (`worker/orchestrator.go`). It validates and orders the graph
(`engine/graph`), walks its groups, hands every node that does I/O to a worker
as an asynq task of its own and runs the others in line, and pops the results
of both from one Redis list, `exec:{id}:results`. Then it runs the loops of the
back-edges, writes the final row and publishes events.

An LLM node with tools is a chain of tasks, one for each round trip
(`worker/llm_call.go`). A **superagent** node is one task that iterates
(`worker/superagent_handler.go`): it sends every call of the model or of a tool
as a task and waits for the answer on a list of its own; code that the model
writes runs in a **coderunner** process, which reaches the tools through the
superagent by three more lists. The inner graphs of foreach and subgraph nodes
run in process (`engine/orchestrator`), in goroutines that share maps, with a
superagent of their own (`engine/executor/superagent.go`).

| Component | State it keeps | Operations | Correct when |
|---|---|---|---|
| Distributed orchestrator | group, dispatched and collected counts, `nodeOutputs`, `state`, `skipped`, `deadEdges`, loop position | start, dispatch, collect, iterate, complete, fail | no node runs before its inputs; exactly the untaken branches are skipped; results have their effect at their node; it ends |
| Node task handlers (LLM, MCP, API, node:run) | the attempt in the task | call, retry, push | one result per dispatch |
| asynq and Redis | queued tasks, unacknowledged tasks, lists | deliver, acknowledge, redeliver, push, pop | outside the code: at-least-once delivery is assumed |
| Step writer | channel, WaitGroup, insert in progress | write, flush, close, insert | no accepted step lost, final record last |
| Tool loop of the LLM handler | counters and conversation in the task, results of its tools, waits on the execution's list | call, dispatch tools, collect, queue the next round trip, pop and push back | the node reports; no result of another node is lost; rounds do not mix |
| Superagent coordinator | conversation, counters, stuck detector, output buffers, the request it waits for | list, ask, call tools, evaluate, reflect, compact, resolve outputs, push | every call has its answer; the limits hold; what is reported is what was done |
| Superagent in process | the same, and the tool loop's own copies of it | the same in line | the same; no call goes uncounted |
| Superagent tools | tasks, buffers, memory | set, append, finalize, store, load | a finalized text stays; memory reaches the next agent (it does not) |
| Code execution relay | three lists per execution, a subprocess, a deadline on each side | run, relay a call, answer, cancel, clean up | a call gets its own answer; nothing is left behind; the handler ends, and the runner unless it is stranded |
| In-process orchestrator | the orchestrator's maps, shared by goroutines | visit, run, store, propagate skips, loop | as the distributed one; the schedule changes nothing |
| Graph validation and orders | colours and stack of the search, in-degrees, queue | validate, group, sort | cycles are found; what is accepted can be ordered and started |
| Expressions and templates | none | lex, parse, evaluate | as documented; the same on values that went through JSON |
| Execution rows and API | `status`, `output`, event stream | invoke, cancel, wait, stream | what is left of the row is an end that was published; a waiter is told the truth |
| Worker pool | slots | start, finish | the tasks a handler waits for get a slot |
| Providers, MCP client | HTTP | call, retry | not modelled |

What is hard here: node tasks finish in any order and may be delivered twice;
the result list carries no addressee, so whoever pops first gets the result;
conditionals of one group report in any order; every wait has a timeout that
races a late answer; the orchestrator may die and is not restarted, while other
tasks are; a loop clears part of the state and reuses the rest; rows are read,
changed and written back without a condition by several processes; a map is read
outside its mutex; the two ends of a code execution have clocks of their own; an
agent's counters are kept in several nested loops; and values change their types
on their way through a task. `PROJECT.json` lists these hazards at their lines,
each with the properties about it.

## Modules

| Module | Models | Uses |
|---|---|---|
| `GraphData` | a validated graph, the skips that follow from dead edges, loop bodies | |
| `Dataflow` | what an execution promises: start when the dependencies have settled, complete when all have | implemented by `GraphRun` and `InProcess` |
| `GraphRun` | `worker/orchestrator.go` and its helpers, the node task handlers' results and retries, asynq's delivery | `GraphData` |
| `InProcess` | `engine/orchestrator`, with the goroutines of foreach items | `GraphData` |
| `ToolLoop` | the tool loop of `worker/llm_call.go`, its tool tasks, the orchestrator's fan-in next to it, the slots of one worker | |
| `AgentRules` | what both superagents share: messages, stuck detector, compaction | |
| `AgentPromise` | what a superagent node promises who reads its outputs | implemented by `Superagent` and `LocalAgent` |
| `Superagent` | `worker/superagent_handler.go`, its call tasks, and the task's reruns | `AgentRules` |
| `LocalAgent` | `engine/executor/superagent.go` and `RunToolLoop` | `AgentRules` |
| `CodeExec` | the relay, the coderunner and the Python process | |
| `Toolbox` | `engine/executor/superagent_builtin_tools.go` and the state the memory travels in | |
| `StepWriter` | the step writer of `worker/handler.go` | |
| `Lifecycle` | one execution's row and events: invoke, the sync wait, cancel and stream of `server/api/executions.go`, the orchestrator's writes, the store | |
| `GraphOrder` | the shape checks of `validate.go` and both orders of `topo.go`, one step per operation on stack or queue | |
| `Validation` | the rules about configurations, ports and fields, next to what the executors need | |
| `Expression`, `Evaluation` | `engine/expression`: lexer and parser; operators and filters on values | |
| `Templates` | the blocks of `template.go` | |
| `MCGraph`, `MCInProcess`, `MCSuperagent`, `MCLocalAgent`, `MCRules` | the instances for TLC | |
| `*Proofs` | theorems about the module of that name, with the lemmas on lists they need; `LifecycleProofs` has `StepWriter` too, `AgentToolProofs` has `CodeExec` and `Toolbox` | |

### GraphRun

One variable per piece of state of `ProcessTask`: `pc` is where the goroutine
is, `todo`, `pending` and `collected` are the locals of `executeGroup`, `done`
and `out` are `nodeOutputs`, `skipped`, `dead` and `state` the maps of the same
names, `loop`, `iter`, `pos` and `backValue` the locals of `executeLoopPass`.
`tasks` and `unacked` are asynq's, `results` is the Redis list, `steps` and
`status` the rows. Values are abstracted to the dispatch that produced them
(node and number), which is what the properties need to tell a fresh output from
a stale one, and to the set of ports that carry a value, which is what skips
depend on. The condition of a back-edge and the branch a conditional takes are
arbitrary. Contexts are `expired`: the request's timeout ends `execCtx`, the
timeout of the asynq task ends both contexts. A dispatch may fail, a push into a
context that is done is lost, a call of the store in a context that is done
changes nothing.

Groups come out of a Go map, so a group is a set and its dispatch order is
arbitrary. `markSkipped` is recursive; `SkipsOf` states the least set it
reaches. The loop pass walks the topological order and stops at the nodes of
the body, or downstream of it. A node may have several bindings to a state field,
each of which is applied; the order of one run's bindings in an array is left open
(`Written`). `due` is a history variable: what the bindings make of each result
that was pushed.

`MaxDup` bounds the results pushed twice because asynq delivers a task again. An
LLM node with a tool loop can push a second result without that
(worker/llm_call.go:313, when the orchestrator has taken the result its handler
waits for); `GraphRun` has an LLM node as one task, so only `ToolLoop` and
`MCCalls.cfg` show it, and its effect on the fan-in is that of a redelivery.

### InProcess

The goroutine of a node goes through `task`: started, running (its inputs are
resolved in one critical section), its outputs, state writes and step stored in
another, and for a conditional a third one that adds to `skipped`. That one is
two steps, since the loop that starts the goroutines (`Visit`) reads `skipped`
without the mutex: it may see the map before or after, and `MapRace` is Go's
detector ending the process. Items of a foreach node go through `item`, behind
its semaphore; such a node fails at once when it has no list of items. `executeLoops` runs one
node at a time, the first of `walk` in the topological order.

### ToolLoop

Every round trip to the model is an asynq task of its own; `llm` lists them in
the order they were queued, each with where its handler is and the counters its
payload carries. `tools` are the tool tasks, `answered` the lists of the round
trips (a list is named by node and iteration, so a round trip that runs again
finds the list of its first run), `list` is `exec:{id}:results`, `orch` and
`popped` the orchestrator's fan-in, `others` the other nodes of the group. The
group is the last of its graph, so the execution ends with it and deletes the
list.

`enqueueNextLLMCall` queues the next round trip and then pops from the list of
the execution, where the orchestrator pops too, and pushes back what it got.
The model keeps the pop and the push apart (`PopResult`, `Forward`), with the
result in the handler's hand between them. Redis serves the client that waits
longest; the model lets any of them have the result. `Crash` stands for the
death of the worker and for a push that Redis refuses. asynq runs a task again
whose handler returned an error or died (25 times; the bound `MaxErrors` is on
all such events). A tool task that is delivered twice is not modelled. `Used`
counts the slots of one worker: the orchestrator's, one for each handler that
runs or waits, one for each tool.

### Superagent and LocalAgent

In both, `pc` is the step of `runAgentLoop` and `after` the steps of the
iteration that are still to come behind a side step (reflection, flush,
summary). A message is its role, with the number of calls of an assistant's. The
model's verdicts, what a response calls and what a tool answers are arbitrary.
`ctx` ends on its own: the timer of the loop, the task's timeout, a cancellation.

In `Superagent` a call of anything (`Send`, `Pop`) is a request in `queue` that a
worker serves once or, after a fault, twice; its answer goes to the list named by
`seqCounter`. The task may be run again, in this process or another, which starts
to count anew (`moved`), and the answers of the run before still come. `sctx` is
the record of the same name. `History` is what `conversation_history_from_input`
puts behind the opening messages: any messages, answered or not; those of it that
still stand are marked `given`. In `LocalAgent` the variables of `RunToolLoop`
(`req`, `round`, `todo`, `history`, `last`) are apart from the agent's, which
takes them over when the loop returns a result.

### CodeExec

Each execution has the three lists (`callbacks`, `responses`, `outcome`), the
relay of the superagent, a runner with a deadline of its own, and the Python
process behind two pipes. Requests and responses are numbered to tell them apart;
the code itself compares no numbers. Faults are a refused call to Redis and the
death of the coderunner; that of a push of the response leaves the runner without
an answer. The runner waits for a response without a timeout, on a client whose
blocking reads end with no context: its deadline ends the code and the execution
as a whole, not this wait (`AwaitEnds`).

### Lifecycle

`row` is the execution's row, `copy` what the orchestrator last read of it and
`read` what each cancelling request read, since `UpdateExecution` writes every
column of the caller's copy without a condition. `invoker` and `answer` are the
request that invokes; it subscribes before it queues the task in sync mode.
`inbox` holds what pub/sub delivered to each listener, `published` what was
published. `stream` and `seen` are the connections of the streaming clients.
`orch` is the orchestrator as the row sees it: it takes the task, reads and
writes the row as running, runs the graph (whose outcome is arbitrary here;
`GraphRun` has the inside), reads and writes the final row, publishes the end.
`StoreFails`, `QueueFails`, `EventsLost` and `MayStop` switch the failures on.

### StepWriter

The caller's and the inserting goroutine with a program counter each. `Write` is
two steps, the count and the send, since the other goroutine runs in between.

### GraphOrder, Expression, Evaluation, Templates, Validation, Toolbox

`GraphOrder` runs `Validate`'s search, `ParallelGroups` and `TopologicalSort` in
the order an execution does, keeping the search's stack (`path` with `next`, the
edge each frame is at) and the queue's arbitrary order where a Go map decides.
What a graph has to satisfy is stated without any of these algorithms.

`Expression` has the lexer over characters and the parser over tokens, and
`Unparsed`, which writes a tree down by the documented table of precedences, with the
pipe where the parser has it. `Evaluation`
keeps int64 and float64 apart and has `ThroughJSON`, which does not. `Templates`
has the recursive parser next to a pushdown automaton. `Validation` has `Errors`
(what is refused), `RunsInWorker` and `RunsInProcess` (what an executor starts
on), and `Gaps`, the configurations that are accepted and do not run, by name.
`Toolbox` has the calls as actions of several agents in one execution.

## Runs

All twelve pass. Five minutes and two cores are enough for each.

| Run | Checks | Shows |
|---|---|---|
| `branch` (`MCGraph`) | `GroupBarrier`, `SkipsAreExact`, `CompletedIsClean`, `ImplementsDataflow` | Two conditionals in one group with a node below both, a node that retries, one of a type nobody knows and an approval that always fails: no group starts before the one before has reported, exactly the untaken branches are skipped in whatever order the conditionals report, a completed execution leaves nothing behind, and `GraphRun` refines `Dataflow`. The timeouts of the request and of the task and a crash of the orchestrator happen anywhere. 50,025 states. |
| `loop` (`MCGraph`) | `FreshBody`, `StateKept`, `Finishes` | On a loop that is left from the middle of its body, with a node downstream, one task that is delivered twice, and timeouts: each iteration reads this iteration's outputs, the state of a completed execution has what the bindings of every iteration make of its results and nothing else (both while nothing was delivered twice), and the execution ends though no worker need answer, after a redelivery as well. 1.4 million states. |
| `tool_loop` (`ToolLoop`) | `NoResultLost`, `AnswersAreOwn`, `Reported` | Three round trips next to another node, with one handler that times out, fails or dies: what handlers take from the orchestrator comes back, rounds do not mix their answers, the group ends. |
| `superagent` (`MCSuperagent`) | `Conversation` | Two iterations with tool batches, code execution, evaluation, reflection, compaction and running out of time, behind the history of an agent that was cut off in a batch: every tool call of this agent in what the model is sent has its answer. |
| `agent_runs` (`MCSuperagent`) | `Conversation`, `KeepsPromise`, `Reported` | Two runs of one task with MCP and API tools, one of them denied, and one fault that ends a wait, a call or a process: the node refines `AgentPromise`, limits included, and reports; behind a history that is whole every call of the conversation has its answer. |
| `local_agent` (`MCLocalAgent`) | `CallsCounted`, `KeepsPromise` | The in-process agent around its tool loop, behind a history: the calls it reports are the calls it made, but for those of the tool loop it was cut off in; it refines `AgentPromise`. |
| `code_exec` (`CodeExec`) | `AnswersInStep`, `NothingLeft`, `BothEnd` | Two executions on one runner, deadlines, one refused call or death of the runner: a call gets its own response, no list outlives an execution that was collected, every execution is answered, and its process ends unless a runner is stranded in the wait that nothing ends. |
| `in_process` (`MCInProcess`) | `SkipReadsAgree`, `AppendsKept`, `Consistent`, `ImplementsDataflow` | Goroutines over a conditional and a foreach that share a group and an array field, a node with two bindings to it, and overlapping loops: the reads of `skipped` outside the mutex agree with every order of the writes, each binding of each run that completed is applied once, a completed execution is consistent, and it refines the same `Dataflow`. |
| `lifecycle` (`Lifecycle`) | `NoMissedCompletion`, `AnswerMatchesRow`, `EndIsTold`, `StreamEnds` | Nothing fails, two requests cancel at any time and a streaming client comes and goes: the end of a sync request cannot be missed, its answer is what the row says until somebody cancels, the row left standing is an end of which an event was published, whoever wrote last, and every stream opened in time ends. 1.5 million states. |
| `failures` (`Lifecycle`) | `ConsistentRow`, `SyncAnswered` | Any call of the store or the queue may fail with or without effect, events get lost, the worker dies, two requests cancel: the sync request is answered, and the row never mixes an output or an error with another status. |
| `step_writer` (`StepWriter`) | `StepsBeforeRecord`, `CloseReturns` | No accepted step is lost or overtaken by the final record, and Close returns. |
| `rules` (`MCRules`) | `CycleFound`, `AcceptedIsOrdered`, `GroupsAreLayers`, `OrderIsTopological`, `ParsesBack`, `SameAcrossJSON`, `TemplatesParse`, `AcceptedStarts`, `FinalizedKept` | The algorithms on every small instance: the search finds exactly the cycles, both orders are orders; what is written by the grammar is parsed back; an expression has the same value on values that went through JSON, but for the cases named; templates parse by the automaton; an accepted configuration starts, but for `Gaps`; a finalized text is kept. |

### Bounds, and why they are enough

- `branch`, `loop`: graphs of nine and five nodes give two conditionals in a group
  that report in either order, a node that both, one or neither leave out, a join and
  a retry, and a loop body with a branch and a node downstream. Two bindings of one
  node to one field, and two nodes bound to one field, are in both.
  One retry of a BRPOP instead of three, and two iterations, reach both sides of
  each limit.
- `in_process`: seven nodes, a foreach of two items with a concurrency of one, and
  two loops of one iteration whose bodies share nodes: an item that waits for the
  semaphore, an abort with an item waiting, and the second loop reading what the
  first left.
- `tool_loop`: two calls allowed and up to two in a response make the limit bite
  in any round; three round trips let two handlers and the orchestrator compete
  for one list; four slots are those three and one for a tool or the other node.
- `superagent`, `agent_runs`: one call per iteration against batches of two and
  three in all make both limits bite in the middle of a batch; a window of three
  with a threshold of two is the smallest in which a repetition is seen and
  forgotten again; two of the newest messages kept is the smallest window that can
  separate calls from their answers. The histories are one that ends in an unanswered
  call and one that does not. A fault needs a second run, and nothing in
  the code depends on a third.
- `local_agent`: three iterations of two rounds, so that the counters go twice
  from the tool loop to the agent and back.
- `code_exec`: two executions on one slot follow each other and meet each other's
  lists; two calls allowed and three asked reach the refusal.
- `lifecycle`, `failures`: one request invokes, two may cancel, one client
  streams: two copies are enough to be written in either order.
- `step_writer`: a buffer of two with five steps fills up, drains, and fills again.
- `rules`: every graph of four nodes with four forward edges and a back-edge, and of
  three nodes with up to three edges of any kind: two cycles, a diamond, an orphan, a
  cycle off the path and an edge twice. Expressions have every operator as an operand
  of every other, on either side; values one of each kind, whole numbers in both types;
  templates of up to six pieces, every block within every other.

Deadlock is checked where the only state without a successor is the end and
stutters (`branch`, `loop`, `in_process`, `step_writer`); in the others a request,
a client, a task or an algorithm simply stops.

### Fairness

`GraphRun` assumes that the orchestrator's goroutine runs and that a BRPOP
returns within its timeout, and nothing of the workers. `ToolLoop` assumes that
handlers and tool tasks which have a slot run on, that asynq gives a free slot to
a queued task, and that the orchestrator pops what is there; no handler has to
fail. With one slot less `Reported` does not hold: every waiting round trip holds
a slot, so the default of ten slots (`cmd/worker/main.go`) is not enough for a
loop of ten iterations. `Lifecycle` assumes that requests, the orchestrator and
the delivery of events go on; cancelling and disconnecting are choices.
`StepWriter` assumes that both goroutines run and an insert returns. `Superagent`
assumes that its handler runs on and that a request in the queue is served by
somebody; `CodeExec` that the handler and each runner run on, and that contexts
and deadlines end, since they are clocks; `LocalAgent` that its goroutine runs.
Faults and timeouts of the first four are never assumed to happen.

## Proofs

Each theorem holds for every value of the constants that satisfies the module's
assumption. What an assumption takes for granted is either a limit the
configuration sets or comes from validation:

- `GraphAssumption` (module `GraphData`): the groups partition the nodes, forward
  edges lead to later groups, and `TopoOrder` holds each node once and goes along
  the forward edges. `GraphOrderProofs` proves this of the algorithms.
- `InputsAreSources`: no edge leads to an input node (validate.go:489).
- `EntriesHaveInputs`: the target of each back-edge has a forward edge too. The
  code does not ask for it, and `MCEntry.cfg` shows it is needed; theorems
  that rest on it say so.
- `MaxDup = 0`: asynq delivers no task again that has pushed its result, which
  `MCBarrierBroken.cfg` shows to be needed. `FreshBody` and
  `StateKept` say so themselves (`dups = 0`).

### GraphRunProofs

For every validated graph, any retries and limits, timeouts and crashes.

- `TypeCorrect`: types. The invariant adds `InRange`: while a group or a loop is
  being executed the index points into the slice.
- `BarrierHolds`: `GroupBarrier`, assuming `MaxDup = 0`. `executeGroup` only
  counts, so `GroupBarrier` is not inductive. `PassInv` says what makes counting
  right: `pending` is the number of nodes sent and `collected` the number of those
  that reported (`Counted`); every task and every result in the list is of a node
  sent that has not reported, and of a different one each (`TasksOwed`,
  `ResultsOwed`); nothing was sent of later groups and nothing is under way between
  groups (`Ahead`). When the counts meet, the set of nodes that reported is a
  subset of the nodes sent of the same size, hence the whole of it.
- `EndIsClean`: `CompletedIsClean`, with the same assumption. `LateInv` carries
  the empty queue out of the forward pass and through the loops, where at most
  one task or result exists at a time.
- `BranchesExact`: `SkipsAreExact`, with `MaxDup = 0` and `EntriesHaveInputs`.
  Dead edges are recorded when a conditional's result is processed, skips are
  propagated at once, and a node is looked at when its group begins. `BranchInv`
  says that the dead edges are exactly the really dead ones, that who is not
  skipped has a live forward edge or no dead edge at all (`SkipsSettled`), that
  who is skipped had none and never ran (`SkipsForced`), and that no node still to
  be dispatched is skipped (`Dispatchable`).
- `Implements`: the refinement of `Dataflow`, with `InputsAreSources` besides. A
  node settles in the abstraction when it has reported or is skipped; the barrier
  says that whatever a dispatched node depends on has, `SkipsAreExact` that a
  skipped one need not run. Loops, retries, timeouts and the database are
  stuttering steps.
- `StateIsKept`: `StateKept`. A result is in the state, in the list
  or with a task. `KeptInv` says that what a field holds and what the results in the
  list will add is what was pushed (`Whole`), and that the field holds nothing of a
  dispatch that is under way or to come (`Past`), so the next result adds what is not
  there. That every dispatch is a new one, and has one task or one result, is `Apart`;
  that the loop pass writes the result of the node it waits for is `LoopOwn`.
- `BodyIsFresh`: `FreshBody`. `LoopOwn` says that within a pass the one task and the
  one result under way are of the node the pass waits for, `Walked` that the
  positions before it hold this iteration's outputs.

### InProcessProofs

For every graph and every interleaving of the goroutines.

- `AppendsAreKept` (`AppendInv`): `AppendsKept`. The steps of a node are numbered by
  its runs, none of which comes twice (`Recorded`), so what the bindings make of a run
  is not yet in the field when the run is stored (`Kept`).
- `ReadsAgree` (`SkipInv`), with `EntriesHaveInputs`: within a group (`AtGroup`) a
  conditional is the only one to kill its edges (`OneWriter`), and whoever is not
  skipped has a reason (`Settled`); hence what a conditional adds to `skipped` lies
  in later groups (`SkipsComeLater`) and no read in this group can tell.
- `Implements`: the refinement of `Dataflow`, with `InputsAreSources` besides.
  `Course` adds which goroutines may be busy (`Busy`), that they are of the current
  group (`InTurn`), and that edges die behind the current group only (`DeadInTurn`).
- `ValuesAreFresh`: `Consistent`, for every validated graph. An execution with
  loops does not keep its nodes consistent: when a loop iterates, everything
  downstream of its body is stale until the loop ends. `FreshInv` says which
  nodes may be stale (`Stale`): in a pass those it has still to walk (`Remains`) and
  those downstream of the body, after the loop those downstream it has still to
  walk, between loops none. A node that runs makes stale only what it feeds
  (`BodyFeeds`, `DownstreamFeeds`), and that comes later in `TopoOrder`, so it
  is still to be walked. That a walk has a first node (`LeastIndex`) is the
  well-foundedness of the order of the natural numbers.

### GraphOrderProofs

For every set of graphs whose edges start at nodes.

- `GroupsCorrect` (`GInv`): the groups hold the nodes that do not remain, none of
  those depends on one that does, and what is grouped is layered.
- `CycleFoundCorrect` (`SInv`): the stack is a path of gray nodes, each once; a
  black node leads only to black ones and every set of black nodes has a first; an
  edge into the gray path closes a cycle.
- `OrderCorrect` and `AcceptedOrdered` (`KInv`): while Kahn's algorithm runs, the
  in-degree of a node is the number of its incoming edges not yet taken off, the
  queue holds nodes of degree zero, and what is in the order is before all it leads
  to. When the queue runs empty with nodes left over, each of them has a predecessor
  among them, so there is a cycle, which the search has found before.

### LocalAgentProofs and SuperagentProofs

For any limits, tools and ports. `PromiseKept` in both is a refinement of
`AgentPromise`, the initial states mapped to initial states and each action to a
step or a stutter. The invariants say what the program counter knows of the
counters: in `LocalAgent` `Continues`, `Working` and `Counted`, the last relating
the tool loop's counters to the agent's (`CallsAreCounted`); in `Superagent`
`Budget`, that the batch at hand still fits in the burst of the iteration, where a
code execution costs one call and the `MaxNested` it may make.

`AnswersOwned` (`Superagent`): as long as no run of the task moved to another
process, an answer in the list a handler waits at is the answer to its own request
(`OwnKeys`); when it did move, the sequence of keys starts again and old answers
are taken for new ones.

`ConversationHolds` (`Superagent`): `Conversation`, for any history. `Talked` carries,
wherever the handler is, how many calls at the end of the messages are still without
an answer (`Talk`, `Unanswered`). Each message added and each answer keeps it, and so
does a compaction, which may cut between calls and answers but only at its seam
(`Seam`), with the messages in front of it replaced by a summary. A call of the
history is excepted as long as it stands, unless the history is whole.

### ToolLoopProofs

For any limits, batch size, retries and other nodes in the group.

- `TypeCorrect` (`Typed`): the counters of a request stay within its limits.
- `ResultsAreKept`: `NoResultLost`, as long as no handler dies between taking a
  result and giving it back. Two results are never the same (`Numbered`), so what
  was pushed is the sum of what the orchestrator has, what is in the list and what
  is in a hand (`Kept`), and each step moves one element between two of these.
- `AnswersOwned`: `AnswersAreOwn`, as long as nothing fails. The rounds go up with
  the position of the task (`InRounds`), so the list of a round, named by node and
  iteration, has one reader; what that reader has got, what waits in the list and
  what its tool tasks still owe are together its calls (`AnswersKnown`).

### LifecycleProofs

For any number of cancelling requests and clients and any failures:
`RowConsistent` (output and error agree with the status, since every copy that is
written back was consistent when read), `CompletionNotMissed` (while pub/sub loses
nothing, a sync request that waits after the end was published has the event in
front of it), and the types. `AnswerInRow` is `AnswerMatchesRow` while no call of
the store fails, for any number of requests that cancel: until one has written its
row, the row is final before the event is published (`Answered`). `EndOnRecord` is `EndIsTold` while no call of the store fails and the
worker does not stop, for any number of requests that cancel: who writes an end
publishes it, a request that cancels in its next step, and no copy without an end
is written once the orchestrator has written its own (`EndKnown`). The run checks it
where the queue does not fail either; `MCFinality.cfg` shows what they do not give, that the
first end stays.

The step writer, for every buffer size and every number of steps: the types (the
WaitGroup's counter never becomes negative, which would panic,
`WriterTypeCorrect`), that the counter is exact (`CountCorrect`), and that every
accepted step has been tried when Close gets past Flush (`NothingOvertaken`). The
inductive invariant `WriterInv` adds to the count where the accepted steps are
(`Accounted`: inserted, given up, in the channel or in the writer's hand) and what
the program counters say about the data (`Phases`): that the count is zero says
only that the channel and the hand are empty; that no step is lost then is
`Accounted`.

### AgentToolProofs

The code execution relay, for any executions, calls, limits, slots and faults:

- `AnswersStayInStep`: `AnswersInStep`. Runner and handler pass requests and
  responses through two lists and compare no numbers, so the proof has to say that
  a runner about to push a request finds nothing of an earlier call. `OwedInv` does:
  only the last response can be a cancel (`CancelOf`), and requests in the list, in
  the handler's hand and answered are together at most one for a runner that waits
  or has given up waiting and none for another, plus one for each wait that Redis
  refused (`OwedOf`). On top of it, while nothing has failed, `StepsInv` follows one
  call of the code through pipe, lists and hand (`RunStep`, `WaitStep`, `AwaitStep`).
- `ListsCleared`: `NothingLeft`. While nothing failed and the superagent has time
  left, a runner whose execution is not relayed has ended (`OthersOver`), and a result
  is the last thing a runner pushes (`ResultIsLast`), so that the deletion after it
  meets no further push.
- `CodeTypeCorrect`: types, and that f faults never leave more than 1 + f requests in
  a list, which is `OwedOf` again.

The built-in tools, for any agents, buffers, texts and order of runs:

- `FinalizedStays`: `FinalizedKept`, an action property, from the shape of the
  buffers alone: no call writes to a buffer with a port, and `Finish` takes the
  text of a buffer finalized to it for each port that has one.
- `BoxTypeCorrect`: types.

### Only model-checked

- Liveness, since TLAPS does not reason about ENABLED: `Finishes`, `Reported`,
  `BothEnd`, `StreamEnds`, `SyncAnswered`, `CloseReturns`.
- What recursive operators compute: `ParsesBack`, `SameAcrossJSON`,
  `TemplatesParse`. `AcceptedStarts` compares two tables of rules on the
  configurations TLC enumerates.

## Counterexamples

Statements of the documentation that the code does not keep have a configuration
of their own that reproduces the trace, `tlc -config X.cfg M`:

| Configuration, module | Violates | What happens |
|---|---|---|
| `MCBarrierBroken.cfg`, `MCGraph` | `GroupBarrier` (docs/concepts/execution.md:186) | A redelivered node task is counted for another node (worker/orchestrator.go:283) and ends the group early. |
| `MCFailedNodes.cfg`, `MCGraph` | `CompletedMeansSucceeded` (execution.md:20, :278) | An execution with a failed node completes (worker/orchestrator.go:853). |
| `MCRouting.cfg`, `MCGraph` | `RoutedEachIteration` (loops.md:132) | The loop pass runs nodes of a branch that this iteration does not take (worker/orchestrator.go:1018). |
| `MCCalls.cfg`, `ToolLoop` | `CallsBounded` (docs/nodes/llm.md:157) | A tool loop whose result the orchestrator took runs again after ten minutes and calls its tools again (worker/llm_call.go:313). |
| `MCFinality.cfg`, `Lifecycle` | `FinalIsFinal` (execution.md:270, docs/api/executions.md:118) | The orchestrator and a cancelling request overwrite each other (worker/orchestrator.go:195, server/api/executions.go:331). |
| `MCStranded.cfg`, `CodeExec` | `RunnersEnd` (docs/nodes/superagent.md:105, "Wall-clock limit per execution") | The superagent runs out of time and deletes the cancel it has just pushed (worker/superagent_handler.go:1597); the runner's BRPOP without a timeout (worker/code_exec_runner.go:133) waits for ever and holds its slot. |
| `MCMemory.cfg`, `MCRules` | `MemoryReaches` (docs/concepts/superagent-tools.md, "Cross-Node Memory Flow") | The second agent of a documented graph starts with nothing (worker/superagent_handler.go:209) and then overwrites what the first one stored. |
| `MCSeed.cfg`, `MCInProcess` | `InputsKept` (comment in engine/orchestrator/loops.go: "Skip input nodes -- they keep their original outputs.") | An input node that a back-edge leads to loses its outputs. |
| `MCEntry.cfg`, `MCInProcess` | `SkipReadsAgree` | A loop entered only by its back-edge is skipped when it ends, with the conditional that ended it (engine/orchestrator/orchestrator.go:433; worker/orchestrator_helpers.go:148 does the same). |

## Where documentation and code part

Met while modelling; the models follow the code.

*Executions.* `timed_out` is never written. Nodes downstream of a loop run before
it and again after it (loops.md:36), the second time without event and step row.
`max_iterations` counts re-executions, so a body runs once more. State reducers
are ignored: a write appends if the value is a list and replaces otherwise
(worker/orchestrator_helpers.go:105; state.md:78, :106). `Last-Event-ID` is not
looked at. EXPIRE on the result key comes before the key exists. A graph that is
refused in the worker leaves its row pending. The answer to a sync request is taken from
the event because "the worker publishes to Redis before the DB write is visible to
other connections" (server/api/executions.go:206-208); the worker publishes after
`UpdateExecution` has returned (worker/orchestrator.go:1154), so until somebody has
cancelled, and while the store does not fail, the row already says what the answer says
(`AnswerMatchesRow`). In the loop pass one redelivered
result is written for the wrong node.

*LLM nodes.* The finish reason is `limit_reached` where docs/nodes/llm.md names two
others. An LLM node that has only `api_tools` fails in the worker; a route with an
endpoint but no tool id goes to an empty URL; `tool_routing_from_input`
(llm.md:161, :189) is not implemented; discovery ignores `Compacted`.

*Superagents.* Shared memory never reaches a downstream agent: it is looked up by
port name in a map keyed by field names (worker/superagent_handler.go:209;
superagent-tools.md:60), and Validate asks for a field of another name
(validate.go:735). The merge reducer it also asks for is not applied, so the agent that
ends last replaces what the others stored. "The agent resumes the conversation from
where it left off" (guides/superagent-advanced.md:200) holds for a history with all its
answers; that of an agent which was cut off in a batch is sent on as it is. Without an evaluator the worker ends at the first text
and the in-process agent runs exactly `max_iterations`. ForceExit is unreachable
(docs/nodes/superagent.md:170). Reflections of the detector exceed
`max_reflections` (superagent.md:81) and do not clear its window (:79). Built-in
calls count only in process (:101). In process `_total_tool_calls` drops the calls
of a cut-off tool loop, and the evaluator never sees the final text. `_iterations`
is zero-based. A timeout in a reflection fails the node; one in a batch leaves
calls without answers; compaction can keep answers without calls. API tools of a
skill pass by `denied` and `require_approval`; `allowed` and
`stuck_detection.enabled` are ignored; `auto_flush` defaults to false. Two buffers
finalized to one port leave the choice to the map's order; finalizing to no port
leaves the buffer writable.

*Code execution.* The limit on the clock does not end a runner that is blocked in its
BRPOP for a response (nodes/superagent.md:105; worker/code_exec_runner.go:133 has no
timeout, and cmd/coderunner/main.go:36 a client without ContextTimeoutEnabled;
worker/orchestrator_wait_test.go:93 knows of the same): where the response or the cancel is lost
or deleted it waits until the connection breaks. After the runner's death the relay waits the superagent's whole
timeout. After a refused BRPOP the runner takes a late response for that of its
next call.

*Validation.* Orphaned nodes are a warning (docs/concepts/graphs.md:109 says
rejected). Create and update return no validation errors
(common-errors.md:7). Duplicate edge ids (edges.md:19), conditions of back-edges,
`max_tool_loop_rounds`, `RepeatThreshold`, `MaxReflections` and the field of
`tool_routing_from_state` are not checked; a required port that only a back-edge
feeds is accepted, and so is an initial value that is no list in an append field.
Nodes of type `api_tool` with an inline endpoint are accepted and run only in
process; code execution is offered in process and runs only in the worker.

*Expressions.* The condition of a back-edge takes a zero int64 or float64 for true
and an empty map for false (operators.md, conditional.md:33). `"5" == 5` is true.
The table of precedences has the pipe below the ternary (expressions/overview.md:80),
so that `a ? b : c | f` would be `(a ? b : c) | f`; the parser takes it for
`a ? b : (c | f)`, and a lambda swallows a pipe behind it, too (parser.go:106).
`input.items | length > 0 ? …` does not parse, nor does `?.[0]`. `reject`
checks existence (arrays.md:130). A second `{{#else}}` hangs the parser. `unique`
and `flatten` of nothing become null across JSON, and
`[1000000] == x` is false for the same list out of JSON. Comparing mixed strings and numerals
is not transitive, nor is sorting. `truncate` panics on a negative length.

## Not modelled

- Providers and the MCP client: HTTP, codecs, a retry loop without a second actor.
- The server's CRUD handlers and middleware: one statement per request.
- Trace exporters, the command line, the Terraform provider and the web UI:
  clients of the API.
- Prompts, the contents of messages, tool discovery and the rendering of requests:
  success, failure or an arbitrary answer.
- Characters inside tokens, dates and most filters on strings; JSON-schema checks.
- Several executions on one pool of slots; asynq's recovery of `graph:start`, which
  is queued with no retry.
- A tool task of the tool loop delivered twice.

## What could come next

A pool of slots with several executions, where waiting orchestrators of one hold
the slots another one's tasks need; and asynq's recovery of a `graph:start` whose
worker died, if it is ever queued with retries.
