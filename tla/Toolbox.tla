------------------------------- MODULE Toolbox --------------------------------
(***************************************************************************)
(* The built-in tools of the superagents (engine/executor/                 *)
(* superagent_builtin_tools.go, the same for both coordinators): a list of *)
(* tasks, buffers that are finalized to output ports, and a memory that is *)
(* meant to go from one agent of a graph to the next through its state.    *)
(* Superagent and LocalAgent have the loop that calls them; a call that is *)
(* refused changes nothing and is left out.                                *)
(***************************************************************************)
EXTENDS Integers, Sequences, FiniteSets

CONSTANTS
    Agent,
    Space,          \* Agent -> the namespace of its memory
    Uses,           \* Agent -> which of the tools its model calls
    Key, Fact,      \* what it may store
    Buffer, Port,   \* names of buffers, the agents' output ports
    Symbol,         \* what texts are made of
    MaxText,        \* bound on the length of a text
    MaxTasks,       \* bound on the number of tasks
    Teams,          \* sets of agents that run in one execution
    Schemas         \* sets of state fields that _memory_out is written to

ASSUME ToolboxAssumption ==
    /\ Space \in [Agent -> STRING] /\ Uses \in [Agent -> SUBSET {"memory", "tasks", "buffers"}]
    /\ MaxText \in Nat /\ MaxTasks \in Nat
    /\ Teams \subseteq SUBSET Agent
    /\ "" \notin Port

VARIABLES
    state,      \* field -> the entries in the graph's state
    phase,      \* Agent -> how far it is
    memory,     \* Agent -> MemoryStore.entries: from (namespace, key) to the fact
    buffers,    \* Agent -> BufferManager.buffers: name -> text and FinalizedTo
    tasks,      \* Agent -> TaskTracker.tasks: the status of each, by number
    outputs,    \* Agent -> port -> where its text came from and the text
    own,        \* history: Agent -> what it stored itself
    before      \* history: Agent -> who had finished when it started

boxVars == <<state, phase, memory, buffers, tasks, outputs, own, before>>

Empty == [k \in {} |-> 0]
With(f, k, v) == [x \in DOMAIN f \cup {k} |-> IF x = k THEN v ELSE f[x]]
Running(a) == phase[a] = "running"
Done == {a \in Agent : phase[a] = "done"}

BoxInit ==
    /\ \E F \in Schemas : state = [f \in F |-> Empty]
    /\ \E T \in Teams : phase = [a \in Agent |-> IF a \in T THEN "waiting" ELSE "absent"]
    /\ memory = [a \in Agent |-> Empty] /\ own = [a \in Agent |-> Empty]
    /\ buffers = [a \in Agent |-> Empty] /\ tasks = [a \in Agent |-> << >>]
    /\ outputs = [a \in Agent |-> Empty] /\ before = [a \in Agent |-> {}]

-----------------------------------------------------------------------------
(* Memory.                                                                 *)

\* LoadFromState.  Both coordinators look for a state field of the name that documented
\* graphs give the input port, which no documented graph has: Validate asks for the field
\* _superagent_memory.
Loaded(a) == IF "_memory_in" \in DOMAIN state THEN state["_memory_in"] ELSE Empty

StartAgent(a) ==
    /\ phase[a] = "waiting"
    /\ phase' = [phase EXCEPT ![a] = "running"]
    /\ memory' = [memory EXCEPT ![a] = Loaded(a)]
    /\ before' = [before EXCEPT ![a] = Done]
    /\ UNCHANGED <<state, buffers, tasks, outputs, own>>

\* _memory_store, and a fact of the flush before a compaction.
Store(a, key, fact) ==
    /\ Running(a)
    /\ memory' = [memory EXCEPT ![a] = With(@, <<Space[a], key>>, fact)]
    /\ own' = [own EXCEPT ![a] = With(@, <<Space[a], key>>, fact)]
    /\ UNCHANGED <<state, phase, buffers, tasks, outputs, before>>

-----------------------------------------------------------------------------
(* Tasks.                                                                  *)

TaskCreate(a) ==
    /\ Running(a) /\ Len(tasks[a]) < MaxTasks
    /\ tasks' = [tasks EXCEPT ![a] = Append(@, "pending")]
    /\ UNCHANGED <<state, phase, memory, buffers, outputs, own, before>>

TaskUpdate(a, n, status) ==
    /\ Running(a) /\ n \in DOMAIN tasks[a]
    /\ tasks' = [tasks EXCEPT ![a][n] = status]
    /\ UNCHANGED <<state, phase, memory, buffers, outputs, own, before>>

-----------------------------------------------------------------------------
(* Buffers.                                                                *)

BufferCreate(a, b) ==
    /\ Running(a) /\ b \notin DOMAIN buffers[a]
    /\ buffers' = [buffers EXCEPT ![a] = With(@, b, [text |-> << >>, to |-> ""])]
    /\ UNCHANGED <<state, phase, memory, tasks, outputs, own, before>>

\* Mutant: a finalized buffer can still be written to.
WritableAlways(a, b) == b \in DOMAIN buffers[a]

\* getWritable.
Writable(a, b) == b \in DOMAIN buffers[a] /\ buffers[a][b].to = ""

Places(text, s) == {i \in 1 .. Len(text) : text[i] = s}
First(text, s) == CHOOSE i \in Places(text, s) : \A j \in Places(text, s) : i <= j
Spliced(text, from, to, s) == SubSeq(text, 1, from) \o s \o SubSeq(text, to + 1, Len(text))

\* What Append, Prepend, Insert, Replace (the first or all) and Delete make of a text.
Edits(text) ==
    UNION {{Append(text, s), <<s>> \o text} : s \in Symbol}
      \cup {Spliced(text, First(text, m), First(text, m), <<s>>) :
               m \in {q \in Symbol : Places(text, q) # {}}, s \in Symbol}
      \cup {Spliced(text, First(text, m) - 1, First(text, m), <<s>>) :
               m \in {q \in Symbol : Places(text, q) # {}}, s \in Symbol}
      \cup {[i \in DOMAIN text |-> IF text[i] = m THEN s ELSE text[i]] : m \in Symbol, s \in Symbol}
      \cup {Spliced(text, r[1], r[2], << >>) :
               r \in {q \in (0 .. Len(text)) \X (0 .. Len(text)) : q[1] <= q[2]}}

BufferWrite(a, b) ==
    /\ Running(a) /\ Writable(a, b)
    /\ \E text \in Edits(buffers[a][b].text) :
          /\ Len(text) <= MaxText
          /\ buffers' = [buffers EXCEPT ![a][b].text = text]
    /\ UNCHANGED <<state, phase, memory, tasks, outputs, own, before>>

\* A port with the empty name leaves the buffer as it was.
Finalize(a, b, port) ==
    /\ Running(a) /\ b \in DOMAIN buffers[a] /\ buffers[a][b].to = ""
    /\ buffers' = [buffers EXCEPT ![a][b].to = port]
    /\ UNCHANGED <<state, phase, memory, tasks, outputs, own, before>>

-----------------------------------------------------------------------------
\* resolveOutputs and applyStateWrites.  Of two buffers finalized to one port the order
\* of the map decides; a port without a buffer gets what the model says.  The reducer of
\* the state field is not looked at: what is no list is overwritten.
Finish(a) ==
    /\ Running(a)
    /\ \E choice \in [Port -> Buffer] :
          LET For(p) == {b \in DOMAIN buffers[a] : buffers[a][b].to = p}
          IN  /\ \A p \in Port : For(p) # {} => choice[p] \in For(p)
              /\ outputs' = [outputs EXCEPT ![a] = [p \in Port |->
                     IF For(p) # {} THEN [from |-> "buffer", text |-> buffers[a][choice[p]].text]
                     ELSE [from |-> "model", text |-> << >>]]]
    /\ state' = [f \in DOMAIN state |-> memory[a]]
    /\ phase' = [phase EXCEPT ![a] = "done"]
    /\ UNCHANGED <<memory, buffers, tasks, own, before>>

BoxNext ==
    \E a \in Agent :
        \/ StartAgent(a)
        \/ "memory" \in Uses[a] /\ \E k \in Key, c \in Fact : Store(a, k, c)
        \/ "tasks" \in Uses[a] /\ TaskCreate(a)
        \/ \E n \in 1 .. MaxTasks, s \in {"pending", "in_progress", "completed"} : TaskUpdate(a, n, s)
        \/ "buffers" \in Uses[a] /\ \E b \in Buffer : BufferCreate(a, b)
        \/ \E b \in Buffer : BufferWrite(a, b)
        \/ \E b \in Buffer, p \in Port : Finalize(a, b, p)
        \/ Finish(a)

BoxSpec == BoxInit /\ [][BoxNext]_boxVars

-----------------------------------------------------------------------------
BoxTypes ==
    LET Entries == UNION {[K -> Fact] : K \in SUBSET ({Space[a] : a \in Agent} \X Key)}
    IN  /\ DOMAIN state \in Schemas /\ \A f \in DOMAIN state : state[f] \in Entries
        /\ phase \in [Agent -> {"absent", "waiting", "running", "done"}]
        /\ memory \in [Agent -> Entries] /\ own \in [Agent -> Entries]
        /\ \A a \in Agent : /\ DOMAIN buffers[a] \subseteq Buffer
                            /\ \A b \in DOMAIN buffers[a] : buffers[a][b].to \in Port \cup {""}
                            /\ tasks[a] \in Seq({"pending", "in_progress", "completed"})
        /\ before \in [Agent -> SUBSET Agent]

\* The text of a finalized buffer is what its port gets, whatever is called in between,
\* unless another buffer was finalized to that port (getWritable, Finalize).
FinalizedKept ==
    [][\A a \in Agent : \A b \in DOMAIN buffers[a] :
          LET p == buffers[a][b].to
          IN  p # "" =>
                /\ buffers'[a][b] = buffers[a][b]
                /\ phase[a] # "done" /\ phase'[a] = "done" =>
                      \/ outputs'[a][p] = [from |-> "buffer", text |-> buffers[a][b].text]
                      \/ \E q \in DOMAIN buffers[a] \ {b} : buffers[a][q].to = p]_boxVars

-----------------------------------------------------------------------------
(* What the code does not keep: the second agent of a documented graph     *)
(* starts with an empty memory, and its own replaces the first one's in    *)
(* the state.                                                              *)

\* An agent that starts after another one has finished knows the keys it stored
\* (docs/concepts/superagent-tools.md, "Cross-Node Memory Flow").
MemoryReaches ==
    \A a \in Agent : Running(a) => \A b \in before[a] : DOMAIN own[b] \subseteq DOMAIN memory[a]

=============================================================================
