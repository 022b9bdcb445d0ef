--------------------------- MODULE AgentToolProofs ---------------------------
(***************************************************************************)
(* Proofs about what the superagents' tools promise, for any agents,       *)
(* buffers, ports, executions and limits.  The built-in tools: the types,  *)
(* and that a finalized buffer is what its port gets.  Code executions:    *)
(* the types, that a call of the code returns the response to its own      *)
(* request, and that no list outlives an execution whose result was        *)
(* collected.                                                              *)
(***************************************************************************)
EXTENDS CodeExec, Toolbox, Integers, SequenceTheorems, TLAPS

-----------------------------------------------------------------------------
(* The built-in tools: the types.                                          *)

\* What a memory, or a state field that holds one, can be.
Slot == {Space[a] : a \in Agent} \X Key
Entries == UNION {[K -> Fact] : K \in SUBSET Slot}

\* Each agent has its own of everything, who finished before an agent is still done,
\* and an agent that has not started has stored nothing.
BoxShape ==
    /\ phase \in [Agent -> {"absent", "waiting", "running", "done"}]
    /\ DOMAIN memory = Agent /\ DOMAIN own = Agent /\ before \in [Agent -> SUBSET Agent]
    /\ DOMAIN buffers = Agent /\ DOMAIN tasks = Agent /\ DOMAIN outputs = Agent
    /\ \A a \in Agent : before[a] \subseteq Done
    /\ \A a \in Agent : phase[a] \in {"absent", "waiting"} => own[a] = Empty

\* A buffer is a text and the port it is finalized to.
IsBuffer(r) == DOMAIN r = {"text", "to"} /\ r.to \in Port \cup {""}

BuffersTyped ==
    \A a \in Agent : /\ DOMAIN buffers[a] \subseteq Buffer
                      /\ \A b \in DOMAIN buffers[a] : IsBuffer(buffers[a][b])

TasksTyped == \A a \in Agent : tasks[a] \in Seq({"pending", "in_progress", "completed"})

MemoryTyped ==
    /\ DOMAIN state \in Schemas /\ \A f \in DOMAIN state : state[f] \in Entries
    /\ memory \in [Agent -> Entries] /\ own \in [Agent -> Entries]

\* What With(f, k, v) is: f with v at k.
LEMMA WithFacts ==
    ASSUME NEW f, NEW k, NEW v
    PROVE  /\ DOMAIN With(f, k, v) = DOMAIN f \cup {k}
           /\ With(f, k, v)[k] = v
           /\ \A x \in DOMAIN f : x # k => With(f, k, v)[x] = f[x]
BY DEF With

LEMMA EmptyTyped == Empty \in Entries
<1>1. Empty \in [{} -> Fact] /\ {} \in SUBSET Slot
    BY DEF Empty
<1> QED
    BY <1>1 DEF Entries

LEMMA WithTyped ==
    ASSUME NEW f \in Entries, NEW k \in Slot, NEW v \in Fact
    PROVE  With(f, k, v) \in Entries
<1>1. PICK K \in SUBSET Slot : f \in [K -> Fact]
    BY DEF Entries
<1>2. With(f, k, v) \in [K \cup {k} -> Fact]
    BY <1>1 DEF With
<1>3. K \cup {k} \in SUBSET Slot
    OBVIOUS
<1> QED
    BY <1>2, <1>3 DEF Entries

LEMMA BoxInitHolds == BoxInit => BoxShape /\ BuffersTyped /\ TasksTyped /\ MemoryTyped
<1> SUFFICES ASSUME BoxInit PROVE BoxShape /\ BuffersTyped /\ TasksTyped /\ MemoryTyped
    OBVIOUS
<1>1. BoxShape
    BY DEF BoxInit, BoxShape, Done
<1>2. BuffersTyped
    BY DEF BoxInit, BuffersTyped, Empty
<1>3. TasksTyped
    BY DEF BoxInit, TasksTyped
<1>4. MemoryTyped
    BY EmptyTyped DEF BoxInit, MemoryTyped
<1> QED
    BY <1>1, <1>2, <1>3, <1>4

\* An action of the tools, by an agent.
BoxStep(a) ==
    \/ StartAgent(a)
    \/ \E k \in Key, c \in Fact : Store(a, k, c)
    \/ TaskCreate(a)
    \/ \E n \in 1 .. MaxTasks, s \in {"pending", "in_progress", "completed"} : TaskUpdate(a, n, s)
    \/ \E b \in Buffer : BufferCreate(a, b)
    \/ \E b \in Buffer : BufferWrite(a, b)
    \/ \E b \in Buffer, p \in Port : Finalize(a, b, p)
    \/ Finish(a)

LEMMA BoxNextSteps == BoxNext => \E a \in Agent : BoxStep(a)
BY DEF BoxNext, BoxStep

LEMMA ShapeKept ==
    ASSUME BoxShape, NEW a \in Agent, BoxStep(a)
    PROVE  BoxShape'
<1>1. CASE StartAgent(a)
    BY <1>1 DEF StartAgent, BoxShape, Done
<1>2. ASSUME NEW k \in Key, NEW c \in Fact, Store(a, k, c) PROVE BoxShape'
    BY <1>2 DEF Store, BoxShape, Done, Running
<1>3. CASE TaskCreate(a)
    BY <1>3 DEF TaskCreate, BoxShape, Done
<1>4. ASSUME NEW n \in 1 .. MaxTasks, NEW s \in {"pending", "in_progress", "completed"}, TaskUpdate(a, n, s)
      PROVE  BoxShape'
    BY <1>4 DEF TaskUpdate, BoxShape, Done
<1>5. ASSUME NEW b \in Buffer, BufferCreate(a, b) PROVE BoxShape'
    BY <1>5 DEF BufferCreate, BoxShape, Done
<1>6. ASSUME NEW b \in Buffer, BufferWrite(a, b) PROVE BoxShape'
    <2>1. DOMAIN buffers' = DOMAIN buffers
        BY <1>6 DEF BufferWrite
    <2> QED
        BY <1>6, <2>1 DEF BufferWrite, BoxShape, Done
<1>7. ASSUME NEW b \in Buffer, NEW p \in Port, Finalize(a, b, p) PROVE BoxShape'
    BY <1>7 DEF Finalize, BoxShape, Done
<1>8. CASE Finish(a)
    <2>1. DOMAIN outputs' = DOMAIN outputs
        BY <1>8 DEF Finish
    <2> QED
        BY <1>8, <2>1 DEF Finish, BoxShape, Done, Running
<1> QED
    BY <1>1, <1>2, <1>3, <1>4, <1>5, <1>6, <1>7, <1>8 DEF BoxStep

\* One buffer is new or becomes another one.
LEMMA BufferReplaced ==
    ASSUME BuffersTyped, NEW a \in Agent, NEW b \in Buffer, NEW r, IsBuffer(r),
           DOMAIN buffers'[a] = DOMAIN buffers[a] \cup {b}, buffers'[a][b] = r,
           \A c \in DOMAIN buffers[a] : c # b => buffers'[a][c] = buffers[a][c],
           \A c \in Agent \ {a} : buffers'[c] = buffers[c]
    PROVE  BuffersTyped'
<1> SUFFICES ASSUME NEW c \in Agent
             PROVE  /\ DOMAIN buffers'[c] \subseteq Buffer
                    /\ \A d \in DOMAIN buffers'[c] : IsBuffer(buffers'[c][d])
    BY DEF BuffersTyped
<1>1. CASE c # a
    BY <1>1 DEF BuffersTyped
<1>2. CASE c = a
    <2>1. DOMAIN buffers'[c] \subseteq Buffer
        BY <1>2 DEF BuffersTyped
    <2>2. ASSUME NEW d \in DOMAIN buffers'[c] PROVE IsBuffer(buffers'[c][d])
        <3>1. CASE d = b
            BY <1>2, <3>1
        <3>2. CASE d # b
            <4>1. d \in DOMAIN buffers[a] /\ buffers'[c][d] = buffers[a][d]
                BY <1>2, <2>2, <3>2
            <4> QED
                BY <4>1 DEF BuffersTyped
        <3> QED
            BY <3>1, <3>2
    <2> QED
        BY <2>1, <2>2
<1> QED
    BY <1>1, <1>2

\* What an update of one of its fields leaves of a buffer.
LEMMA BufferUpdates ==
    ASSUME NEW r, IsBuffer(r), NEW v
    PROVE  /\ IsBuffer([r EXCEPT !.text = v])
           /\ v \in Port => IsBuffer([r EXCEPT !.to = v])
BY DEF IsBuffer

LEMMA BuffersKept ==
    ASSUME BoxShape, BuffersTyped, NEW a \in Agent, BoxStep(a)
    PROVE  BuffersTyped'
<1>1. ASSUME UNCHANGED buffers PROVE BuffersTyped'
    BY <1>1 DEF BuffersTyped
<1>2. CASE StartAgent(a) \/ TaskCreate(a) \/ Finish(a)
    BY <1>1, <1>2 DEF StartAgent, TaskCreate, Finish
<1>3. ASSUME NEW k \in Key, NEW c \in Fact, Store(a, k, c) PROVE BuffersTyped'
    BY <1>1, <1>3 DEF Store
<1>4. ASSUME NEW n \in 1 .. MaxTasks, NEW s \in {"pending", "in_progress", "completed"}, TaskUpdate(a, n, s)
      PROVE  BuffersTyped'
    BY <1>1, <1>4 DEF TaskUpdate
<1>5. ASSUME NEW b \in Buffer, BufferCreate(a, b) PROVE BuffersTyped'
    <2> DEFINE r == [text |-> << >>, to |-> ""]
    <2>1. buffers'[a] = With(buffers[a], b, r) /\ \A c \in Agent \ {a} : buffers'[c] = buffers[c]
        BY <1>5 DEF BufferCreate, BoxShape
    <2>2. IsBuffer(r)
        BY DEF IsBuffer
    <2> HIDE DEF r
    <2>3. /\ DOMAIN buffers'[a] = DOMAIN buffers[a] \cup {b} /\ buffers'[a][b] = r
          /\ \A c \in DOMAIN buffers[a] : c # b => buffers'[a][c] = buffers[a][c]
        BY <2>1 DEF With
    <2> QED
        BY <2>1, <2>2, <2>3, BufferReplaced
<1>6. ASSUME NEW b \in Buffer, BufferWrite(a, b) PROVE BuffersTyped'
    <2>1. PICK text : buffers' = [buffers EXCEPT ![a][b].text = text]
        BY <1>6 DEF BufferWrite
    <2>2. b \in DOMAIN buffers[a]
        BY <1>6 DEF BufferWrite, Writable
    <2> DEFINE r == [buffers[a][b] EXCEPT !.text = text]
    <2>3. /\ \A c \in Agent \ {a} : buffers'[c] = buffers[c]
          /\ DOMAIN buffers'[a] = DOMAIN buffers[a] \cup {b}
          /\ \A c \in DOMAIN buffers[a] : c # b => buffers'[a][c] = buffers[a][c]
          /\ buffers'[a][b] = r
        BY <2>1, <2>2 DEF BoxShape
    <2>4. IsBuffer(buffers[a][b])
        BY <2>2 DEF BuffersTyped
    <2>5. IsBuffer(r)
        BY <2>4, BufferUpdates
    <2> HIDE DEF r
    <2> QED
        BY <2>3, <2>5, BufferReplaced
<1>7. ASSUME NEW b \in Buffer, NEW p \in Port, Finalize(a, b, p) PROVE BuffersTyped'
    <2>1. b \in DOMAIN buffers[a] /\ buffers' = [buffers EXCEPT ![a][b].to = p]
        BY <1>7 DEF Finalize
    <2> DEFINE r == [buffers[a][b] EXCEPT !.to = p]
    <2>2. /\ \A c \in Agent \ {a} : buffers'[c] = buffers[c]
          /\ DOMAIN buffers'[a] = DOMAIN buffers[a] \cup {b}
          /\ \A c \in DOMAIN buffers[a] : c # b => buffers'[a][c] = buffers[a][c]
          /\ buffers'[a][b] = r
        BY <2>1 DEF BoxShape
    <2>3. IsBuffer(buffers[a][b])
        BY <2>1 DEF BuffersTyped
    <2>4. IsBuffer(r)
        BY <2>3, BufferUpdates
    <2> HIDE DEF r
    <2> QED
        BY <2>2, <2>4, BufferReplaced
<1> QED
    BY <1>2, <1>3, <1>4, <1>5, <1>6, <1>7 DEF BoxStep

LEMMA TasksKept ==
    ASSUME BoxShape, TasksTyped, NEW a \in Agent, BoxStep(a)
    PROVE  TasksTyped'
<1> DEFINE Status == {"pending", "in_progress", "completed"}
<1>1. ASSUME UNCHANGED tasks PROVE TasksTyped'
    BY <1>1 DEF TasksTyped
<1>2. CASE StartAgent(a) \/ Finish(a)
    BY <1>1, <1>2 DEF StartAgent, Finish
<1>3. ASSUME NEW k \in Key, NEW c \in Fact, Store(a, k, c) PROVE TasksTyped'
    BY <1>1, <1>3 DEF Store
<1>4. CASE TaskCreate(a)
    <2>1. tasks'[a] = Append(tasks[a], "pending") /\ \A c \in Agent \ {a} : tasks'[c] = tasks[c]
        BY <1>4 DEF TaskCreate, BoxShape
    <2>2. tasks[a] \in Seq(Status) /\ "pending" \in Status
        BY DEF TasksTyped
    <2>3. Append(tasks[a], "pending") \in Seq(Status)
        BY <2>2, AppendProperties
    <2> QED
        BY <2>1, <2>3 DEF TasksTyped
<1>5. ASSUME NEW n \in 1 .. MaxTasks, NEW s \in Status, TaskUpdate(a, n, s) PROVE TasksTyped'
    <2>1. tasks'[a] = [tasks[a] EXCEPT ![n] = s] /\ \A c \in Agent \ {a} : tasks'[c] = tasks[c]
        BY <1>5 DEF TaskUpdate, BoxShape
    <2>2. tasks[a] \in Seq(Status) /\ n \in DOMAIN tasks[a]
        BY <1>5 DEF TasksTyped, TaskUpdate
    <2>3. [tasks[a] EXCEPT ![n] = s] \in Seq(Status)
        BY <2>2, ExceptSeq
    <2> QED
        BY <2>1, <2>3 DEF TasksTyped
<1>6. ASSUME NEW b \in Buffer, BufferCreate(a, b) \/ BufferWrite(a, b) PROVE TasksTyped'
    BY <1>1, <1>6 DEF BufferCreate, BufferWrite
<1>7. ASSUME NEW b \in Buffer, NEW p \in Port, Finalize(a, b, p) PROVE TasksTyped'
    BY <1>1, <1>7 DEF Finalize
<1> QED
    BY <1>2, <1>3, <1>4, <1>5, <1>6, <1>7 DEF BoxStep

LEMMA MemoryTypedKept ==
    ASSUME BoxShape, MemoryTyped, NEW a \in Agent, BoxStep(a)
    PROVE  MemoryTyped'
<1>1. ASSUME UNCHANGED <<state, memory, own>> PROVE MemoryTyped'
    BY <1>1 DEF MemoryTyped
<1>2. CASE StartAgent(a)
    <2>1. Loaded(a) \in Entries
        BY EmptyTyped DEF Loaded, MemoryTyped
    <2> QED
        BY <1>2, <2>1 DEF StartAgent, MemoryTyped, BoxShape
<1>3. ASSUME NEW k \in Key, NEW c \in Fact, Store(a, k, c) PROVE MemoryTyped'
    <2>1. <<Space[a], k>> \in Slot
        BY DEF Slot
    <2>2. With(memory[a], <<Space[a], k>>, c) \in Entries /\ With(own[a], <<Space[a], k>>, c) \in Entries
        BY <2>1, WithTyped DEF MemoryTyped
    <2> QED
        BY <1>3, <2>2 DEF Store, MemoryTyped, BoxShape
<1>4. CASE TaskCreate(a)
    BY <1>1, <1>4 DEF TaskCreate
<1>5. ASSUME NEW n \in 1 .. MaxTasks, NEW s \in {"pending", "in_progress", "completed"}, TaskUpdate(a, n, s)
      PROVE  MemoryTyped'
    BY <1>1, <1>5 DEF TaskUpdate
<1>6. ASSUME NEW b \in Buffer, BufferCreate(a, b) \/ BufferWrite(a, b) PROVE MemoryTyped'
    BY <1>1, <1>6 DEF BufferCreate, BufferWrite
<1>7. ASSUME NEW b \in Buffer, NEW p \in Port, Finalize(a, b, p) PROVE MemoryTyped'
    BY <1>1, <1>7 DEF Finalize
<1>8. CASE Finish(a)
    <2>1. state' = [f \in DOMAIN state |-> memory[a]] /\ UNCHANGED <<memory, own>>
        BY <1>8 DEF Finish
    <2> QED
        BY <2>1 DEF MemoryTyped
<1> QED
    BY <1>2, <1>3, <1>4, <1>5, <1>6, <1>7, <1>8 DEF BoxStep

BoxInv == BoxShape /\ BuffersTyped /\ TasksTyped /\ MemoryTyped

LEMMA BoxInvariance == BoxSpec => []BoxInv
<1>1. BoxInit => BoxInv
    BY BoxInitHolds DEF BoxInv
<1>2. BoxInv /\ [BoxNext]_boxVars => BoxInv'
    <2> SUFFICES ASSUME BoxInv, [BoxNext]_boxVars PROVE BoxInv'
        OBVIOUS
    <2>1. CASE UNCHANGED boxVars
        BY <2>1 DEF boxVars, BoxInv, BoxShape, Done, BuffersTyped, TasksTyped, MemoryTyped
    <2>2. ASSUME NEW a \in Agent, BoxStep(a) PROVE BoxInv'
        BY <2>2, ShapeKept, BuffersKept, TasksKept, MemoryTypedKept DEF BoxInv
    <2> QED
        BY <2>1, <2>2, BoxNextSteps
<1> QED
    BY <1>1, <1>2, PTL DEF BoxSpec

\* The types of the tools' state, for any agents, buffers and texts (NewTaskTracker,
\* BufferManager, MemoryStore).
THEOREM BoxTypeCorrect == BoxSpec => []BoxTypes
<1>1. BoxInv => BoxTypes
    <2> SUFFICES ASSUME BoxInv PROVE BoxTypes
        OBVIOUS
    <2>1. Entries = UNION {[K -> Fact] : K \in SUBSET ({Space[a] : a \in Agent} \X Key)}
        BY DEF Entries, Slot
    <2> QED
        BY <2>1 DEF BoxInv, BoxTypes, BoxShape, BuffersTyped, IsBuffer, TasksTyped, MemoryTyped
<1> QED
    BY BoxInvariance, <1>1, PTL

-----------------------------------------------------------------------------
(* The built-in tools: a finalized buffer is what its port gets.           *)

LEMMA FinishOutputs ==
    ASSUME BoxInv, NEW a \in Agent, Finish(a), NEW b \in DOMAIN buffers[a], buffers[a][b].to # ""
    PROVE  \/ outputs'[a][buffers[a][b].to] = [from |-> "buffer", text |-> buffers[a][b].text]
           \/ \E q \in DOMAIN buffers[a] \ {b} : buffers[a][q].to = buffers[a][b].to
<1> DEFINE For(p) == {c \in DOMAIN buffers[a] : buffers[a][c].to = p}
<1>1. PICK choice \in [Port -> Buffer] :
          /\ \A p \in Port : For(p) # {} => choice[p] \in For(p)
          /\ outputs' = [outputs EXCEPT ![a] = [p \in Port |->
                 IF For(p) # {} THEN [from |-> "buffer", text |-> buffers[a][choice[p]].text]
                 ELSE [from |-> "model", text |-> << >>]]]
    BY DEF Finish
<1> DEFINE port == buffers[a][b].to
<1>2. port \in Port /\ b \in For(port)
    BY DEF BoxInv, BuffersTyped, IsBuffer
<1>3. DOMAIN outputs = Agent
    BY DEF BoxInv, BoxShape
<1>4. choice[port] \in For(port)
      /\ outputs'[a][port] = [from |-> "buffer", text |-> buffers[a][choice[port]].text]
    BY <1>1, <1>2, <1>3
<1>5. CASE choice[port] = b
    BY <1>4, <1>5
<1>6. CASE choice[port] # b
    BY <1>4, <1>6
<1> QED
    BY <1>5, <1>6

\* A finalized buffer never changes again, and when its agent is done its port has this
\* text, or the text of another buffer that was finalized to the same port: for any
\* buffers, ports, texts and calls in between (getWritable, Finalize, resolveOutputs).
THEOREM FinalizedStays == BoxSpec => FinalizedKept
<1>1. BoxInv /\ [BoxNext]_boxVars =>
          [\A a \in Agent : \A b \in DOMAIN buffers[a] :
              LET p == buffers[a][b].to
              IN  p # "" =>
                    /\ buffers'[a][b] = buffers[a][b]
                    /\ phase[a] # "done" /\ phase'[a] = "done" =>
                          \/ outputs'[a][p] = [from |-> "buffer", text |-> buffers[a][b].text]
                          \/ \E q \in DOMAIN buffers[a] \ {b} : buffers[a][q].to = p]_boxVars
    <2> SUFFICES ASSUME BoxInv, NEW c \in Agent, BoxStep(c),
                        NEW a \in Agent, NEW b \in DOMAIN buffers[a], buffers[a][b].to # ""
                 PROVE  /\ buffers'[a][b] = buffers[a][b]
                        /\ phase[a] # "done" /\ phase'[a] = "done" =>
                              \/ outputs'[a][buffers[a][b].to] = [from |-> "buffer", text |-> buffers[a][b].text]
                              \/ \E q \in DOMAIN buffers[a] \ {b} : buffers[a][q].to = buffers[a][b].to
        BY BoxNextSteps
    <2>1. BoxShape
        BY DEF BoxInv
    <2>2. buffers'[a][b] = buffers[a][b]
        <3>1. CASE UNCHANGED buffers
            BY <3>1
        <3>2. ASSUME NEW d \in Buffer, BufferCreate(c, d) PROVE buffers'[a][b] = buffers[a][b]
            <4>1. buffers'[c] = With(buffers[c], d, [text |-> << >>, to |-> ""]) /\ d \notin DOMAIN buffers[c]
                  /\ \A e \in Agent \ {c} : buffers'[e] = buffers[e]
                BY <2>1, <3>2 DEF BufferCreate, BoxShape
            <4> QED
                BY <4>1 DEF With
        <3>3. ASSUME NEW d \in Buffer, BufferWrite(c, d) PROVE buffers'[a][b] = buffers[a][b]
            <4>1. PICK text : buffers' = [buffers EXCEPT ![c][d].text = text]
                BY <3>3 DEF BufferWrite
            <4>2. d \in DOMAIN buffers[c] /\ buffers[c][d].to = ""
                BY <3>3 DEF BufferWrite, Writable
            <4> QED
                BY <2>1, <4>1, <4>2 DEF BoxShape
        <3>4. ASSUME NEW d \in Buffer, NEW p \in Port, Finalize(c, d, p) PROVE buffers'[a][b] = buffers[a][b]
            BY <2>1, <3>4 DEF Finalize, BoxShape
        <3> QED
            BY <3>1, <3>2, <3>3, <3>4 DEF BoxStep, StartAgent, Store, TaskCreate, TaskUpdate, Finish
    <2>3. phase[a] # "done" /\ phase'[a] = "done" => Finish(a)
        <3>1. CASE UNCHANGED phase
            BY <3>1
        <3>2. CASE StartAgent(c)
            BY <2>1, <3>2 DEF StartAgent, BoxShape
        <3>3. CASE Finish(c)
            <4>1. phase' = [phase EXCEPT ![c] = "done"]
                BY <3>3 DEF Finish
            <4>2. a # c => phase'[a] = phase[a]
                BY <2>1, <4>1 DEF BoxShape
            <4> QED
                BY <3>3, <4>2
        <3> QED
            BY <3>1, <3>2, <3>3
            DEF BoxStep, Store, TaskCreate, TaskUpdate, BufferCreate, BufferWrite, Finalize
    <2> QED
        BY <2>2, <2>3, FinishOutputs
<1> QED
    BY BoxInvariance, <1>1, PTL DEF BoxSpec, FinalizedKept

-----------------------------------------------------------------------------
(* Code executions: the types and who works on what.                       *)

\* TypeOK but for the bound on the requests in a list, which needs more than types.
HandlerTyped ==
    /\ ctx \in {"live", "ended"} /\ count \in Nat /\ cur \in 0 .. Execs
    /\ relay \in {"idle", "pop", "dispatch", "cleanup"} /\ hand \in Nat
    /\ answer \in [Exec -> Statuses \union {"none", "refused"}]
ListsTyped ==
    /\ callbacks \in [Exec -> Seq(Nat)] /\ responses \in [Exec -> Seq(Response)]
    /\ outcome \in [Exec -> Seq(Statuses)]
RunnerTyped ==
    /\ runner \in [Exec -> {"none", "queued", "scan", "push", "sent", "await", "drain", "done"}]
    /\ deadline \in [Exec -> BOOLEAN] /\ asked \in [Exec -> Nat] /\ req \in [Exec -> Nat]
CodeTyped ==
    /\ code \in [Exec -> {"none", "run", "wait", "ended", "killed"}] /\ seq \in [Exec -> Nat]
    /\ pipe \in [Exec -> Seq(Nat)] /\ stdin \in [Exec -> Seq(Response)]
    /\ got \in [Exec -> Response \union {Nothing}]
CountsTyped == tools \in [Exec -> Nat] /\ faults \in Nat

ExecTyped == HandlerTyped /\ ListsTyped /\ RunnerTyped /\ CodeTyped /\ CountsTyped

\* Nobody has started e's process yet; nobody has put anything into its lists.
Unused(e) ==
    /\ code[e] = "none" /\ ~ deadline[e] /\ seq[e] = 0 /\ got[e] = Nothing
    /\ pipe[e] = << >> /\ stdin[e] = << >>
Fresh(e) == callbacks[e] = << >> /\ responses[e] = << >> /\ outcome[e] = << >>

Active == {"scan", "push", "sent", "await", "drain"}

\* The handler relays the execution that was counted last or none, those to come are
\* untouched, and a process that goes on has a runner whose time is not up.
Relayed == count <= Execs /\ cur \in {0, count} /\ (cur = 0 <=> relay = "idle")
Untouched == \A e \in Exec :
    /\ e > count => runner[e] = "none"
    /\ runner[e] = "none" => Fresh(e) /\ e # cur
    /\ runner[e] \in {"none", "queued"} => Unused(e)
    /\ code[e] \in {"run", "wait"} => ~ deadline[e] /\ runner[e] \in Active

ExecInv == ExecTyped /\ Relayed /\ Untouched

\* The steps of the handler and of the runner of e, whatever may go wrong in them.
HandlerStep ==
    \/ Handler \/ ContextEnds \/ RelayFails \/ CleanUpFails
    \/ \E bad \in BOOLEAN : Refuse(bad) \/ RespondFails(bad)
RunnerStep(e) ==
    \/ Runner(e) \/ Deadline(e) \/ StartFails(e)
    \/ PushRequestFails(e) \/ AwaitFails(e) \/ RunnerDies(e)

LEMMA NextSteps == Next => HandlerStep \/ \E e \in Exec : RunnerStep(e) \/ Code(e)
BY DEF Next, HandlerStep, RunnerStep

LEMMA PutFacts ==
    ASSUME NEW S, NEW l \in [Exec -> Seq(S)], NEW e \in Exec, NEW x \in S
    PROVE  /\ Put(l, e, x) \in [Exec -> Seq(S)]
           /\ Put(l, e, x)[e] = Append(l[e], x)
           /\ \A d \in Exec : d # e => Put(l, e, x)[d] = l[d]
<1>1. Append(l[e], x) \in Seq(S)
    BY AppendProperties
<1> QED
    BY <1>1 DEF Put

LEMMA TakeFacts ==
    ASSUME NEW S, NEW l \in [Exec -> Seq(S)], NEW e \in Exec, l[e] # << >>
    PROVE  /\ Head(l[e]) \in S
           /\ Take(l, e) \in [Exec -> Seq(S)]
           /\ Take(l, e)[e] = Tail(l[e])
           /\ \A d \in Exec : d # e => Take(l, e)[d] = l[d]
<1>1. Head(l[e]) \in S /\ Tail(l[e]) \in Seq(S)
    BY HeadTailProperties
<1> QED
    BY <1>1 DEF Take

\* What the handler relays is an execution that was begun.
LEMMA CurFacts ==
    ASSUME ExecInv, relay # "idle"
    PROVE  cur \in Exec /\ cur = count /\ runner[cur] # "none"
<1>1. cur # 0 /\ cur = count /\ cur \in 0 .. Execs /\ Execs \in Nat
    BY CodeExecAssumption DEF ExecInv, Relayed, ExecTyped, HandlerTyped
<1>2. cur \in Exec
    BY <1>1 DEF Exec
<1> QED
    BY <1>1, <1>2 DEF ExecInv, Untouched

\* The next execution to count is one nobody has begun.
LEMMA NextExec ==
    ASSUME ExecInv, count < Execs
    PROVE  count + 1 \in Exec /\ runner[count + 1] = "none" /\ count + 1 <= Execs
<1>1. count \in Nat /\ Execs \in Nat
    BY CodeExecAssumption DEF ExecInv, ExecTyped, HandlerTyped
<1>2. count + 1 \in Exec /\ count + 1 > count /\ count + 1 <= Execs
    BY <1>1 DEF Exec
<1> QED
    BY <1>2 DEF ExecInv, Untouched

LEMMA ResponseTyped ==
    ASSUME NEW k \in {"result", "error", "cancel"}, NEW n \in Nat
    PROVE  [kind |-> k, n |-> n] \in Response
BY DEF Response

LEMMA HandlerTypes == ASSUME ExecInv, HandlerStep PROVE ExecTyped'
<1> USE DEF ExecTyped, HandlerTyped, ListsTyped, RunnerTyped, CodeTyped, CountsTyped, lists, runnerVars, codeVars
<1>0. ExecTyped
    BY DEF ExecInv
<1>1. ASSUME NEW bad \in BOOLEAN, Refuse(bad) PROVE ExecTyped'
    <2>1. count + 1 \in Exec /\ count' = count + 1 /\ count' \in Nat
        BY <1>0, <1>1, NextExec DEF Refuse
    <2>2. answer' \in [Exec -> Statuses \union {"none", "refused"}]
        BY <1>0, <1>1, <2>1 DEF Refuse
    <2> QED
        BY <1>0, <1>1, <2>1, <2>2 DEF Refuse
<1>2. CASE Execute
    <2>1. count + 1 \in 0 .. Execs /\ count + 1 \in Exec /\ count + 1 \in Nat
        BY <1>0, <1>2, NextExec, CodeExecAssumption DEF Execute
    <2> QED
        BY <1>0, <1>2, <2>1 DEF Execute
<1>3. CASE PopCallback
    <2>1. callbacks' \in [Exec -> Seq(Nat)] /\ hand' \in Nat
        BY <1>0, <1>3, CurFacts, TakeFacts DEF PopCallback
    <2> QED
        BY <1>0, <1>3, <2>1 DEF PopCallback
<1>4. ASSUME NEW kind \in {"result", "error"}, Respond(kind)
      PROVE  responses' \in [Exec -> Seq(Response)] /\ relay' = "pop" /\ hand' = 0
    <2>1. cur \in Exec /\ [kind |-> kind, n |-> hand] \in Response
        BY <1>0, <1>4, CurFacts, ResponseTyped DEF Respond
    <2> QED
        BY <1>0, <1>4, <2>1, PutFacts DEF Respond
<1>5. CASE DispatchRefused
    BY <1>0, <1>4, <1>5 DEF DispatchRefused
<1>6. ASSUME NEW kind \in {"result", "error"}, DispatchCall(kind) PROVE ExecTyped'
    <2>0. cur \in Exec /\ tools' = [tools EXCEPT ![cur] = @ + 1]
        BY <1>6, CurFacts DEF DispatchCall, Respond
    <2>1. tools' \in [Exec -> Nat]
        BY <1>0, <2>0
    <2>2. Respond(kind) /\ UNCHANGED <<ctx, count, cur, answer, callbacks, outcome, runnerVars, codeVars, faults>>
        BY <1>6 DEF DispatchCall
    <2> QED
        BY <1>0, <1>4, <2>1, <2>2
<1>7. CASE PopResult
    <2>1. outcome' \in [Exec -> Seq(Statuses)] /\ Head(outcome[cur]) \in Statuses
        BY <1>0, <1>7, CurFacts, TakeFacts DEF PopResult
    <2> QED
        BY <1>0, <1>7, <2>1 DEF PopResult
<1>8. ASSUME NEW status \in Statuses, RelayEnds(status) PROVE ExecTyped'
    <2>1. responses' \in [Exec -> Seq(Response)]
        BY <1>0, <1>8, CurFacts, PutFacts, ResponseTyped DEF RelayEnds
    <2> QED
        BY <1>0, <1>8, <2>1 DEF RelayEnds
<1>9. CASE RelayFails
    <2>1. faults' \in Nat
        BY <1>0, <1>9 DEF RelayFails, Fault
    <2>2. answer' \in [Exec -> Statuses \union {"none", "refused"}]
        BY <1>0, <1>9 DEF RelayFails, Statuses
    <2> QED
        BY <1>0, <1>9, <2>1, <2>2 DEF RelayFails
<1>10. CASE CleanUp
    <2>1. << >> \in Seq(Nat) /\ << >> \in Seq(Response) /\ << >> \in Seq(Statuses)
        OBVIOUS
    <2>2. 0 \in 0 .. Execs
        BY CodeExecAssumption
    <2> QED
        BY <1>0, <1>10, <2>1, <2>2 DEF CleanUp
<1>11. CASE ContextEnds
    BY <1>0, <1>11 DEF ContextEnds
<1>12. CASE CleanUpFails
    <2>1. faults' \in Nat /\ 0 \in 0 .. Execs
        BY <1>0, <1>12, CodeExecAssumption DEF CleanUpFails, Fault
    <2> QED
        BY <1>0, <1>12, <2>1 DEF CleanUpFails
<1>13. ASSUME NEW called \in BOOLEAN, RespondFails(called) PROVE ExecTyped'
    <2>1. cur \in Exec /\ faults' \in Nat
        BY <1>0, <1>13, CurFacts DEF RespondFails, Fault
    <2>2. tools' \in [Exec -> Nat]
        BY <1>0, <1>13, <2>1 DEF RespondFails
    <2> QED
        BY <1>0, <1>13, <2>1, <2>2 DEF RespondFails
<1> QED
    BY <1>1, <1>2, <1>3, <1>5, <1>6, <1>7, <1>8, <1>9, <1>10, <1>11, <1>12, <1>13 DEF HandlerStep, Handler

LEMMA GoneTypes ==
    ASSUME ExecTyped, NEW e \in Exec, Gone(e)
    PROVE  RunnerTyped' /\ CodeTyped'
<1>1. << >> \in Seq(Nat) /\ << >> \in Seq(Response) /\ Nothing \in Response \union {Nothing}
    OBVIOUS
<1> QED
    BY <1>1 DEF ExecTyped, RunnerTyped, CodeTyped, Gone

LEMMA RunnerTypes == ASSUME ExecInv, NEW e \in Exec, RunnerStep(e) PROVE ExecTyped'
<1> USE DEF ExecTyped, HandlerTyped, ListsTyped, RunnerTyped, CodeTyped, CountsTyped,
        handlerVars, lists, runnerVars, codeVars
<1>0. ExecTyped
    BY DEF ExecInv
<1>1. CASE Start(e)
    BY <1>0, <1>1 DEF Start
<1>2. CASE StartFails(e)
    <2>1. outcome' \in [Exec -> Seq(Statuses)]
        BY <1>0, <1>2, PutFacts DEF StartFails, Statuses
    <2>2. faults' \in Nat
        BY <1>0, <1>2 DEF StartFails, Fault
    <2> QED
        BY <1>0, <1>2, <2>1, <2>2 DEF StartFails
<1>3. CASE Scan(e)
    <2>1. Head(pipe[e]) \in Nat /\ pipe' \in [Exec -> Seq(Nat)]
        BY <1>0, <1>3, TakeFacts DEF Scan
    <2>2. Put(stdin, e, [kind |-> "error", n |-> Head(pipe[e])]) \in [Exec -> Seq(Response)]
        BY <1>0, <2>1, PutFacts, ResponseTyped
    <2>3. /\ stdin' \in [Exec -> Seq(Response)]
          /\ runner' \in [Exec -> {"none", "queued", "scan", "push", "sent", "await", "drain", "done"}]
        <3>1. CASE asked[e] + 1 > MaxToolCalls
            <4>1. /\ UNCHANGED runner
                  /\ stdin' = Put(stdin, e, [kind |-> "error", n |-> Head(pipe[e])])
                BY <1>3, <3>1 DEF Scan
            <4> QED
                BY <1>0, <2>2, <4>1
        <3>2. CASE ~ (asked[e] + 1 > MaxToolCalls)
            <4>1. UNCHANGED stdin /\ runner' = [runner EXCEPT ![e] = "push"]
                BY <1>3, <3>2 DEF Scan
            <4> QED
                BY <1>0, <4>1
        <3> QED
            BY <3>1, <3>2
    <2>4. asked' \in [Exec -> Nat] /\ req' \in [Exec -> Nat]
        <3>1. /\ asked' = [asked EXCEPT ![e] = asked[e] + 1] /\ asked[e] + 1 \in Nat
              /\ req' = [req EXCEPT ![e] = Head(pipe[e])]
            BY <1>0, <1>3 DEF Scan
        <3> QED
            BY <1>0, <2>1, <3>1
    <2>5. UNCHANGED <<handlerVars, lists, deadline, code, seq, got, tools, faults>>
        BY <1>3 DEF Scan
    <2> QED
        BY <1>0, <2>1, <2>3, <2>4, <2>5
<1>4. CASE PushRequest(e)
    <2>1. callbacks' \in [Exec -> Seq(Nat)]
        BY <1>0, <1>4, PutFacts DEF PushRequest
    <2> QED
        BY <1>0, <1>4, <2>1 DEF PushRequest
<1>5. CASE PushRequestFails(e)
    <2>1. stdin' \in [Exec -> Seq(Response)]
        BY <1>0, <1>5, PutFacts, ResponseTyped DEF PushRequestFails
    <2>2. faults' \in Nat
        BY <1>0, <1>5 DEF PushRequestFails, Fault
    <2> QED
        BY <1>0, <1>5, <2>1, <2>2 DEF PushRequestFails
<1>6. CASE PopResponse(e)
    <2>1. Head(responses[e]) \in Response /\ responses' \in [Exec -> Seq(Response)]
        BY <1>0, <1>6, TakeFacts DEF PopResponse
    <2>2. stdin' \in [Exec -> Seq(Response)]
        BY <1>0, <1>6, <2>1, PutFacts DEF PopResponse
    <2> QED
        BY <1>0, <1>6, <2>1, <2>2 DEF PopResponse
<1>7. CASE AwaitEnds(e)
    <2>1. stdin' \in [Exec -> Seq(Response)]
        BY <1>0, <1>7, PutFacts, ResponseTyped DEF AwaitEnds
    <2> QED
        BY <1>0, <1>7, <2>1 DEF AwaitEnds
<1>8. CASE AwaitFails(e)
    <2>1. stdin' \in [Exec -> Seq(Response)]
        BY <1>0, <1>8, PutFacts, ResponseTyped DEF AwaitFails
    <2>2. faults' \in Nat
        BY <1>0, <1>8 DEF AwaitFails, Fault
    <2> QED
        BY <1>0, <1>8, <2>1, <2>2 DEF AwaitFails
<1>9. CASE OutputEnds(e)
    BY <1>0, <1>9 DEF OutputEnds
<1>10. ASSUME NEW status \in Statuses, PushResult(e, status) PROVE ExecTyped'
    <2>1. outcome' \in [Exec -> Seq(Statuses)]
        BY <1>0, <1>10, PutFacts DEF PushResult
    <2>2. RunnerTyped' /\ CodeTyped'
        BY <1>0, <1>10, GoneTypes DEF PushResult
    <2> QED
        BY <1>0, <1>10, <2>1, <2>2 DEF PushResult
<1>11. CASE Deadline(e)
    BY <1>0, <1>11 DEF Deadline
<1>12. CASE RunnerDies(e)
    <2>1. RunnerTyped' /\ CodeTyped'
        BY <1>0, <1>12, GoneTypes DEF RunnerDies
    <2>2. faults' \in Nat
        BY <1>0, <1>12 DEF RunnerDies, Fault
    <2> QED
        BY <1>0, <1>12, <2>1, <2>2 DEF RunnerDies
<1>13. CASE Block(e)
    BY <1>0, <1>13 DEF Block
<1> QED
    BY <1>1, <1>2, <1>3, <1>4, <1>5, <1>6, <1>7, <1>8, <1>9, <1>10, <1>11, <1>12, <1>13 DEF RunnerStep, Runner

LEMMA CodeTypes == ASSUME ExecInv, NEW e \in Exec, Code(e) PROVE ExecTyped'
<1> USE DEF ExecTyped, HandlerTyped, ListsTyped, RunnerTyped, CodeTyped, CountsTyped,
        handlerVars, lists, runnerVars, codeVars
<1>0. ExecTyped
    BY DEF ExecInv
<1>1. CASE Call(e)
    <2>1. seq[e] + 1 \in Nat
        BY <1>0
    <2>2. pipe' \in [Exec -> Seq(Nat)]
        BY <1>0, <1>1, <2>1, PutFacts DEF Call
    <2> QED
        BY <1>0, <1>1, <2>1, <2>2 DEF Call
<1>2. CASE Return(e)
    <2>1. Head(stdin[e]) \in Response /\ stdin' \in [Exec -> Seq(Response)]
        BY <1>0, <1>2, TakeFacts DEF Return
    <2> QED
        BY <1>0, <1>2, <2>1 DEF Return
<1>3. CASE ReturnClosed(e)
    <2>1. [kind |-> "error", n |-> seq[e]] \in Response
        BY <1>0, ResponseTyped
    <2> QED
        BY <1>0, <1>3, <2>1 DEF ReturnClosed
<1>4. CASE CodeEnds(e)
    BY <1>0, <1>4 DEF CodeEnds
<1> QED
    BY <1>1, <1>2, <1>3, <1>4 DEF Code

\* A step leaves the executions it is not about, and who relays what.
LEMMA HandlerShape == ASSUME ExecInv, HandlerStep PROVE Relayed' /\ Untouched'
<1>0. /\ count \in Nat /\ cur \in Nat /\ Execs \in Nat
      /\ Relayed /\ Untouched
      /\ \A e \in Exec : e \in Nat
    BY CodeExecAssumption DEF ExecInv, ExecTyped, HandlerTyped, Exec
<1>1. ASSUME NEW bad \in BOOLEAN, Refuse(bad) PROVE Relayed' /\ Untouched'
    <2>1. cur = 0 /\ count' = count + 1 /\ count + 1 <= Execs
          /\ UNCHANGED <<cur, relay, lists, runnerVars, codeVars>>
        BY <1>0, <1>1, NextExec DEF Refuse
    <2>2. Relayed'
        BY <1>0, <2>1 DEF Relayed
    <2>3. Untouched'
        BY <1>0, <2>1 DEF Untouched, Fresh, Unused, lists, runnerVars, codeVars
    <2> QED
        BY <2>2, <2>3
<1>2. CASE Execute
    <2>1. /\ count + 1 \in Exec /\ runner[count + 1] = "none" /\ count + 1 <= Execs
          /\ cur = 0 /\ count' = count + 1 /\ cur' = count + 1 /\ relay' = "pop"
          /\ runner'[count + 1] = "queued" /\ \A e \in Exec : e # count + 1 => runner'[e] = runner[e]
          /\ UNCHANGED <<lists, deadline, codeVars>>
        BY <1>2, NextExec DEF Execute, ExecInv, ExecTyped, RunnerTyped
    <2>2. Relayed'
        BY <1>0, <2>1 DEF Relayed
    <2>3. Untouched'
        BY <1>0, <2>1 DEF Untouched, Fresh, Unused, lists, codeVars, Active
    <2> QED
        BY <2>2, <2>3
<1>3. ASSUME cur \in Exec, runner[cur] # "none", relay # "idle", relay' # "idle",
             UNCHANGED <<count, cur, runnerVars, codeVars>>,
             \A e \in Exec : e # cur =>
                 callbacks'[e] = callbacks[e] /\ responses'[e] = responses[e] /\ outcome'[e] = outcome[e]
      PROVE  Relayed' /\ Untouched'
    <2>1. Relayed'
        BY <1>0, <1>3 DEF Relayed
    <2>2. Untouched'
        BY <1>0, <1>3 DEF Untouched, Fresh, Unused, runnerVars, codeVars
    <2> QED
        BY <2>1, <2>2
<1>4. CASE PopCallback
    <2>1. cur \in Exec /\ runner[cur] # "none"
        BY <1>4, CurFacts DEF PopCallback
    <2>2. \A e \in Exec : e # cur => callbacks'[e] = callbacks[e]
        BY <1>4, <2>1 DEF PopCallback, Take
    <2> QED
        BY <1>3, <1>4, <2>1, <2>2 DEF PopCallback
<1>5. ASSUME NEW kind \in {"result", "error"}, Respond(kind)
      PROVE  /\ cur \in Exec /\ runner[cur] # "none" /\ relay # "idle" /\ relay' # "idle"
             /\ \A e \in Exec : e # cur => responses'[e] = responses[e]
    <2>1. cur \in Exec /\ runner[cur] # "none"
        BY <1>5, CurFacts DEF Respond
    <2>2. \A e \in Exec : e # cur => responses'[e] = responses[e]
        BY <1>5, <2>1 DEF Respond, Put
    <2> QED
        BY <1>5, <2>1, <2>2 DEF Respond
<1>6. CASE DispatchRefused
    BY <1>3, <1>5, <1>6 DEF DispatchRefused
<1>7. ASSUME NEW kind \in {"result", "error"}, DispatchCall(kind) PROVE Relayed' /\ Untouched'
    BY <1>3, <1>5, <1>7 DEF DispatchCall
<1>8. CASE PopResult
    <2>1. cur \in Exec /\ runner[cur] # "none"
        BY <1>8, CurFacts DEF PopResult
    <2>2. \A e \in Exec : e # cur => outcome'[e] = outcome[e]
        BY <1>8, <2>1 DEF PopResult, Take
    <2> QED
        BY <1>3, <1>8, <2>1, <2>2 DEF PopResult
<1>9. ASSUME NEW status \in Statuses, RelayEnds(status) PROVE Relayed' /\ Untouched'
    <2>1. cur \in Exec /\ runner[cur] # "none"
        BY <1>9, CurFacts DEF RelayEnds
    <2>2. \A e \in Exec : e # cur => responses'[e] = responses[e]
        BY <1>9, <2>1 DEF RelayEnds, Put
    <2> QED
        BY <1>3, <1>9, <2>1, <2>2 DEF RelayEnds
<1>10. CASE RelayFails
    <2>1. cur \in Exec /\ runner[cur] # "none"
        BY <1>10, CurFacts DEF RelayFails
    <2> QED
        BY <1>3, <1>10, <2>1 DEF RelayFails, lists
<1>11. CASE CleanUp
    <2>1. /\ cur \in Exec /\ runner[cur] # "none" /\ count' = count /\ cur' = 0 /\ relay' = "idle"
          /\ UNCHANGED <<runnerVars, codeVars>>
        BY <1>11, CurFacts DEF CleanUp
    <2>2. \A e \in Exec : e # cur =>
              callbacks'[e] = callbacks[e] /\ responses'[e] = responses[e] /\ outcome'[e] = outcome[e]
        BY <1>11, <2>1 DEF CleanUp
    <2>3. Relayed'
        BY <1>0, <2>1 DEF Relayed
    <2>4. \A e \in Exec : e # 0
        BY DEF Exec
    <2>5. Untouched'
        BY <1>0, <2>1, <2>2, <2>4 DEF Untouched, Fresh, Unused, runnerVars, codeVars
    <2> QED
        BY <2>3, <2>5
<1>12. CASE ContextEnds
    BY <1>0, <1>12 DEF ContextEnds, Relayed, Untouched, Fresh, Unused, lists, runnerVars, codeVars
<1>13. CASE CleanUpFails
    <2>1. /\ cur \in Exec /\ count' = count /\ cur' = 0 /\ relay' = "idle"
          /\ UNCHANGED <<lists, runnerVars, codeVars>>
        BY <1>13, CurFacts DEF CleanUpFails
    <2>2. \A e \in Exec : e # 0
        BY DEF Exec
    <2>3. Relayed'
        BY <1>0, <2>1 DEF Relayed
    <2>4. Untouched'
        BY <1>0, <2>1, <2>2 DEF Untouched, Fresh, Unused, lists, runnerVars, codeVars
    <2> QED
        BY <2>3, <2>4
<1>14. ASSUME NEW called \in BOOLEAN, RespondFails(called) PROVE Relayed' /\ Untouched'
    <2>1. cur \in Exec /\ runner[cur] # "none"
        BY <1>14, CurFacts DEF RespondFails
    <2> QED
        BY <1>3, <1>14, <2>1 DEF RespondFails, lists
<1> QED
    BY <1>1, <1>2, <1>4, <1>6, <1>7, <1>8, <1>9, <1>10, <1>11, <1>12, <1>13, <1>14 DEF HandlerStep, Handler

\* Nothing of execution d but its answer and its tools changes.
Same(d) ==
    /\ callbacks'[d] = callbacks[d] /\ responses'[d] = responses[d] /\ outcome'[d] = outcome[d]
    /\ runner'[d] = runner[d] /\ deadline'[d] = deadline[d] /\ req'[d] = req[d]
    /\ code'[d] = code[d] /\ seq'[d] = seq[d] /\ got'[d] = got[d]
    /\ pipe'[d] = pipe[d] /\ stdin'[d] = stdin[d]

\* A runner and a process change nothing of another execution, and nothing of the handler.
LEMMA OthersSame ==
    ASSUME ExecInv, NEW e \in Exec, RunnerStep(e) \/ Code(e)
    PROVE  UNCHANGED handlerVars /\ \A d \in Exec : d # e => Same(d)
<1> USE DEF Same, handlerVars, lists, runnerVars, codeVars, Put, Take
<1> DEFINE Rest == \A d \in Exec : d # e => Same(d)
<1>1. Start(e) => Rest
    BY DEF Start
<1>2. StartFails(e) => Rest
    BY DEF StartFails
<1>3. Scan(e) => Rest
    <2> SUFFICES ASSUME Scan(e), NEW d \in Exec, d # e PROVE Same(d)
        OBVIOUS
    <2>1. stdin'[d] = stdin[d] /\ runner'[d] = runner[d]
        <3>1. CASE asked[e] + 1 > MaxToolCalls
            <4>1. UNCHANGED runner /\ stdin' = Put(stdin, e, [kind |-> "error", n |-> Head(pipe[e])])
                BY <3>1 DEF Scan
            <4> QED
                BY <4>1
        <3>2. CASE ~ (asked[e] + 1 > MaxToolCalls)
            <4>1. UNCHANGED stdin /\ runner' = [runner EXCEPT ![e] = "push"]
                BY <3>2 DEF Scan
            <4> QED
                BY <4>1
        <3> QED
            BY <3>1, <3>2
    <2> QED
        BY <2>1 DEF Scan
<1>4. PushRequest(e) => Rest
    BY DEF PushRequest
<1>5. PushRequestFails(e) => Rest
    BY DEF PushRequestFails
<1>6. PopResponse(e) => Rest
    BY DEF PopResponse
<1>7. AwaitEnds(e) => Rest
    BY DEF AwaitEnds
<1>8. AwaitFails(e) => Rest
    BY DEF AwaitFails
<1>9. OutputEnds(e) => Rest
    BY DEF OutputEnds
<1>10. Deadline(e) => Rest
    BY DEF Deadline
<1>11. RunnerDies(e) => Rest
    BY DEF RunnerDies, Gone
<1>12. \A status \in Statuses : PushResult(e, status) => Rest
    BY DEF PushResult, Gone
<1>13. Code(e) => Rest
    <2>1. Call(e) => Rest
        BY DEF Call
    <2>2. Return(e) => Rest
        BY DEF Return
    <2>3. ReturnClosed(e) => Rest
        BY DEF ReturnClosed
    <2>4. CodeEnds(e) => Rest
        BY DEF CodeEnds
    <2> QED
        BY <2>1, <2>2, <2>3, <2>4 DEF Code
<1>15. Block(e) => Rest
    BY DEF Block
<1>14. UNCHANGED handlerVars
    BY DEF RunnerStep, Runner, Code, Start, StartFails, Scan, PushRequest, PushRequestFails, Block, PopResponse,
        AwaitEnds, AwaitFails, OutputEnds, Deadline, RunnerDies, PushResult, Call, Return, ReturnClosed, CodeEnds
<1> QED
    BY <1>1, <1>2, <1>3, <1>4, <1>5, <1>6, <1>7, <1>8, <1>9, <1>10, <1>11, <1>12, <1>13, <1>14, <1>15
    DEF RunnerStep, Runner

\* What a step of e's runner or process makes of where these two are.
LEMMA OwnShape ==
    ASSUME ExecInv, NEW e \in Exec, RunnerStep(e) \/ Code(e)
    PROVE  /\ runner[e] # "none" /\ runner'[e] \notin {"none", "queued"}
           /\ code'[e] \in {"run", "wait"} => ~ deadline'[e] /\ runner'[e] \in Active
<1> USE DEF ExecInv, ExecTyped, RunnerTyped, CodeTyped, Active
<1>1. /\ code[e] \in {"run", "wait"} => ~ deadline[e] /\ runner[e] \in Active
      /\ runner[e] \in {"none", "queued"} => code[e] = "none" /\ ~ deadline[e]
    BY DEF Untouched, Unused
<1>2. CASE Start(e) \/ StartFails(e)
    BY <1>1, <1>2 DEF Start, StartFails, codeVars
<1>3. CASE Scan(e) \/ PushRequest(e)
    BY <1>1, <1>3 DEF Scan, PushRequest, codeVars
<1>4. CASE PushRequestFails(e) \/ Block(e) \/ PopResponse(e)
    BY <1>1, <1>4 DEF PushRequestFails, Block, PopResponse, codeVars
<1>5. CASE AwaitEnds(e) \/ OutputEnds(e)
    BY <1>1, <1>5 DEF AwaitEnds, OutputEnds, codeVars
<1>8. CASE AwaitFails(e)
    <2>1. runner[e] = "await" /\ runner'[e] \in {"drain", "scan"} /\ UNCHANGED <<deadline, code>>
        BY <1>8 DEF AwaitFails
    <2> QED
        BY <1>1, <2>1
<1>9. CASE Deadline(e)
    <2>1. runner[e] \in Alive /\ UNCHANGED runner /\ code'[e] \notin {"run", "wait"}
        BY <1>9 DEF Deadline
    <2> QED
        BY <1>1, <2>1 DEF Alive
<1>6. CASE RunnerDies(e) \/ \E status \in Statuses : PushResult(e, status)
    <2>1. runner[e] \in Alive \union {"drain"} /\ runner'[e] = "done" /\ code'[e] = "ended"
        BY <1>6 DEF RunnerDies, PushResult, Gone
    <2> QED
        BY <1>1, <2>1 DEF Alive
<1>7. CASE Call(e) \/ Return(e) \/ ReturnClosed(e) \/ CodeEnds(e)
    BY <1>1, <1>7 DEF Call, Return, ReturnClosed, CodeEnds, runnerVars
<1> QED
    BY <1>2, <1>3, <1>4, <1>5, <1>6, <1>7, <1>8, <1>9 DEF RunnerStep, Runner, Code

LEMMA OwnerShape ==
    ASSUME ExecInv, NEW e \in Exec, RunnerStep(e) \/ Code(e)
    PROVE  Relayed' /\ Untouched'
<1>1. UNCHANGED handlerVars /\ \A d \in Exec : d # e => Same(d)
    BY OthersSame
<1>2. /\ runner[e] # "none" /\ runner'[e] \notin {"none", "queued"}
      /\ code'[e] \in {"run", "wait"} => ~ deadline'[e] /\ runner'[e] \in Active
    BY OwnShape
<1>3. Relayed'
    BY <1>1 DEF ExecInv, Relayed, handlerVars
<1>4. Untouched'
    BY <1>1, <1>2 DEF ExecInv, Untouched, Fresh, Unused, Same, handlerVars
<1> QED
    BY <1>3, <1>4

LEMMA ExecInitHolds == Init => ExecInv
<1> SUFFICES ASSUME Init PROVE ExecInv
    OBVIOUS
<1>1. << >> \in Seq(Nat) /\ << >> \in Seq(Response) /\ << >> \in Seq(Statuses)
    OBVIOUS
<1>2. 0 \in 0 .. Execs /\ 0 \in Nat
    BY CodeExecAssumption
<1>3. HandlerTyped /\ ListsTyped
    BY <1>1, <1>2 DEF Init, HandlerTyped, ListsTyped
<1>4. RunnerTyped /\ CodeTyped /\ CountsTyped
    BY <1>1 DEF Init, RunnerTyped, CodeTyped, CountsTyped
<1>5. Relayed
    BY CodeExecAssumption DEF Init, Relayed
<1>6. Untouched
    BY CodeExecAssumption DEF Init, Untouched, Fresh, Unused, Exec
<1> QED
    BY <1>3, <1>4, <1>5, <1>6 DEF ExecInv, ExecTyped

LEMMA ExecInvKept == ExecInv /\ [Next]_vars => ExecInv'
<1> SUFFICES ASSUME ExecInv, [Next]_vars PROVE ExecInv'
    OBVIOUS
<1>1. CASE HandlerStep
    BY <1>1, HandlerTypes, HandlerShape DEF ExecInv
<1>2. ASSUME NEW e \in Exec, RunnerStep(e) \/ Code(e) PROVE ExecInv'
    BY <1>2, RunnerTypes, CodeTypes, OwnerShape DEF ExecInv
<1>3. CASE UNCHANGED vars
    BY <1>3 DEF vars, ExecInv, ExecTyped, HandlerTyped, ListsTyped, RunnerTyped, CodeTyped, CountsTyped,
        Relayed, Untouched, Fresh, Unused, handlerVars, lists, runnerVars, codeVars
<1> QED
    BY <1>1, <1>2, <1>3, NextSteps

-----------------------------------------------------------------------------
(* Code executions: each request is owed one response.                     *)

IsCancel(s) == s # << >> /\ s[Len(s)].kind = "cancel"

\* Only the last of a list of responses can be a cancel.
Late(s) == \A i \in 1 .. Len(s) - 1 : s[i].kind # "cancel"

\* How many of a list are no cancel, when only the last can be one.
Answers(s) == IF IsCancel(s) THEN Len(s) - 1 ELSE Len(s)

Relaying(e) == cur = e /\ relay \in {"pop", "dispatch"}
Dispatching(e) == cur = e /\ relay = "dispatch"

CancelOf(e) == Late(responses[e]) /\ (Relaying(e) => ~ IsCancel(responses[e]))

\* The requests and responses on their way between runner and handler.
Working(e) == IF Dispatching(e) THEN 1 ELSE 0
Owed(e) == Len(callbacks[e]) + Working(e) + Answers(responses[e])
Waited(e) == IF runner[e] \in {"sent", "await", "drain", "done"} THEN 1 ELSE 0

\* There is one for a runner that waits or has given up waiting, none for another, and
\* one more for each wait that Redis refused.
OwedOf(e) == Owed(e) <= faults + Waited(e)

OwedInv == ExecInv /\ \A e \in Exec : CancelOf(e) /\ OwedOf(e)

LEMMA WorkingNat == \A e : Working(e) \in {0, 1} /\ Waited(e) \in {0, 1}
BY DEF Working, Waited

LEMMA EmptyAnswers == Late(<< >>) /\ ~ IsCancel(<< >>) /\ Answers(<< >>) = 0
BY DEF Late, IsCancel, Answers

LEMMA AnswersNat == ASSUME NEW s \in Seq(Response) PROVE Answers(s) \in Nat /\ Answers(s) <= Len(s)
<1>1. Len(s) \in Nat /\ (s # << >> => Len(s) >= 1)
    BY LenProperties, EmptySeq
<1> QED
    BY <1>1 DEF Answers, IsCancel

LEMMA AnswerAppended ==
    ASSUME NEW s \in Seq(Response), NEW r \in Response, Late(s), ~ IsCancel(s)
    PROVE  /\ Late(Append(s, r))
           /\ IsCancel(Append(s, r)) <=> r.kind = "cancel"
           /\ Answers(Append(s, r)) = IF r.kind = "cancel" THEN Answers(s) ELSE Answers(s) + 1
<1> DEFINE t == Append(s, r)
<1>1. /\ Len(s) \in Nat /\ Len(t) = Len(s) + 1 /\ t[Len(t)] = r /\ t # << >>
      /\ \A i \in 1 .. Len(s) : t[i] = s[i]
    BY AppendProperties, LenProperties
<1> HIDE DEF t
<1>2. \A i \in 1 .. Len(s) : s[i].kind # "cancel"
    <2> SUFFICES ASSUME NEW i \in 1 .. Len(s) PROVE s[i].kind # "cancel"
        OBVIOUS
    <2>1. CASE i = Len(s)
        BY <1>1, <2>1, EmptySeq DEF IsCancel
    <2>2. CASE i # Len(s)
        BY <1>1, <2>2 DEF Late
    <2> QED
        BY <2>1, <2>2
<1>3. Late(t)
    BY <1>1, <1>2 DEF Late
<1>4. IsCancel(t) <=> r.kind = "cancel"
    BY <1>1 DEF IsCancel
<1>5. Answers(t) = IF r.kind = "cancel" THEN Answers(s) ELSE Answers(s) + 1
    BY <1>1, <1>4 DEF Answers
<1> QED
    BY <1>3, <1>4, <1>5 DEF t

LEMMA ResponseTaken ==
    ASSUME NEW s \in Seq(Response), s # << >>, Late(s)
    PROVE  /\ Late(Tail(s)) /\ (IsCancel(Tail(s)) => IsCancel(s))
           /\ Answers(Tail(s)) = IF Head(s).kind = "cancel" THEN Answers(s) ELSE Answers(s) - 1
<1> DEFINE t == Tail(s)
<1>1. /\ Len(s) \in Nat /\ Len(s) >= 1 /\ t \in Seq(Response) /\ Len(t) = Len(s) - 1
      /\ \A i \in 1 .. Len(t) : t[i] = s[i + 1]
      /\ Head(s) = s[1]
    BY HeadTailProperties, LenProperties, EmptySeq
<1>2. t = << >> <=> Len(t) = 0
    BY <1>1, EmptySeq
<1> HIDE DEF t
<1>3. Late(t)
    <2> SUFFICES ASSUME NEW i \in 1 .. Len(t) - 1 PROVE t[i].kind # "cancel"
        BY DEF Late
    <2>1. i \in 1 .. Len(t) /\ i + 1 \in 1 .. Len(s) - 1
        BY <1>1
    <2> QED
        BY <1>1, <2>1 DEF Late
<1>4. CASE Len(s) = 1
    <2>1. t = << >> /\ (IsCancel(s) <=> Head(s).kind = "cancel")
        BY <1>1, <1>2, <1>4 DEF IsCancel
    <2>2. Answers(t) = 0 /\ ~ IsCancel(t)
        BY <2>1, EmptyAnswers
    <2>3. Answers(s) = IF Head(s).kind = "cancel" THEN 0 ELSE 1
        BY <1>4, <2>1 DEF Answers
    <2> QED
        BY <1>3, <2>1, <2>2, <2>3 DEF t
<1>5. CASE Len(s) > 1
    <2>1. t # << >> /\ t[Len(t)] = s[Len(s)] /\ Head(s).kind # "cancel"
        BY <1>1, <1>2, <1>5 DEF Late
    <2>2. IsCancel(t) <=> IsCancel(s)
        BY <1>1, <2>1 DEF IsCancel
    <2> QED
        BY <1>1, <1>3, <2>1, <2>2 DEF Answers, t
<1> QED
    BY <1>1, <1>4, <1>5

\* Only what e's lists, its runner and the handler are about says what is owed.
LEMMA OwedSame ==
    ASSUME NEW d, CancelOf(d), OwedOf(d), faults \in Nat, faults' \in Nat, faults <= faults',
           callbacks'[d] = callbacks[d], responses'[d] = responses[d], runner'[d] = runner[d],
           Relaying(d)' => Relaying(d), Dispatching(d)' <=> Dispatching(d),
           Len(callbacks[d]) \in Nat, Answers(responses[d]) \in Nat
    PROVE  CancelOf(d)' /\ OwedOf(d)'
<1>1. CancelOf(d)'
    BY DEF CancelOf, IsCancel
<1>2. Owed(d)' = Owed(d) /\ Waited(d)' = Waited(d) /\ Owed(d) \in Nat /\ Waited(d) \in Nat
    <2>1. Answers(responses[d])' = Answers(responses[d])
        BY DEF Answers, IsCancel
    <2>2. Len(callbacks[d])' = Len(callbacks[d])
        OBVIOUS
    <2>3. Working(d)' = Working(d) /\ Waited(d)' = Waited(d)
        BY DEF Working, Waited
    <2> QED
        BY <2>1, <2>2, <2>3, WorkingNat DEF Owed
<1> QED
    BY <1>1, <1>2 DEF OwedOf

\* The lengths of e's lists.
LEMMA ListFacts ==
    ASSUME ExecInv, NEW e \in Exec
    PROVE  /\ callbacks[e] \in Seq(Nat) /\ responses[e] \in Seq(Response)
           /\ Len(callbacks[e]) \in Nat /\ Answers(responses[e]) \in Nat /\ faults \in Nat
<1>1. callbacks[e] \in Seq(Nat) /\ responses[e] \in Seq(Response) /\ faults \in Nat
    BY DEF ExecInv, ExecTyped, ListsTyped, CountsTyped
<1> QED
    BY <1>1, AnswersNat, LenProperties

LEMMA OwedHandler ==
    ASSUME OwedInv, HandlerStep, NEW e \in Exec
    PROVE  CancelOf(e)' /\ OwedOf(e)'
<1>0. ExecInv /\ CancelOf(e) /\ OwedOf(e)
    BY DEF OwedInv
<1>1. /\ callbacks[e] \in Seq(Nat) /\ responses[e] \in Seq(Response)
      /\ Len(callbacks[e]) \in Nat /\ Answers(responses[e]) \in Nat /\ faults \in Nat
    BY <1>0, ListFacts
<1>2. ASSUME NEW bad \in BOOLEAN, Refuse(bad) PROVE CancelOf(e)' /\ OwedOf(e)'
    <2>1. UNCHANGED <<callbacks, responses, runner, cur, relay, faults>>
        BY <1>2 DEF Refuse, lists, runnerVars
    <2> QED
        BY <1>0, <1>1, <2>1, OwedSame DEF Relaying, Dispatching
<1>3. CASE Execute
    <2>1. /\ count + 1 \in Exec /\ runner[count + 1] = "none"
          /\ cur = 0 /\ cur' = count + 1 /\ relay' = "pop"
          /\ runner'[count + 1] = "queued" /\ \A d \in Exec : d # count + 1 => runner'[d] = runner[d]
          /\ UNCHANGED <<callbacks, responses, faults>>
        BY <1>0, <1>3, NextExec DEF Execute, ExecInv, ExecTyped, RunnerTyped, lists
    <2>2. CASE e = count + 1
        <3>1. callbacks'[e] = << >> /\ responses'[e] = << >>
            BY <1>0, <2>1, <2>2 DEF ExecInv, Untouched, Fresh
        <3>2. CancelOf(e)'
            BY <3>1, EmptyAnswers DEF CancelOf
        <3>3. ~ Dispatching(e)' /\ Len(callbacks'[e]) = 0 /\ Answers(responses'[e]) = 0
            BY <2>1, <3>1, EmptyAnswers DEF Dispatching
        <3>4. Owed(e)' = 0 /\ faults' \in Nat /\ Waited(e)' \in Nat
            BY <1>1, <2>1, <3>3 DEF Owed, Waited, Working
        <3> QED
            BY <3>2, <3>4 DEF OwedOf
    <2>3. CASE e # count + 1
        <3>1. ~ Relaying(e)' /\ ~ Dispatching(e)' /\ ~ Dispatching(e)
            BY <2>1, <2>3 DEF Relaying, Dispatching, Exec
        <3> QED
            BY <1>0, <1>1, <2>1, <2>3, <3>1, OwedSame
    <2> QED
        BY <2>2, <2>3
<1>4. CASE PopCallback
    <2>1. /\ cur \in Exec /\ relay = "pop" /\ callbacks[cur] # << >>
          /\ callbacks' = Take(callbacks, cur) /\ relay' = "dispatch"
          /\ UNCHANGED <<cur, responses, runner, faults>>
        BY <1>0, <1>4, CurFacts DEF PopCallback, runnerVars
    <2>2. CASE e = cur
        <3>1. callbacks'[e] = Tail(callbacks[e])
            BY <1>0, <2>1, <2>2 DEF Take, ExecInv, ExecTyped, ListsTyped
        <3>2. Len(callbacks'[e]) = Len(callbacks[e]) - 1
            BY <1>1, <2>1, <2>2, <3>1, HeadTailProperties
        <3>3. ~ Dispatching(e) /\ Dispatching(e)' /\ Relaying(e) /\ Answers(responses'[e]) = Answers(responses[e])
            BY <2>1, <2>2 DEF Dispatching, Relaying
        <3>4. Owed(e)' = Owed(e) /\ Waited(e)' = Waited(e)
            BY <1>1, <2>1, <3>2, <3>3 DEF Owed, Waited, Working
        <3> QED
            BY <1>0, <2>1, <3>3, <3>4 DEF OwedOf, CancelOf
    <2>3. CASE e # cur
        <3>1. callbacks'[e] = callbacks[e] /\ responses'[e] = responses[e] /\ runner'[e] = runner[e]
            BY <2>1, <2>3 DEF Take
        <3>2. ~ Relaying(e)' /\ ~ Dispatching(e)' /\ ~ Dispatching(e)
            BY <2>1, <2>3 DEF Relaying, Dispatching
        <3> QED
            BY <1>0, <1>1, <2>1, <3>1, <3>2, OwedSame
    <2> QED
        BY <2>2, <2>3
<1>5. ASSUME NEW kind \in {"result", "error"}, Respond(kind), UNCHANGED <<cur, callbacks, runner, faults>>
      PROVE  CancelOf(e)' /\ OwedOf(e)'
    <2> DEFINE r == [kind |-> kind, n |-> hand]
    <2>1. /\ cur \in Exec /\ relay = "dispatch" /\ relay' = "pop" /\ r \in Response /\ r.kind # "cancel"
          /\ responses' = IF ctx = "live" THEN Put(responses, cur, r) ELSE responses
        BY <1>0, <1>5, CurFacts, ResponseTyped DEF Respond, ExecInv, ExecTyped, HandlerTyped
    <2> HIDE DEF r
    <2>2. CASE e = cur
        <3>1. Late(responses[e]) /\ ~ IsCancel(responses[e]) /\ Dispatching(e) /\ ~ Dispatching(e)'
            BY <1>0, <2>1, <2>2 DEF CancelOf, Relaying, Dispatching
        <3>2. responses'[e] = Append(responses[e], r) \/ responses'[e] = responses[e]
            <4>1. Put(responses, cur, r)[cur] = Append(responses[cur], r)
                <5>1. responses \in [Exec -> Seq(Response)]
                    BY <1>0 DEF ExecInv, ExecTyped, ListsTyped
                <5> QED
                    BY <2>1, <5>1, PutFacts
            <4> QED
                BY <2>1, <2>2, <4>1
        <3>3. /\ Late(responses'[e]) /\ ~ IsCancel(responses'[e])
              /\ Answers(responses'[e]) \in Nat /\ Answers(responses'[e]) <= Answers(responses[e]) + 1
            <4>1. /\ Late(Append(responses[e], r)) /\ ~ IsCancel(Append(responses[e], r))
                  /\ Answers(Append(responses[e], r)) = Answers(responses[e]) + 1
                BY <1>1, <2>1, <3>1, AnswerAppended
            <4>2. CASE responses'[e] = Append(responses[e], r)
                BY <1>1, <4>1, <4>2
            <4>3. CASE responses'[e] = responses[e]
                BY <1>1, <3>1, <4>3
            <4> QED
                BY <3>2, <4>2, <4>3
        <3>4. /\ Owed(e)' <= Owed(e) /\ Waited(e)' = Waited(e)
              /\ Owed(e)' \in Nat /\ Owed(e) \in Nat /\ Waited(e) \in Nat
            BY <1>1, <1>5, <3>1, <3>3 DEF Owed, Waited, Working
        <3> QED
            BY <1>0, <1>1, <1>5, <3>3, <3>4 DEF OwedOf, CancelOf
    <2>3. CASE e # cur
        <3>1. callbacks'[e] = callbacks[e] /\ responses'[e] = responses[e] /\ runner'[e] = runner[e]
            BY <1>5, <2>1, <2>3 DEF Put
        <3>2. ~ Relaying(e)' /\ ~ Dispatching(e)' /\ ~ Dispatching(e)
            BY <1>5, <2>3 DEF Relaying, Dispatching
        <3> QED
            BY <1>0, <1>1, <1>5, <3>1, <3>2, OwedSame
    <2> QED
        BY <2>2, <2>3
<1>6. CASE DispatchRefused
    BY <1>5, <1>6 DEF DispatchRefused, runnerVars
<1>7. ASSUME NEW kind \in {"result", "error"}, DispatchCall(kind) PROVE CancelOf(e)' /\ OwedOf(e)'
    BY <1>5, <1>7 DEF DispatchCall, runnerVars
<1>8. CASE PopResult
    <2>1. relay = "pop" /\ relay' = "cleanup" /\ UNCHANGED <<callbacks, responses, runner, cur, faults>>
        BY <1>8 DEF PopResult, runnerVars
    <2> QED
        BY <1>0, <1>1, <2>1, OwedSame DEF Relaying, Dispatching
<1>9. ASSUME NEW status \in Statuses, RelayEnds(status) PROVE CancelOf(e)' /\ OwedOf(e)'
    <2> DEFINE r == [kind |-> "cancel", n |-> 0]
    <2>1. /\ cur \in Exec /\ relay = "pop" /\ relay' = "cleanup" /\ r \in Response /\ r.kind = "cancel"
          /\ responses' = Put(responses, cur, r)
          /\ UNCHANGED <<cur, callbacks, runner, faults>>
        BY <1>0, <1>9, CurFacts, ResponseTyped DEF RelayEnds, runnerVars
    <2> HIDE DEF r
    <2>2. ~ Relaying(e)' /\ ~ Dispatching(e)' /\ ~ Dispatching(e)
        BY <2>1 DEF Relaying, Dispatching
    <2>3. CASE e = cur
        <3>1. Late(responses[e]) /\ ~ IsCancel(responses[e])
            BY <1>0, <2>1, <2>3 DEF CancelOf, Relaying
        <3>2. responses'[e] = Append(responses[e], r)
            BY <1>0, <2>1, <2>3, PutFacts DEF ExecInv, ExecTyped, ListsTyped
        <3>3. Late(responses'[e]) /\ Answers(responses'[e]) = Answers(responses[e])
            BY <1>1, <2>1, <3>1, <3>2, AnswerAppended
        <3>4. Owed(e)' = Owed(e) /\ Waited(e)' = Waited(e)
            BY <2>1, <2>2, <3>3 DEF Owed, Waited, Working
        <3> QED
            BY <1>0, <2>1, <2>2, <3>3, <3>4 DEF OwedOf, CancelOf
    <2>4. CASE e # cur
        <3>1. callbacks'[e] = callbacks[e] /\ responses'[e] = responses[e] /\ runner'[e] = runner[e]
            BY <2>1, <2>4 DEF Put
        <3> QED
            BY <1>0, <1>1, <2>1, <2>2, <3>1, OwedSame
    <2> QED
        BY <2>3, <2>4
<1>10. CASE RelayFails
    <2>1. /\ relay = "pop" /\ relay' = "cleanup" /\ UNCHANGED <<callbacks, responses, runner, cur>>
          /\ faults' = faults + 1
        BY <1>10 DEF RelayFails, Fault, runnerVars, lists
    <2>2. faults' \in Nat /\ faults <= faults'
        BY <1>1, <2>1
    <2> QED
        BY <1>0, <1>1, <2>1, <2>2, OwedSame DEF Relaying, Dispatching
<1>11. CASE CleanUp
    <2>1. /\ cur \in Exec /\ relay = "cleanup" /\ relay' = "idle" /\ cur' = 0
          /\ callbacks' = [callbacks EXCEPT ![cur] = << >>]
          /\ responses' = [responses EXCEPT ![cur] = << >>]
          /\ UNCHANGED <<runner, faults>>
        BY <1>0, <1>11, CurFacts DEF CleanUp, runnerVars
    <2>2. ~ Relaying(e)' /\ ~ Dispatching(e)' /\ ~ Dispatching(e)
        BY <2>1 DEF Relaying, Dispatching
    <2>3. CASE e = cur
        <3>1. callbacks'[e] = << >> /\ responses'[e] = << >>
            BY <1>0, <2>1, <2>3 DEF ExecInv, ExecTyped, ListsTyped
        <3>2. CancelOf(e)'
            BY <3>1, EmptyAnswers DEF CancelOf
        <3>3. Len(callbacks'[e]) = 0 /\ Answers(responses'[e]) = 0
            BY <3>1, EmptyAnswers
        <3>4. Owed(e)' = 0 /\ faults' \in Nat /\ Waited(e)' \in Nat
            BY <1>1, <2>1, <2>2, <3>3 DEF Owed, Waited, Working
        <3> QED
            BY <3>2, <3>4 DEF OwedOf
    <2>4. CASE e # cur
        <3>1. callbacks'[e] = callbacks[e] /\ responses'[e] = responses[e] /\ runner'[e] = runner[e]
            BY <2>1, <2>4
        <3> QED
            BY <1>0, <1>1, <2>1, <2>2, <3>1, OwedSame
    <2> QED
        BY <2>3, <2>4
<1>12. CASE ContextEnds
    <2>1. UNCHANGED <<callbacks, responses, runner, cur, relay, faults>>
        BY <1>12 DEF ContextEnds, lists, runnerVars
    <2> QED
        BY <1>0, <1>1, <2>1, OwedSame DEF Relaying, Dispatching
<1>13. CASE CleanUpFails
    <2>1. /\ relay = "cleanup" /\ relay' = "idle" /\ UNCHANGED <<callbacks, responses, runner>>
          /\ faults' = faults + 1
        BY <1>13 DEF CleanUpFails, Fault, runnerVars, lists
    <2>2. faults' \in Nat /\ faults <= faults'
        BY <1>1, <2>1
    <2> QED
        BY <1>0, <1>1, <2>1, <2>2, OwedSame DEF Relaying, Dispatching
<1>14. ASSUME NEW called \in BOOLEAN, RespondFails(called) PROVE CancelOf(e)' /\ OwedOf(e)'
    <2>1. /\ relay = "dispatch" /\ relay' = "pop" /\ UNCHANGED <<cur, callbacks, responses, runner>>
          /\ faults' = faults + 1
        BY <1>14 DEF RespondFails, Fault, runnerVars, lists
    <2>2. CancelOf(e)'
        BY <1>0, <2>1 DEF CancelOf, Relaying, IsCancel
    <2>3. Working(e)' = 0 /\ Working(e) \in {0, 1} /\ Waited(e) \in {0, 1}
        BY <2>1, WorkingNat DEF Working, Dispatching
    <2>4. Answers(responses[e])' = Answers(responses[e]) /\ Len(callbacks[e])' = Len(callbacks[e])
          /\ Waited(e)' = Waited(e)
        BY <2>1 DEF Answers, IsCancel, Waited
    <2>5. Owed(e)' <= Owed(e) /\ Owed(e)' \in Nat /\ Owed(e) \in Nat
        BY <1>1, <2>3, <2>4 DEF Owed
    <2> QED
        BY <1>0, <1>1, <2>1, <2>2, <2>3, <2>4, <2>5 DEF OwedOf
<1> QED
    BY <1>2, <1>3, <1>4, <1>6, <1>7, <1>8, <1>9, <1>10, <1>11, <1>12, <1>13, <1>14 DEF HandlerStep, Handler

\* A runner or a process changes what is owed for no execution but its own.
LEMMA OwedOthers ==
    ASSUME OwedInv, NEW e \in Exec, RunnerStep(e) \/ Code(e), NEW d \in Exec, d # e
    PROVE  CancelOf(d)' /\ OwedOf(d)'
<1>0. ExecInv /\ CancelOf(d) /\ OwedOf(d)
    BY DEF OwedInv
<1>1. Same(d) /\ UNCHANGED handlerVars
    BY <1>0, OthersSame
<1>2. faults \in Nat /\ Len(callbacks[d]) \in Nat /\ Answers(responses[d]) \in Nat
    BY <1>0, ListFacts
<1>3. faults' = faults \/ faults' = faults + 1
    BY DEF RunnerStep, Runner, Code, Start, StartFails, Scan, PushRequest, PushRequestFails, Block, PopResponse,
        AwaitEnds, AwaitFails, OutputEnds, Deadline, RunnerDies, PushResult, Call, Return, ReturnClosed, CodeEnds,
        Fault
<1> QED
    BY <1>0, <1>1, <1>2, <1>3, OwedSame DEF Same, handlerVars, Relaying, Dispatching

LEMMA OwedRunner ==
    ASSUME OwedInv, NEW e \in Exec, RunnerStep(e) \/ Code(e)
    PROVE  CancelOf(e)' /\ OwedOf(e)'
<1>0. ExecInv /\ CancelOf(e) /\ OwedOf(e)
    BY DEF OwedInv
<1>1. /\ callbacks[e] \in Seq(Nat) /\ responses[e] \in Seq(Response)
      /\ Len(callbacks[e]) \in Nat /\ Answers(responses[e]) \in Nat /\ faults \in Nat
    BY <1>0, ListFacts
<1>2. /\ UNCHANGED handlerVars /\ runner[e] # "none"
      /\ (Relaying(e)' <=> Relaying(e)) /\ Working(e)' = Working(e)
    BY <1>0, OthersSame, OwnShape DEF handlerVars, Relaying, Dispatching, Working
<1>3. DOMAIN runner = Exec
    BY <1>0 DEF ExecInv, ExecTyped, RunnerTyped
<1>4. ASSUME UNCHANGED <<callbacks, responses>>,
             \/ faults' = faults /\ Waited(e) <= Waited(e)'
             \/ faults' = faults + 1
      PROVE  CancelOf(e)' /\ OwedOf(e)'
    <2>1. CancelOf(e)'
        BY <1>0, <1>2, <1>4 DEF CancelOf, Late, IsCancel
    <2>0. Answers(responses[e])' = Answers(responses[e]) /\ Len(callbacks[e])' = Len(callbacks[e])
          /\ Waited(e)' \in {0, 1}
        BY <1>4 DEF Answers, IsCancel, Waited
    <2>2. Owed(e)' = Owed(e) /\ Owed(e) \in Nat /\ Waited(e) \in 0 .. 1 /\ Waited(e)' \in 0 .. 1
        BY <1>1, <1>2, <1>4, <2>0, WorkingNat DEF Owed
    <2> QED
        BY <1>0, <1>1, <1>4, <2>1, <2>2 DEF OwedOf
<1>5. CASE Start(e) \/ Scan(e) \/ OutputEnds(e) \/ Deadline(e) \/ AwaitEnds(e) \/ Block(e)
    <2>1. UNCHANGED <<callbacks, responses, faults>>
        BY <1>5 DEF Start, Scan, OutputEnds, Deadline, AwaitEnds, Block, lists
    <2>2. runner'[e] \in {"drain", "await"} \/ runner[e] \in {"queued", "scan"} \/ runner'[e] = runner[e]
        BY <1>3, <1>5 DEF Start, Scan, OutputEnds, Deadline, AwaitEnds, Block
    <2>3. Waited(e) <= Waited(e)'
        BY <2>2 DEF Waited
    <2> QED
        BY <1>4, <2>1, <2>3
<1>6. CASE StartFails(e) \/ AwaitFails(e) \/ RunnerDies(e)
    <2>1. UNCHANGED <<callbacks, responses>> /\ faults' = faults + 1
        BY <1>6 DEF StartFails, AwaitFails, RunnerDies, Fault, lists
    <2> QED
        BY <1>4, <2>1
<1>7. ASSUME NEW status \in Statuses, PushResult(e, status) PROVE CancelOf(e)' /\ OwedOf(e)'
    <2>1. UNCHANGED <<callbacks, responses, faults>> /\ runner'[e] = "done"
        BY <1>3, <1>7 DEF PushResult, Gone
    <2>2. Waited(e) <= Waited(e)'
        BY <2>1 DEF Waited
    <2> QED
        BY <1>4, <2>1, <2>2
<1>8. CASE PushRequestFails(e)
    <2>1. /\ UNCHANGED <<callbacks, responses>> /\ runner[e] = "push" /\ runner'[e] = "scan"
          /\ faults' = faults \/ faults' = faults + 1
        BY <1>3, <1>8 DEF PushRequestFails, Fault, lists
    <2>2. Waited(e) <= Waited(e)'
        BY <2>1 DEF Waited
    <2> QED
        BY <1>4, <2>1, <2>2
<1>9. CASE PushRequest(e)
    <2>1. /\ callbacks'[e] = Append(callbacks[e], req[e]) /\ req[e] \in Nat
          /\ runner[e] = "push" /\ runner'[e] = "sent" /\ UNCHANGED <<responses, faults>>
        <3>1. callbacks \in [Exec -> Seq(Nat)] /\ req[e] \in Nat
            BY <1>0 DEF ExecInv, ExecTyped, ListsTyped, RunnerTyped
        <3>2. Put(callbacks, e, req[e])[e] = Append(callbacks[e], req[e])
            BY <3>1 DEF Put
        <3> QED
            BY <1>3, <1>9, <3>1, <3>2 DEF PushRequest
    <2>2. Len(callbacks'[e]) = Len(callbacks[e]) + 1
        BY <1>1, <2>1, AppendProperties
    <2>3. CancelOf(e)'
        BY <1>0, <1>2, <2>1 DEF CancelOf, Late, IsCancel
    <2>4. Answers(responses[e])' = Answers(responses[e])
        BY <2>1
    <2>5. Owed(e)' = Owed(e) + 1 /\ Owed(e) \in Nat /\ Waited(e) = 0 /\ Waited(e)' = 1
        <3>1. Waited(e) = 0 /\ Waited(e)' = 1
            BY <2>1 DEF Waited
        <3>2. Len(callbacks[e])' = Len(callbacks[e]) + 1
            BY <2>2
        <3>3. Working(e)' = Working(e) /\ Working(e) \in {0, 1}
            BY <1>2, WorkingNat
        <3>4. Owed(e)' = Len(callbacks[e])' + Working(e)' + Answers(responses[e])'
            BY DEF Owed
        <3>5. Owed(e) = Len(callbacks[e]) + Working(e) + Answers(responses[e])
            BY DEF Owed
        <3> QED
            BY <1>1, <2>4, <3>1, <3>2, <3>3, <3>4, <3>5
    <2> QED
        BY <1>0, <1>1, <2>1, <2>3, <2>5 DEF OwedOf
<1>10. CASE PopResponse(e)
    <2> DEFINE r == Head(responses[e])
    <2>1. /\ responses[e] # << >> /\ responses'[e] = Tail(responses[e]) /\ runner[e] = "await"
          /\ runner'[e] = IF r.kind = "cancel" THEN "drain" ELSE "scan"
          /\ UNCHANGED <<callbacks, faults>>
        <3>1. responses \in [Exec -> Seq(Response)] /\ responses[e] # << >>
            BY <1>0, <1>10 DEF PopResponse, ExecInv, ExecTyped, ListsTyped
        <3>2. Take(responses, e)[e] = Tail(responses[e])
            BY <3>1, TakeFacts
        <3> QED
            BY <1>3, <1>10, <3>1, <3>2 DEF PopResponse
    <2>2. /\ Late(responses'[e]) /\ (IsCancel(responses'[e]) => IsCancel(responses[e]))
          /\ Answers(responses'[e]) =
                IF r.kind = "cancel" THEN Answers(responses[e]) ELSE Answers(responses[e]) - 1
        BY <1>0, <1>1, <2>1, ResponseTaken DEF CancelOf
    <2>3. CancelOf(e)'
        BY <1>0, <1>2, <2>2 DEF CancelOf, Late, IsCancel
    <2> HIDE DEF r
    <2>4. /\ Owed(e)' = IF r.kind = "cancel" THEN Owed(e) ELSE Owed(e) - 1
          /\ Waited(e)' = IF r.kind = "cancel" THEN 1 ELSE 0
          /\ Waited(e) = 1 /\ Owed(e) \in Nat
        <3>1. Answers(responses[e])' =
                  IF r.kind = "cancel" THEN Answers(responses[e]) ELSE Answers(responses[e]) - 1
            BY <2>2 DEF r, Answers, IsCancel
        <3>2. Waited(e)' = (IF r.kind = "cancel" THEN 1 ELSE 0) /\ Waited(e) = 1
            BY <2>1 DEF r, Waited
        <3>3. Len(callbacks[e])' = Len(callbacks[e])
            BY <2>1
        <3> QED
            BY <1>1, <1>2, <3>1, <3>2, <3>3, WorkingNat DEF Owed
    <2> QED
        BY <1>0, <1>1, <2>1, <2>3, <2>4 DEF OwedOf
<1>11. CASE Code(e)
    <2>1. UNCHANGED <<callbacks, responses, faults, runner>>
        BY <1>11 DEF Code, Call, Return, ReturnClosed, CodeEnds, lists, runnerVars
    <2>2. Waited(e) <= Waited(e)'
        BY <2>1 DEF Waited
    <2> QED
        BY <1>4, <2>1, <2>2
<1> QED
    BY <1>5, <1>6, <1>7, <1>8, <1>9, <1>10, <1>11 DEF RunnerStep, Runner

LEMMA OwedInit == Init => OwedInv
<1> SUFFICES ASSUME Init, NEW e \in Exec PROVE CancelOf(e) /\ OwedOf(e)
    BY ExecInitHolds DEF OwedInv
<1>1. callbacks[e] = << >> /\ responses[e] = << >> /\ ~ Dispatching(e) /\ faults = 0
    BY DEF Init, Dispatching
<1>2. Answers(responses[e]) = 0 /\ Len(callbacks[e]) = 0 /\ CancelOf(e)
    BY <1>1, EmptyAnswers DEF CancelOf
<1>3. Owed(e) = 0 /\ Waited(e) \in Nat
    BY <1>1, <1>2 DEF Owed, Waited, Working
<1> QED
    BY <1>1, <1>2, <1>3 DEF OwedOf

LEMMA OwedInvariance == Spec => []OwedInv
<1>1. Init => OwedInv
    BY OwedInit
<1>2. OwedInv /\ [Next]_vars => OwedInv'
    <2> SUFFICES ASSUME OwedInv, [Next]_vars PROVE OwedInv'
        OBVIOUS
    <2>0. ExecInv'
        BY ExecInvKept DEF OwedInv
    <2>1. CASE HandlerStep
        BY <2>0, <2>1, OwedHandler DEF OwedInv
    <2>2. ASSUME NEW e \in Exec, RunnerStep(e) \/ Code(e) PROVE OwedInv'
        BY <2>0, <2>2, OwedOthers, OwedRunner DEF OwedInv
    <2>3. CASE UNCHANGED vars
        <3>1. UNCHANGED <<callbacks, responses, faults, runner, cur, relay>>
            BY <2>3 DEF vars, handlerVars, lists, runnerVars
        <3>2. ASSUME NEW e \in Exec PROVE CancelOf(e)' /\ OwedOf(e)'
            <4>1. ExecInv /\ CancelOf(e) /\ OwedOf(e)
                BY DEF OwedInv
            <4>2. faults \in Nat /\ Len(callbacks[e]) \in Nat /\ Answers(responses[e]) \in Nat
                BY <4>1, ListFacts
            <4> QED
                BY <3>1, <4>1, <4>2, OwedSame DEF Relaying, Dispatching
        <3> QED
            BY <2>0, <3>2 DEF OwedInv
    <2> QED
        BY <2>1, <2>2, <2>3, NextSteps
<1> QED
    BY <1>1, <1>2, PTL DEF Spec

\* The types of the three lists, the pipes and the counters, for any executions, slots,
\* limits and faults: with f faults no list of requests ever holds more than 1 + f
\* (codeExecRelayLoop, codeExecRunner).
THEOREM CodeTypeCorrect == Spec => []TypeOK
<1>1. OwedInv => TypeOK
    <2> SUFFICES ASSUME OwedInv PROVE TypeOK
        OBVIOUS
    <2>1. ASSUME NEW e \in Exec PROVE Len(callbacks[e]) <= 1 + faults
        <3>1. Len(callbacks[e]) \in Nat /\ Answers(responses[e]) \in Nat /\ faults \in Nat
            BY ListFacts DEF OwedInv
        <3>2. Owed(e) <= faults + Waited(e) /\ Waited(e) \in 0 .. 1
            BY DEF OwedInv, OwedOf, Waited
        <3>3. Len(callbacks[e]) <= Owed(e) /\ Owed(e) \in Nat
            BY <3>1, WorkingNat DEF Owed
        <3> QED
            BY <3>1, <3>2, <3>3
    <2> QED
        BY <2>1
        DEF OwedInv, ExecInv, ExecTyped, HandlerTyped, ListsTyped, RunnerTyped, CodeTyped, CountsTyped, TypeOK
<1> QED
    BY OwedInvariance, <1>1, PTL

-----------------------------------------------------------------------------
(* Code executions: a call returns the response to its own request.        *)

\* Each of these responses answers call n or cancels.
Own(s, n) == \A i \in 1 .. Len(s) : s[i].kind = "cancel" \/ s[i].n = n

\* Code that runs has taken what it was sent, and that was the answer to its last call.
RunStep(e) == code[e] = "run" =>
    /\ stdin[e] = << >> /\ runner[e] \in {"scan", "drain"} /\ (runner[e] = "scan" => pipe[e] = << >>)
    /\ got[e].kind \in {"result", "error"} => got[e].n = seq[e]

\* The one signal of code that waits is in the pipe, with the runner, or answered.
WaitStep(e) == code[e] = "wait" =>
    /\ stdin[e] = << >> \/ \E r \in Response : stdin[e] = <<r>> /\ (r.kind = "cancel" \/ r.n = seq[e])
    /\ runner[e] = "scan" =>
          \/ pipe[e] = <<seq[e]>> /\ stdin[e] = << >>
          \/ pipe[e] = << >> /\ stdin[e] # << >>
    /\ runner[e] \in {"push", "sent", "await"} => pipe[e] = << >> /\ stdin[e] = << >> /\ req[e] = seq[e]

\* Then the lists and the hand of the handler have this call and no other.
AwaitStep(e) == code[e] = "wait" /\ runner[e] \in {"sent", "await"} =>
    /\ \A i \in 1 .. Len(callbacks[e]) : callbacks[e][i] = seq[e]
    /\ Dispatching(e) => hand = seq[e]
    /\ Own(responses[e], seq[e])

InStep(e) == RunStep(e) /\ WaitStep(e) /\ AwaitStep(e)

\* With no fault so far; the place of a response in the list is the right one because
\* OwedInv leaves none for a runner that is not waiting.
StepsInv == OwedInv /\ (faults = 0 => \A e \in Exec : InStep(e))

LEMMA OwnAppended ==
    ASSUME NEW s \in Seq(Response), NEW r \in Response, NEW n, Own(s, n), r.kind = "cancel" \/ r.n = n
    PROVE  Own(Append(s, r), n)
<1> DEFINE t == Append(s, r)
<1>1. /\ Len(s) \in Nat /\ Len(t) = Len(s) + 1 /\ t[Len(s) + 1] = r
      /\ \A i \in 1 .. Len(s) : t[i] = s[i]
    BY AppendProperties, LenProperties
<1> HIDE DEF t
<1>2. \A i \in 1 .. Len(t) : i \in 1 .. Len(s) \/ i = Len(s) + 1
    BY <1>1
<1>3. Own(t, n)
    BY <1>1, <1>2 DEF Own
<1> QED
    BY <1>3 DEF t

LEMMA NoAnswersOwn ==
    ASSUME NEW s \in Seq(Response), Answers(s) = 0, NEW n
    PROVE  Own(s, n)
<1>1. Len(s) \in Nat
    BY LenProperties
<1>2. CASE IsCancel(s)
    <2>1. Len(s) = 1
        BY <1>1, <1>2 DEF Answers
    <2>2. s[1].kind = "cancel"
        BY <1>2, <2>1 DEF IsCancel
    <2> QED
        BY <2>1, <2>2 DEF Own
<1>3. CASE ~ IsCancel(s)
    BY <1>1, <1>3 DEF Answers, Own
<1> QED
    BY <1>2, <1>3

LEMMA HeadOwn ==
    ASSUME NEW s \in Seq(Response), s # << >>, NEW n, Own(s, n)
    PROVE  Head(s) \in Response /\ (Head(s).kind = "cancel" \/ Head(s).n = n)
<1>1. Head(s) = s[1] /\ Head(s) \in Response /\ 1 \in 1 .. Len(s)
    BY HeadTailProperties, LenProperties, EmptySeq
<1> QED
    BY <1>1 DEF Own

\* A runner that is about to push finds nothing of an earlier call on the way.
LEMMA NothingOwed ==
    ASSUME OwedInv, faults = 0, NEW e \in Exec, Waited(e) = 0, NEW n
    PROVE  callbacks[e] = << >> /\ ~ Dispatching(e) /\ Own(responses[e], n)
<1>1. /\ callbacks[e] \in Seq(Nat) /\ responses[e] \in Seq(Response)
      /\ Len(callbacks[e]) \in Nat /\ Answers(responses[e]) \in Nat
    BY ListFacts DEF OwedInv
<1>2. Owed(e) <= 0
    BY DEF OwedInv, OwedOf
<1>3. Len(callbacks[e]) = 0 /\ Working(e) = 0 /\ Answers(responses[e]) = 0
    BY <1>1, <1>2, WorkingNat DEF Owed
<1>4. callbacks[e] = << >>
    BY <1>1, <1>3, EmptySeq
<1>5. ~ Dispatching(e)
    BY <1>3 DEF Working
<1> QED
    BY <1>1, <1>3, <1>4, <1>5, NoAnswersOwn

\* The handler leaves runner and process alone.
LEMMA HandlerInStep ==
    ASSUME StepsInv, HandlerStep, faults' = 0, NEW e \in Exec
    PROVE  InStep(e)'
<1>1. ExecInv /\ CancelOf(e) /\ OwedOf(e) /\ faults \in Nat
    BY DEF StepsInv, OwedInv, ExecInv, ExecTyped, CountsTyped
<1>2. /\ faults = 0 /\ ~ RelayFails /\ ~ CleanUpFails /\ \A called \in BOOLEAN : ~ RespondFails(called)
      /\ UNCHANGED <<deadline, asked, req, codeVars>>
    BY <1>1 DEF HandlerStep, Handler, Refuse, Execute, PopCallback, Respond, DispatchRefused, DispatchCall, PopResult,
        RelayEnds, RelayFails, RespondFails, CleanUp, CleanUpFails, ContextEnds, Fault, runnerVars
<1>3. InStep(e)
    BY <1>2 DEF StepsInv
<1>4. CASE UNCHANGED runner
    <2>1. RunStep(e)' /\ WaitStep(e)'
        BY <1>2, <1>3, <1>4 DEF InStep, RunStep, WaitStep, codeVars
    <2>2. ASSUME code[e] = "wait", runner[e] \in {"sent", "await"}
          PROVE  /\ \A i \in 1 .. Len(callbacks'[e]) : callbacks'[e][i] = seq[e]
                 /\ Dispatching(e)' => hand' = seq[e]
                 /\ Own(responses'[e], seq[e])
        <3>1. /\ \A i \in 1 .. Len(callbacks[e]) : callbacks[e][i] = seq[e]
              /\ Dispatching(e) => hand = seq[e]
              /\ Own(responses[e], seq[e])
            BY <1>3, <2>2 DEF InStep, AwaitStep
        <3>2. callbacks[e] \in Seq(Nat) /\ responses[e] \in Seq(Response) /\ hand \in Nat
            BY <1>1, ListFacts DEF ExecInv, ExecTyped, HandlerTyped
        <3>3. CASE PopCallback
            <4>1. /\ cur \in Exec /\ relay = "pop" /\ callbacks[cur] # << >> /\ hand' = Head(callbacks[cur])
                  /\ callbacks' = Take(callbacks, cur) /\ UNCHANGED <<cur, responses>>
                BY <1>1, <3>3, CurFacts DEF PopCallback
            <4>2. CASE e = cur
                <5>1. callbacks'[e] = Tail(callbacks[e])
                    BY <1>1, <4>1, <4>2 DEF Take, ExecInv, ExecTyped, ListsTyped
                <5>2. /\ Len(callbacks'[e]) = Len(callbacks[e]) - 1 /\ Len(callbacks[e]) \in Nat \ {0}
                      /\ \A i \in 1 .. Len(callbacks'[e]) : callbacks'[e][i] = callbacks[e][i + 1]
                      /\ Head(callbacks[e]) = callbacks[e][1]
                    BY <3>2, <4>1, <4>2, <5>1, HeadTailProperties, LenProperties, EmptySeq
                <5> QED
                    BY <3>1, <4>1, <4>2, <5>2
            <4>3. CASE e # cur
                <5>1. callbacks'[e] = callbacks[e] /\ ~ Dispatching(e)'
                    BY <4>1, <4>3 DEF Take, Dispatching
                <5> QED
                    BY <3>1, <4>1, <5>1
            <4> QED
                BY <4>2, <4>3
        <3>4. ASSUME NEW kind \in {"result", "error"}, Respond(kind), UNCHANGED <<cur, callbacks>>
              PROVE  /\ \A i \in 1 .. Len(callbacks'[e]) : callbacks'[e][i] = seq[e]
                     /\ Dispatching(e)' => hand' = seq[e]
                     /\ Own(responses'[e], seq[e])
            <4> DEFINE r == [kind |-> kind, n |-> hand]
            <4>1. /\ cur \in Exec /\ relay = "dispatch" /\ relay' = "pop" /\ r \in Response /\ r.n = hand
                  /\ responses' = IF ctx = "live" THEN Put(responses, cur, r) ELSE responses
                BY <1>1, <3>2, <3>4, CurFacts, ResponseTyped DEF Respond
            <4> HIDE DEF r
            <4>2. ~ Dispatching(e)'
                BY <4>1 DEF Dispatching
            <4>3. CASE responses'[e] = responses[e]
                BY <3>1, <3>4, <4>2, <4>3
            <4>4. CASE e = cur /\ responses' = Put(responses, cur, r)
                <5>1. responses'[e] = Append(responses[e], r)
                    BY <1>1, <4>1, <4>4 DEF Put, ExecInv, ExecTyped, ListsTyped
                <5>2. r.n = seq[e]
                    BY <3>1, <4>1, <4>4 DEF Dispatching
                <5> QED
                    BY <3>1, <3>2, <3>4, <4>1, <4>2, <5>1, <5>2, OwnAppended
            <4>5. e # cur \/ responses' # Put(responses, cur, r) => responses'[e] = responses[e]
                BY <4>1 DEF Put
            <4> QED
                BY <4>3, <4>4, <4>5
        <3>5. CASE DispatchRefused \/ \E kind \in {"result", "error"} : DispatchCall(kind)
            BY <3>4, <3>5 DEF DispatchRefused, DispatchCall
        <3>6. CASE (\E bad \in BOOLEAN : Refuse(bad)) \/ PopResult \/ ContextEnds
            <4>1. UNCHANGED <<callbacks, responses, hand, cur>> /\ (relay' = "dispatch" => relay = "dispatch")
                BY <3>6 DEF Refuse, PopResult, ContextEnds, lists
            <4> QED
                BY <3>1, <4>1 DEF Dispatching
        <3>7. ASSUME NEW status \in Statuses, RelayEnds(status)
              PROVE  /\ \A i \in 1 .. Len(callbacks'[e]) : callbacks'[e][i] = seq[e]
                     /\ Dispatching(e)' => hand' = seq[e]
                     /\ Own(responses'[e], seq[e])
            <4> DEFINE r == [kind |-> "cancel", n |-> 0]
            <4>1. /\ cur \in Exec /\ relay' = "cleanup" /\ r \in Response /\ r.kind = "cancel"
                  /\ responses' = Put(responses, cur, r) /\ UNCHANGED <<cur, callbacks>>
                BY <1>1, <3>7, CurFacts, ResponseTyped DEF RelayEnds
            <4> HIDE DEF r
            <4>2. responses'[e] = Append(responses[e], r) \/ responses'[e] = responses[e]
                BY <1>1, <4>1 DEF Put, ExecInv, ExecTyped, ListsTyped
            <4>3. Own(Append(responses[e], r), seq[e])
                BY <3>1, <3>2, <4>1, OwnAppended
            <4> QED
                BY <3>1, <4>1, <4>2, <4>3 DEF Dispatching
        <3>8. CASE CleanUp
            <4>1. /\ cur \in Exec /\ relay' = "idle"
                  /\ callbacks' = [callbacks EXCEPT ![cur] = << >>] /\ responses' = [responses EXCEPT ![cur] = << >>]
                BY <1>1, <3>8, CurFacts DEF CleanUp
            <4>2. CASE e = cur
                <5>1. callbacks'[e] = << >> /\ responses'[e] = << >>
                    BY <1>1, <4>1, <4>2 DEF ExecInv, ExecTyped, ListsTyped
                <5> QED
                    BY <4>1, <5>1 DEF Dispatching, Own
            <4>3. CASE e # cur
                BY <3>1, <4>1, <4>3 DEF Dispatching
            <4> QED
                BY <4>2, <4>3
        <3>9. CASE Execute
            <4>1. relay' = "pop" /\ UNCHANGED <<callbacks, responses>>
                BY <3>9 DEF Execute, lists
            <4> QED
                BY <3>1, <4>1 DEF Dispatching
        <3> QED
            BY <1>2, <3>3, <3>5, <3>6, <3>7, <3>8, <3>9 DEF HandlerStep, Handler
    <2>3. AwaitStep(e)'
        BY <1>2, <1>4, <2>2 DEF AwaitStep, codeVars
    <2> QED
        BY <2>1, <2>3 DEF InStep
<1>5. CASE Execute
    <2>1. /\ runner[count + 1] = "none" /\ count + 1 \in Exec /\ runner' = [runner EXCEPT ![count + 1] = "queued"]
          /\ UNCHANGED <<callbacks, responses>> /\ relay' = "pop"
        BY <1>1, <1>5, NextExec DEF Execute, lists
    <2>2. CASE e = count + 1
        <3>1. code'[e] = "none"
            BY <1>1, <1>2, <2>1, <2>2 DEF ExecInv, Untouched, Unused, codeVars
        <3> QED
            BY <3>1 DEF InStep, RunStep, WaitStep, AwaitStep
    <2>3. CASE e # count + 1
        <3>1. runner'[e] = runner[e] /\ ~ Dispatching(e)'
            BY <2>1, <2>3 DEF Dispatching
        <3>2. RunStep(e)' /\ WaitStep(e)'
            BY <1>2, <1>3, <3>1 DEF InStep, RunStep, WaitStep, codeVars
        <3>3. AwaitStep(e)'
            BY <1>2, <1>3, <2>1, <3>1 DEF InStep, AwaitStep, codeVars
        <3> QED
            BY <3>2, <3>3 DEF InStep
    <2> QED
        BY <2>2, <2>3
<1> QED
    BY <1>4, <1>5 DEF HandlerStep, Handler, Refuse, PopCallback, DispatchRefused, DispatchCall, PopResult,
        RelayEnds, RelayFails, RespondFails, CleanUp, CleanUpFails, ContextEnds, runnerVars

\* The steps of a runner and of its process, for that execution.
LEMMA OwnerInStep ==
    ASSUME StepsInv, NEW e \in Exec, RunnerStep(e) \/ Code(e), faults' = 0
    PROVE  InStep(e)'
<1>1. ExecInv /\ OwedInv /\ faults \in Nat
    BY DEF StepsInv, OwedInv, ExecInv, ExecTyped, CountsTyped
<1>2. faults = 0 /\ ~ StartFails(e) /\ ~ AwaitFails(e) /\ ~ RunnerDies(e) /\ (PushRequestFails(e) => deadline[e])
    BY <1>1 DEF RunnerStep, Runner, Code, Start, StartFails, Scan, PushRequest, PushRequestFails, Block, PopResponse,
        AwaitEnds, AwaitFails, OutputEnds, Deadline, RunnerDies, PushResult, Call, Return, ReturnClosed, CodeEnds,
        Fault
<1>3. RunStep(e) /\ WaitStep(e) /\ AwaitStep(e)
    BY <1>2 DEF StepsInv, InStep
<1>4. /\ DOMAIN runner = Exec /\ DOMAIN code = Exec /\ DOMAIN stdin = Exec /\ DOMAIN pipe = Exec
      /\ DOMAIN seq = Exec /\ DOMAIN got = Exec /\ DOMAIN req = Exec
      /\ seq[e] \in Nat /\ req[e] \in Nat /\ pipe[e] \in Seq(Nat) /\ stdin[e] \in Seq(Response)
      /\ code[e] \in {"none", "run", "wait", "ended", "killed"}
    BY <1>1 DEF ExecInv, ExecTyped, RunnerTyped, CodeTyped
<1>5. /\ code[e] \in {"run", "wait"} => ~ deadline[e] /\ runner[e] \in Active
      /\ runner[e] \in {"none", "queued"} => Unused(e)
    BY <1>1 DEF ExecInv, Untouched
<1>6. ASSUME code'[e] \notin {"run", "wait"} PROVE InStep(e)'
    BY <1>6 DEF InStep, RunStep, WaitStep, AwaitStep
<1>7. CASE Start(e)
    <2>1. /\ code'[e] = "run" /\ runner'[e] = "scan" /\ UNCHANGED <<seq, pipe, stdin, got>>
          /\ Unused(e)
        BY <1>4, <1>5, <1>7 DEF Start
    <2>2. Nothing.kind \notin {"result", "error"}
        BY DEF Nothing
    <2> QED
        BY <2>1, <2>2 DEF InStep, RunStep, WaitStep, AwaitStep, Unused
<1>8. CASE Scan(e)
    <2>1. CASE code[e] \notin {"run", "wait"}
        BY <1>6, <1>8, <2>1 DEF Scan
    <2>2. CASE code[e] = "run"
        BY <1>3, <1>8, <2>2 DEF Scan, RunStep
    <2>3. CASE code[e] = "wait"
        <3>1. pipe[e] = <<seq[e]>> /\ stdin[e] = << >> /\ runner[e] = "scan"
            BY <1>3, <1>8, <2>3 DEF Scan, WaitStep
        <3>2. Head(pipe[e]) = seq[e] /\ Tail(pipe[e]) = << >>
            BY <3>1
        <3>3. pipe'[e] = << >> /\ req'[e] = seq[e] /\ UNCHANGED <<code, seq, got>>
            BY <1>4, <1>8, <3>2 DEF Scan, Take
        <3>4. CASE asked[e] + 1 > MaxToolCalls
            <4> DEFINE r == [kind |-> "error", n |-> seq[e]]
            <4>1. stdin' = Put(stdin, e, r) /\ UNCHANGED runner
                BY <1>8, <3>2, <3>4 DEF Scan
            <4>2. r \in Response /\ r.n = seq[e]
                BY <1>4, ResponseTyped
            <4> HIDE DEF r
            <4>3. stdin'[e] = <<r>> /\ <<r>> # << >>
                BY <1>4, <3>1, <4>1 DEF Put
            <4> QED
                BY <2>3, <3>1, <3>3, <4>1, <4>2, <4>3 DEF InStep, RunStep, WaitStep, AwaitStep
        <3>5. CASE ~ (asked[e] + 1 > MaxToolCalls)
            <4>1. UNCHANGED stdin /\ runner'[e] = "push"
                BY <1>4, <1>8, <3>5 DEF Scan
            <4> QED
                BY <2>3, <3>1, <3>3, <4>1 DEF InStep, RunStep, WaitStep, AwaitStep
        <3> QED
            BY <3>4, <3>5
    <2> QED
        BY <2>1, <2>2, <2>3
<1>9. CASE PushRequest(e)
    <2>1. /\ runner[e] = "push" /\ runner'[e] = "sent" /\ UNCHANGED <<responses, req, code, seq, pipe, stdin, got>>
          /\ callbacks' = Put(callbacks, e, req[e]) /\ UNCHANGED <<relay, hand, cur>>
        BY <1>4, <1>9 DEF PushRequest, codeVars, handlerVars
    <2>2. callbacks[e] = << >> /\ ~ Dispatching(e) /\ Own(responses[e], seq[e])
        BY <1>1, <1>2, <2>1, NothingOwed DEF Waited
    <2>3. callbacks'[e] = <<req[e]>>
        BY <1>1, <2>1, <2>2 DEF Put, ExecInv, ExecTyped, ListsTyped
    <2>4. CASE code[e] = "wait"
        <3>1. pipe[e] = << >> /\ stdin[e] = << >> /\ req[e] = seq[e]
            BY <1>3, <2>1, <2>4 DEF WaitStep
        <3>2. RunStep(e)' /\ WaitStep(e)'
            BY <2>1, <2>4, <3>1 DEF RunStep, WaitStep
        <3>3. \A i \in 1 .. Len(callbacks'[e]) : callbacks'[e][i] = seq[e]
            BY <2>3, <3>1
        <3>4. ~ Dispatching(e)'
            BY <2>1, <2>2 DEF Dispatching
        <3>5. AwaitStep(e)'
            BY <2>1, <2>2, <3>3, <3>4 DEF AwaitStep
        <3> QED
            BY <3>2, <3>5 DEF InStep
    <2>5. CASE code[e] # "wait"
        <3>1. code'[e] \notin {"run", "wait"}
            BY <1>3, <1>4, <2>1, <2>5 DEF RunStep
        <3> QED
            BY <1>6, <3>1
    <2> QED
        BY <2>4, <2>5
<1>10. CASE PushRequestFails(e) \/ AwaitEnds(e)
    <2>1. deadline[e] /\ code'[e] = code[e]
        BY <1>2, <1>10 DEF PushRequestFails, AwaitEnds
    <2> QED
        BY <1>5, <1>6, <2>1
<1>11. CASE PopResponse(e)
    <2> DEFINE r == Head(responses[e])
    <2>1. /\ runner[e] = "await" /\ responses[e] # << >> /\ stdin' = Put(stdin, e, r)
          /\ runner'[e] = IF r.kind = "cancel" THEN "drain" ELSE "scan"
          /\ UNCHANGED <<req, code, seq, pipe, got>>
        BY <1>4, <1>11 DEF PopResponse
    <2>2. CASE code[e] # "wait"
        <3>1. code'[e] \notin {"run", "wait"}
            BY <1>3, <1>4, <2>1, <2>2 DEF RunStep
        <3> QED
            BY <1>6, <3>1
    <2>3. CASE code[e] = "wait"
        <3>1. pipe[e] = << >> /\ stdin[e] = << >> /\ Own(responses[e], seq[e])
            BY <1>3, <2>1, <2>3 DEF WaitStep, AwaitStep
        <3>2. responses[e] \in Seq(Response)
            BY <1>1, ListFacts
        <3>3. r \in Response /\ (r.kind = "cancel" \/ r.n = seq[e])
            BY <2>1, <3>1, <3>2, HeadOwn
        <3> HIDE DEF r
        <3>4. stdin'[e] = <<r>> /\ <<r>> # << >>
            BY <1>4, <2>1, <3>1 DEF Put
        <3> QED
            BY <2>1, <2>3, <3>1, <3>3, <3>4 DEF InStep, RunStep, WaitStep, AwaitStep
    <2> QED
        BY <2>2, <2>3
<1>12. CASE OutputEnds(e)
    <2>1. code'[e] \in {"ended", "killed"}
        BY <1>12 DEF OutputEnds, codeVars
    <2> QED
        BY <1>6, <2>1
<1>13. CASE \E status \in Statuses : PushResult(e, status)
    <2>1. code'[e] = "ended"
        BY <1>4, <1>13 DEF PushResult, Gone
    <2> QED
        BY <1>6, <2>1
<1>14. CASE Deadline(e)
    <2>1. code'[e] \notin {"run", "wait"}
        BY <1>4, <1>14 DEF Deadline
    <2> QED
        BY <1>6, <2>1
<1>15. CASE Call(e)
    <2>1. /\ code[e] = "run" /\ code'[e] = "wait" /\ seq'[e] = seq[e] + 1 /\ pipe' = Put(pipe, e, seq[e] + 1)
          /\ UNCHANGED <<runner, stdin, req>>
        BY <1>4, <1>15 DEF Call, runnerVars
    <2>2. stdin[e] = << >> /\ runner[e] \in {"scan", "drain"} /\ (runner[e] = "scan" => pipe[e] = << >>)
        BY <1>3, <2>1 DEF RunStep
    <2>3. runner[e] = "scan" => pipe'[e] = <<seq[e] + 1>>
        BY <1>4, <2>1, <2>2 DEF Put
    <2>4. stdin'[e] = << >> /\ runner'[e] \in {"scan", "drain"}
        BY <2>1, <2>2
    <2>5. runner'[e] = "scan" => pipe'[e] = <<seq'[e]>>
        BY <2>1, <2>3
    <2>6. WaitStep(e)'
        <3>1. runner'[e] \notin {"push", "sent", "await"}
            BY <2>4
        <3>2. runner'[e] = "scan" => pipe'[e] = <<seq'[e]>> /\ stdin'[e] = << >>
            BY <2>4, <2>5
        <3> QED
            BY <2>4, <3>1, <3>2 DEF WaitStep
    <2>7. RunStep(e)' /\ AwaitStep(e)'
        BY <2>1, <2>4 DEF RunStep, AwaitStep
    <2> QED
        BY <2>6, <2>7 DEF InStep
<1>16. CASE Return(e)
    <2>1. /\ code[e] = "wait" /\ code'[e] = "run" /\ stdin[e] # << >>
          /\ got'[e] = Head(stdin[e]) /\ stdin'[e] = Tail(stdin[e]) /\ UNCHANGED <<runner, seq, pipe>>
        BY <1>4, <1>16 DEF Return, Take, runnerVars
    <2>2. PICK r \in Response : stdin[e] = <<r>> /\ (r.kind = "cancel" \/ r.n = seq[e])
        BY <1>3, <2>1 DEF WaitStep
    <2>3. got'[e] = r /\ stdin'[e] = << >>
        BY <2>1, <2>2
    <2>4. runner[e] \in {"scan", "drain"} /\ (runner[e] = "scan" => pipe[e] = << >>)
        BY <1>3, <1>5, <2>1 DEF WaitStep, Active
    <2> QED
        BY <2>1, <2>2, <2>3, <2>4 DEF InStep, RunStep, WaitStep, AwaitStep
<1>17. CASE ReturnClosed(e)
    <2>1. /\ code'[e] = "run" /\ stdin[e] = << >> /\ runner[e] = "drain"
          /\ got'[e] = [kind |-> "error", n |-> seq[e]] /\ UNCHANGED <<runner, seq, stdin>>
        BY <1>4, <1>17 DEF ReturnClosed, runnerVars
    <2> QED
        BY <2>1 DEF InStep, RunStep, WaitStep, AwaitStep
<1>18. CASE CodeEnds(e)
    <2>1. code'[e] = "ended"
        BY <1>4, <1>18 DEF CodeEnds
    <2> QED
        BY <1>6, <2>1
<1>19. CASE Block(e)
    <2>1. /\ runner[e] = "sent" /\ runner'[e] = "await"
          /\ UNCHANGED <<callbacks, responses, req, code, seq, pipe, stdin, got, cur, relay, hand>>
        BY <1>4, <1>19 DEF Block, lists, codeVars, handlerVars
    <2>2. RunStep(e)' /\ WaitStep(e)'
        BY <1>3, <2>1 DEF RunStep, WaitStep
    <2>3. AwaitStep(e)'
        BY <1>3, <2>1 DEF AwaitStep, Own, Dispatching
    <2> QED
        BY <2>2, <2>3 DEF InStep
<1> QED
    BY <1>2, <1>7, <1>8, <1>9, <1>10, <1>11, <1>12, <1>13, <1>14, <1>15, <1>16, <1>17, <1>18, <1>19
    DEF RunnerStep, Runner, Code

\* A step that leaves all of d but its answer leaves it in step.
LEMMA InStepSame ==
    ASSUME NEW d, InStep(d), Same(d), UNCHANGED <<cur, relay, hand>>
    PROVE  InStep(d)'
BY DEF Same, InStep, RunStep, WaitStep, AwaitStep, Dispatching, Own

LEMMA StepsInvariance == Spec => []StepsInv
<1>1. Init => StepsInv
    <2>1. Init => \A e \in Exec : InStep(e)
        BY DEF Init, InStep, RunStep, WaitStep, AwaitStep
    <2>2. Init => OwedInv
        BY OwedInit
    <2> QED
        BY <2>1, <2>2 DEF StepsInv
<1>2. StepsInv /\ OwedInv' /\ [Next]_vars => StepsInv'
    <2> SUFFICES ASSUME StepsInv, [Next]_vars, faults' = 0, NEW d \in Exec PROVE InStep(d)'
        BY DEF StepsInv
    <2>1. CASE HandlerStep
        BY <2>1, HandlerInStep
    <2>2. ASSUME NEW e \in Exec, RunnerStep(e) \/ Code(e) PROVE InStep(d)'
        <3>1. CASE d = e
            BY <2>2, <3>1, OwnerInStep
        <3>2. CASE d # e
            <4>1. ExecInv /\ faults \in Nat
                BY DEF StepsInv, OwedInv, ExecInv, ExecTyped, CountsTyped
            <4>2. faults = 0
                BY <2>2, <4>1 DEF RunnerStep, Runner, Code, Start, StartFails, Scan, PushRequest, PushRequestFails,
                    Block, PopResponse, AwaitEnds, AwaitFails, OutputEnds, Deadline, RunnerDies, PushResult, Call, Return,
                    ReturnClosed, CodeEnds, Fault
            <4>3. Same(d) /\ UNCHANGED <<cur, relay, hand>>
                BY <2>2, <3>2, <4>1, OthersSame DEF handlerVars
            <4> QED
                BY <4>2, <4>3, InStepSame DEF StepsInv
        <3> QED
            BY <3>1, <3>2
    <2>3. CASE UNCHANGED vars
        <3>1. faults = 0 /\ Same(d) /\ UNCHANGED <<cur, relay, hand>>
            BY <2>3 DEF vars, Same, handlerVars, lists, runnerVars, codeVars
        <3> QED
            BY <3>1, InStepSame DEF StepsInv
    <2> QED
        BY <2>1, <2>2, <2>3, NextSteps
<1> QED
    BY <1>1, <1>2, OwedInvariance, PTL DEF Spec

\* While nothing has failed, a call of the code that returned a result or an error
\* returned that of its own request, for any executions, calls, limits and slots and
\* wherever the deadlines fall (PopResponse, dispatchCodeToolCall, tools.call).
THEOREM AnswersStayInStep == Spec => []AnswersInStep
<1>1. StepsInv => AnswersInStep
    BY DEF StepsInv, AnswersInStep, InStep, RunStep
<1> QED
    BY StepsInvariance, <1>1, PTL

-----------------------------------------------------------------------------
(* Code executions: no list outlives an execution that was collected.      *)

\* While the loop's time is not up and nothing has failed: the executions that are not
\* relayed are over and have left nothing, and the one that is relayed is over when its
\* result is there.
OthersOver == \A e \in Exec : runner[e] # "none" /\ e # cur => runner[e] = "done" /\ Fresh(e)
ResultIsLast == cur # 0 /\ (relay = "cleanup" \/ outcome[cur] # << >>) => runner[cur] = "done"

ClearInv == ExecInv /\ (ctx = "live" /\ faults = 0 => OthersOver /\ ResultIsLast)

LEMMA HandlerClear ==
    ASSUME ClearInv, HandlerStep, ctx' = "live", faults' = 0
    PROVE  OthersOver' /\ ResultIsLast'
<1>1. ExecInv /\ faults \in Nat /\ DOMAIN runner = Exec
    BY DEF ClearInv, ExecInv, ExecTyped, CountsTyped, RunnerTyped
<1>2. /\ faults = 0 /\ ctx = "live" /\ ~ RelayFails /\ ~ ContextEnds /\ ~ CleanUpFails
      /\ (\A status \in Statuses : ~ RelayEnds(status)) /\ \A called \in BOOLEAN : ~ RespondFails(called)
    BY <1>1 DEF HandlerStep, Handler, Refuse, Execute, PopCallback, Respond, DispatchRefused, DispatchCall, PopResult,
        RelayEnds, RelayFails, RespondFails, CleanUp, CleanUpFails, ContextEnds, Fault
<1>3. OthersOver /\ ResultIsLast
    BY <1>2 DEF ClearInv
<1>4. CASE \E bad \in BOOLEAN : Refuse(bad)
    <2>1. UNCHANGED <<lists, runner, cur, relay>>
        BY <1>4 DEF Refuse, runnerVars
    <2> QED
        BY <1>3, <2>1 DEF OthersOver, ResultIsLast, Fresh, lists
<1>5. CASE Execute
    <2>1. /\ count + 1 \in Exec /\ runner[count + 1] = "none" /\ cur = 0 /\ cur' = count + 1 /\ relay' = "pop"
          /\ \A e \in Exec : e # count + 1 => runner'[e] = runner[e]
          /\ UNCHANGED lists
        BY <1>1, <1>5, NextExec DEF Execute
    <2>2. OthersOver'
        BY <1>3, <2>1 DEF OthersOver, Fresh, lists, Exec
    <2>3. outcome'[cur'] = << >>
        BY <1>1, <2>1 DEF ExecInv, Untouched, Fresh, lists
    <2> QED
        BY <2>1, <2>2, <2>3 DEF ResultIsLast
<1>6. ASSUME UNCHANGED <<cur, runner, outcome>>, relay # "cleanup", relay' # "cleanup",
             \A e \in Exec : e # cur => callbacks'[e] = callbacks[e] /\ responses'[e] = responses[e]
      PROVE  OthersOver' /\ ResultIsLast'
    BY <1>3, <1>6 DEF OthersOver, ResultIsLast, Fresh
<1>7. CASE PopCallback
    BY <1>6, <1>7 DEF PopCallback, runnerVars, Take
<1>8. ASSUME NEW kind \in {"result", "error"}, Respond(kind), UNCHANGED <<cur, runner, outcome, callbacks>>
      PROVE  OthersOver' /\ ResultIsLast'
    <2>1. \A e \in Exec : e # cur => responses'[e] = responses[e]
        BY <1>8 DEF Respond, Put
    <2> QED
        BY <1>6, <1>8, <2>1 DEF Respond
<1>9. CASE DispatchRefused \/ \E kind \in {"result", "error"} : DispatchCall(kind)
    BY <1>8, <1>9 DEF DispatchRefused, DispatchCall, runnerVars
<1>10. CASE PopResult
    <2>1. /\ cur \in Exec /\ relay = "pop" /\ outcome[cur] # << >> /\ outcome' = Take(outcome, cur)
          /\ UNCHANGED <<cur, callbacks, responses, runner>>
        BY <1>1, <1>10, CurFacts DEF PopResult, runnerVars
    <2>2. runner[cur] = "done"
        BY <1>3, <2>1 DEF ResultIsLast, Exec
    <2>3. \A e \in Exec : e # cur => outcome'[e] = outcome[e]
        BY <2>1 DEF Take
    <2> QED
        BY <1>3, <2>1, <2>2, <2>3 DEF OthersOver, ResultIsLast, Fresh
<1>11. CASE CleanUp
    <2>1. /\ cur \in Exec /\ relay = "cleanup" /\ cur' = 0 /\ relay' = "idle" /\ UNCHANGED runner
          /\ callbacks' = [callbacks EXCEPT ![cur] = << >>] /\ responses' = [responses EXCEPT ![cur] = << >>]
          /\ outcome' = [outcome EXCEPT ![cur] = << >>]
        BY <1>1, <1>11, CurFacts DEF CleanUp, runnerVars
    <2>2. runner[cur] = "done"
        BY <1>3, <2>1 DEF ResultIsLast, Exec
    <2>3. callbacks'[cur] = << >> /\ responses'[cur] = << >> /\ outcome'[cur] = << >>
        BY <1>1, <2>1 DEF ExecInv, ExecTyped, ListsTyped
    <2>4. \A e \in Exec : e # cur =>
              callbacks'[e] = callbacks[e] /\ responses'[e] = responses[e] /\ outcome'[e] = outcome[e]
        BY <2>1
    <2> QED
        BY <1>3, <2>1, <2>2, <2>3, <2>4 DEF OthersOver, ResultIsLast, Fresh
<1> QED
    BY <1>2, <1>4, <1>5, <1>7, <1>9, <1>10, <1>11 DEF HandlerStep, Handler

LEMMA OwnerClear ==
    ASSUME ClearInv, NEW e \in Exec, RunnerStep(e) \/ Code(e), ctx' = "live", faults' = 0
    PROVE  OthersOver' /\ ResultIsLast'
<1>1. ExecInv /\ faults \in Nat /\ DOMAIN runner = Exec
    BY DEF ClearInv, ExecInv, ExecTyped, CountsTyped, RunnerTyped
<1>2. UNCHANGED handlerVars /\ \A d \in Exec : d # e => Same(d)
    BY <1>1, OthersSame
<1>3. faults = 0 /\ ~ StartFails(e) /\ ~ RunnerDies(e) /\ ~ AwaitFails(e)
    BY <1>1 DEF RunnerStep, Runner, Code, Start, StartFails, Scan, PushRequest, PushRequestFails, Block, PopResponse,
        AwaitEnds, AwaitFails, OutputEnds, Deadline, RunnerDies, PushResult, Call, Return, ReturnClosed, CodeEnds,
        Fault
<1>4. OthersOver /\ ResultIsLast
    BY <1>2, <1>3 DEF ClearInv, handlerVars
<1>5. CASE Code(e)
    <2>1. UNCHANGED <<lists, runner>>
        BY <1>5 DEF Code, Call, Return, ReturnClosed, CodeEnds, runnerVars
    <2> QED
        BY <1>2, <1>4, <2>1 DEF OthersOver, ResultIsLast, Fresh, lists, handlerVars
<1>6. CASE RunnerStep(e)
    <2>1. runner[e] \notin {"none", "done"}
        BY <1>3, <1>6 DEF RunnerStep, Runner, Start, Scan, PushRequest, PushRequestFails, Block, PopResponse,
            AwaitEnds, AwaitFails, OutputEnds, Deadline, PushResult, Alive
    <2>2. e = cur /\ relay # "cleanup" /\ outcome[cur] = << >>
        <3>1. e = cur
            BY <1>4, <2>1 DEF OthersOver
        <3>2. cur # 0
            BY <3>1 DEF Exec
        <3> QED
            BY <1>4, <2>1, <3>1, <3>2 DEF ResultIsLast
    <2>3. outcome'[e] = outcome[e] \/ runner'[e] = "done"
        BY <1>1, <1>3, <1>6 DEF RunnerStep, Runner, Start, Scan, PushRequest, PushRequestFails, Block, PopResponse,
            AwaitEnds, AwaitFails, OutputEnds, Deadline, PushResult, Gone, lists
    <2>4. OthersOver'
        BY <1>2, <1>4, <2>2 DEF OthersOver, Same, Fresh, handlerVars
    <2>5. ResultIsLast'
        BY <1>2, <2>2, <2>3 DEF ResultIsLast, handlerVars
    <2> QED
        BY <2>4, <2>5
<1> QED
    BY <1>5, <1>6

LEMMA ClearInvariance == Spec => []ClearInv
<1>1. Init => ClearInv
    BY ExecInitHolds DEF ClearInv, Init, OthersOver, ResultIsLast
<1>2. ClearInv /\ [Next]_vars => ClearInv'
    <2> SUFFICES ASSUME ClearInv, [Next]_vars, ctx' = "live", faults' = 0 PROVE OthersOver' /\ ResultIsLast'
        BY ExecInvKept DEF ClearInv
    <2>1. CASE HandlerStep
        BY <2>1, HandlerClear
    <2>2. ASSUME NEW e \in Exec, RunnerStep(e) \/ Code(e) PROVE OthersOver' /\ ResultIsLast'
        BY <2>2, OwnerClear
    <2>3. CASE UNCHANGED vars
        BY <2>3 DEF vars, handlerVars, lists, runnerVars, ClearInv, OthersOver, ResultIsLast, Fresh
    <2> QED
        BY <2>1, <2>2, <2>3, NextSteps
<1> QED
    BY <1>1, <1>2, PTL DEF Spec

\* While nothing has failed and the superagent's time is not up, the handler leaves an
\* execution only when its runner is through, and none of its three lists stays behind,
\* wherever the runner's deadline fell, for any executions, calls, limits and slots
\* (codeExecRelayLoop and its deferred deletion).
THEOREM ListsCleared == Spec => []NothingLeft
<1>1. ClearInv => NothingLeft
    BY DEF ClearInv, OthersOver, NothingLeft, Fresh
<1> QED
    BY ClearInvariance, <1>1, PTL

=============================================================================
