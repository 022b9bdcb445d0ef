----------------------------- MODULE GraphData ------------------------------
(***************************************************************************)
(* A validated graph as the orchestrator of the worker sees it: nodes with *)
(* a type, edges between ports, back-edges, state bindings.  Values are    *)
(* abstracted to what the control flow tells apart: whether an output port *)
(* carries a value, and which dispatch of a node produced it.              *)
(***************************************************************************)
EXTENDS Integers, Sequences, FiniteSets, SequencesExt

CONSTANTS
    Node,           \* node IDs
    Kind,           \* Node -> NodeKinds
    Edge,           \* records [src, port, dst, dport, back]
    OutPort,        \* Node -> the names of its output ports
    Group,          \* what ParallelGroups returns: a sequence of sets of nodes
    TopoOrder,      \* what TopologicalSort returns: a sequence of nodes
    BackEdge,       \* the back-edges in the order of graph.Edges
    MaxIter,        \* back-edge -> its iteration limit
    Field,          \* the graph's state fields
    ArrayField,     \* the fields whose value is an array; any other never holds one
    StateWrite,     \* records [node, no, port, field], no being the place in the node's list
    HasValue        \* conditionals whose "value" port has a default or a state read

DispatchedKinds == {"llm", "tool", "api_tool", "foreach", "subgraph", "superagent"}
LocalKinds == {"transform", "conditional", "output", "human_in_the_loop"}
NodeKinds == {"input", "unknown"} \cup DispatchedKinds \cup LocalKinds

Port == UNION {OutPort[n] : n \in Node}

\* buildEdgeMaps.
OutEdges(n) == {e \in Edge : e.src = n}
InEdges(n) == {e \in Edge : e.dst = n}
ForwardIn(n) == {e \in InEdges(n) : ~e.back}

Preds(n) == {e.src : e \in ForwardIn(n)}

Inputs == {n \in Node : Kind[n] = "input"}


\* What Validate and the ordering of a validated graph guarantee, which is all the
\* orchestrator relies on: the groups partition the nodes, every forward edge
\* leads to a later group, and the order holds every node once, each after all it needs.
GraphAssumption ==
    /\ IsFiniteSet(Node)
    /\ Kind \in [Node -> NodeKinds]
    /\ \A e \in Edge : e.src \in Node /\ e.dst \in Node /\ e.back \in BOOLEAN
    /\ Group \in Seq(SUBSET Node)
    /\ \A n \in Node : \E i \in 1 .. Len(Group) : n \in Group[i]
    /\ \A i, j \in 1 .. Len(Group) : i # j => Group[i] \cap Group[j] = {}
    /\ \A e \in Edge : ~e.back =>
        \A i, j \in 1 .. Len(Group) : e.src \in Group[i] /\ e.dst \in Group[j] => i < j
    /\ OutPort \in [Node -> SUBSET Port]
    /\ TopoOrder \in Seq(Node)
    /\ \A n \in Node : \E i \in 1 .. Len(TopoOrder) : TopoOrder[i] = n
    /\ \A i, j \in 1 .. Len(TopoOrder) : TopoOrder[i] = TopoOrder[j] => i = j
    /\ \A e \in Edge : ~e.back =>
        \A i, j \in 1 .. Len(TopoOrder) : TopoOrder[i] = e.src /\ TopoOrder[j] = e.dst => i < j
    /\ BackEdge \in Seq(Edge)
    /\ MaxIter \in [Edge -> Nat \ {0}]
    /\ ArrayField \subseteq Field
    /\ IsFiniteSet(StateWrite) /\ \A w \in StateWrite : w.node \in Node

ASSUME GraphAssumption

-----------------------------------------------------------------------------
(* Skip propagation (markSkipped).  The recursion visits the targets of    *)
(* the edges it kills; a visited node all of whose forward edges are dead, *)
(* or come from a skipped node, is skipped and kills its own edges.  It    *)
(* ends with the least set that contains the nodes skipped before and that *)
(* no visit of a node outside it changes.                                  *)

\* Mutant: one dead edge is enough to skip a node.
ClosedUnderAnySkip(S, dead0, skip0) ==
    LET dead == dead0 \cup UNION {OutEdges(n) : n \in S \ skip0}
    IN  \A n \in Node \ S : \A e \in InEdges(n) : e \notin dead

\* Once S is skipped, a visit of any other node leaves it alone.
ClosedUnderSkips(S, dead0, skip0) ==
    LET dead == dead0 \cup UNION {OutEdges(n) : n \in S \ skip0}
    IN  \A n \in Node \ S :
            \/ \A e \in InEdges(n) : e \notin dead
            \/ \E e \in ForwardIn(n) : e \notin dead /\ e.src \notin S

SkipsOf(dead0, skip0) ==
    {n \in Node : \A S \in SUBSET Node :
        skip0 \subseteq S /\ ClosedUnderSkips(S, dead0, skip0) => n \in S}

\* propagateSkips: the edges of the ports a conditional left without a value die.
DeadPorts(n, live) == {e \in OutEdges(n) : e.port \notin live}

-----------------------------------------------------------------------------
(* The state of an execution (applyStateWrites).                           *)

\* The ports a run sets: all of them, or that of the branch a conditional takes, if any.
Keys(n) == IF Kind[n] = "conditional" THEN {{}} \cup {{p} : p \in OutPort[n]} ELSE {OutPort[n]}

\* The bindings of node n to field f that find their port among those it has set.
Given(n, f, keys) == {w \in StateWrite : w.node = n /\ w.field = f /\ w.port \in keys}

\* What the fields hold after a run: an array has grown by one element per binding, in
\* an order nothing depends on, any other field has the value of the last one.
Written(held, n, run, keys) ==
    [f \in Field |->
        LET given == Given(n, f, keys)
            last == CHOOSE w \in given : \A v \in given : v.no <= w.no
        IN  IF f \in ArrayField THEN held[f] \o SetToSeq(given \X {run})
            ELSE IF given = {} THEN held[f] ELSE <<<<last, run>>>>]

-----------------------------------------------------------------------------
(* The loop of a back-edge (executeLoopPass).                              *)

IndexOf(n) == CHOOSE i \in 1 .. Len(TopoOrder) : TopoOrder[i] = n

\* The body: every node between the target and the source in topological order.
Body(be) ==
    {n \in Node : IndexOf(be.dst) <= IndexOf(n) /\ IndexOf(n) <= IndexOf(be.src)}

\* findDownstream: what forward edges reach from the body, outside the body.
Downstream(be) ==
    {n \in Node \ Body(be) : \A S \in SUBSET Node :
        Body(be) \subseteq S /\ (\A e \in Edge : ~e.back /\ e.src \in S => e.dst \in S) => n \in S}

\* Both are constants of a graph: TLC computes them once.
BodyOf == [i \in 1 .. Len(BackEdge) |-> Body(BackEdge[i])]
DownstreamOf == [i \in 1 .. Len(BackEdge) |-> Downstream(BackEdge[i])]

=============================================================================
