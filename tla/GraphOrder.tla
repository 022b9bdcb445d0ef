----------------------------- MODULE GraphOrder ------------------------------
(***************************************************************************)
(* From a graph as its author wrote it to the two orders the orchestrators *)
(* run it in (engine/graph): the checks of Validate that concern its       *)
(* shape, with the depth-first search for cycles, then ParallelGroups and, *)
(* for a graph with back-edges, TopologicalSort.  Both orchestrators       *)
(* validate before they order, and each algorithm walks the graph in a way *)
(* of its own.                                                             *)
(***************************************************************************)
EXTENDS Integers, Sequences, FiniteSets

CONSTANTS
    ID,             \* node IDs
    Graphs          \* the graphs to order

\* A node is its ID and whether it is an input node; an edge is guarded when it has a
\* condition and a positive limit.
Graph == [nodes : Seq([id : ID, input : BOOLEAN]),
          edges : Seq([src : ID, dst : ID, back : BOOLEAN, guarded : BOOLEAN])]

ASSUME OrderAssumption == IsFiniteSet(ID) /\ Graphs \subseteq Graph

VARIABLES
    graph,      \* the graph
    pc,         \* where the caller is
    errors,     \* codes of the errors of Validate
    warned,     \* the nodes it warns of
    color,      \* ID -> the search's color
    path,       \* cyclePath: the nodes on the search's stack
    next,       \* for each of them the next edge to look at
    root,       \* the next node to start a search from
    hasCycle,
    groups,     \* what ParallelGroups has found
    remaining,
    inDegree,   \* ID -> forward edges from nodes that are not ordered
    queue,      \* nodes without any
    order,      \* what TopologicalSort has found
    at          \* the next node to look at for the queue, the next edge of its last node

searchVars == <<color, path, next, root, hasCycle>>
groupVars == <<groups, remaining>>
sortVars == <<inDegree, queue, order, at>>
vars == <<graph, pc, errors, warned, searchVars, groupVars, sortVars>>

Nodes == {graph.nodes[i].id : i \in 1 .. Len(graph.nodes)}
Edges == {graph.edges[i] : i \in 1 .. Len(graph.edges)}
Forward == {e \in Edges : ~e.back}
Preds(n) == {e.src : e \in {f \in Forward : f.dst = n}}

Phases == {"check", "search", "reach", "groups", "seed", "sort", "relax", "ordered",
           "rejected", "failed", "panicked"}
Codes == {"EMPTY_GRAPH", "DUPLICATE_NODE_ID", "NO_INPUT_NODE", "INVALID_SOURCE_NODE",
          "INVALID_TARGET_NODE", "SELF_REFERENCE", "BACKEDGE_UNGUARDED", "UNGUARDED_CYCLE"}

TypeOK ==
    /\ graph \in Graph /\ pc \in Phases
    /\ errors \subseteq Codes /\ warned \subseteq ID
    /\ color \in [ID -> {"white", "gray", "black"}]
    /\ path \in Seq(ID) /\ next \in Seq(Nat) /\ root \in Nat /\ hasCycle \in BOOLEAN
    /\ groups \in Seq(SUBSET ID) /\ remaining \subseteq ID
    /\ inDegree \in [ID -> Int] /\ queue \in Seq(ID) /\ order \in Seq(ID) /\ at \in Nat

Init ==
    /\ graph \in Graphs /\ pc = "check" /\ errors = {} /\ warned = {}
    /\ color = [n \in ID |-> "white"] /\ path = << >> /\ next = << >> /\ root = 1
    /\ hasCycle = FALSE
    /\ groups = << >> /\ remaining = {}
    /\ inDegree = [n \in ID |-> 0] /\ queue = << >> /\ order = << >> /\ at = 1

-----------------------------------------------------------------------------
(* Validate.                                                               *)

Duplicated ==
    \E i, j \in 1 .. Len(graph.nodes) : i # j /\ graph.nodes[i].id = graph.nodes[j].id

\* Mutant: a missing source is taken for an input of the graph.
EdgeErrorsOfTargets ==
    {"INVALID_TARGET_NODE" : e \in {f \in Edges : f.dst \notin Nodes}}
        \cup (IF \E e \in Forward : e.src = e.dst THEN {"SELF_REFERENCE"} ELSE {})

\* validateEdge: an edge whose source is missing is not looked at any further.
EdgeErrors ==
    {IF e.src \notin Nodes THEN "INVALID_SOURCE_NODE" ELSE "INVALID_TARGET_NODE" :
        e \in {f \in Edges : f.src \notin Nodes \/ f.dst \notin Nodes}}
        \cup (IF \E e \in Forward : e.src = e.dst /\ e.src \in Nodes
              THEN {"SELF_REFERENCE"} ELSE {})

\* validateBackEdges.
BackEdgeErrors ==
    IF \E e \in Edges : e.back /\ ~e.guarded THEN {"BACKEDGE_UNGUARDED"} ELSE {}

\* The checks before the search.  Those of the nodes' configurations are in Validation.
Check ==
    /\ pc = "check"
    /\ errors' = (IF Duplicated THEN {"DUPLICATE_NODE_ID"} ELSE {})
          \cup (IF graph.nodes = << >> THEN {"EMPTY_GRAPH"}
                ELSE EdgeErrors \cup BackEdgeErrors
                     \cup (IF \A i \in 1 .. Len(graph.nodes) : ~graph.nodes[i].input
                           THEN {"NO_INPUT_NODE"} ELSE {}))
    /\ pc' = IF graph.nodes = << >> THEN "rejected" ELSE "search"
    /\ UNCHANGED <<graph, warned, searchVars, groupVars, sortVars>>

-----------------------------------------------------------------------------
(* validateNoCycles: dfs with its recursion as a stack.                    *)

Top == path[Len(path)]
SetTop(i) == [next EXCEPT ![Len(next)] = i]
Current == graph.edges[next[Len(next)]]

\* dfs(n).
Visit(n, frames) ==
    /\ color' = [color EXCEPT ![n] = "gray"]
    /\ path' = Append(path, n) /\ next' = Append(frames, 1)

\* The outer loop: a search from the next white node.  A search that was cut short by a
\* cycle has left its stack behind.
StartSearch ==
    /\ pc = "search" /\ next = << >> /\ root <= Len(graph.nodes)
    /\ root' = root + 1
    /\ LET n == graph.nodes[root].id
       IN  IF color[n] = "white" THEN Visit(n, next) ELSE UNCHANGED <<color, path, next>>
    /\ UNCHANGED <<graph, pc, errors, warned, hasCycle, groupVars, sortVars>>

\* The next edge of adj[nodeID].
PassEdge ==
    /\ pc = "search" /\ next # << >> /\ next[Len(next)] <= Len(graph.edges)
    /\ Current.back \/ Current.src # Top \/ color[Current.dst] = "black"
    /\ next' = SetTop(next[Len(next)] + 1)
    /\ UNCHANGED <<graph, pc, errors, warned, color, path, root, hasCycle, groupVars, sortVars>>

\* A neighbor that is no node of the graph has no color, which reads as white.
Descend ==
    /\ pc = "search" /\ next # << >> /\ next[Len(next)] <= Len(graph.edges)
    /\ ~Current.back /\ Current.src = Top /\ color[Current.dst] = "white"
    /\ Visit(Current.dst, SetTop(next[Len(next)] + 1))
    /\ UNCHANGED <<graph, pc, errors, warned, root, hasCycle, groupVars, sortVars>>

\* Mutant: a node seen before closes a cycle, whatever its color.
FindCycleAnywhere ==
    /\ pc = "search" /\ next # << >> /\ next[Len(next)] <= Len(graph.edges)
    /\ ~Current.back /\ Current.src = Top /\ color[Current.dst] # "white"
    /\ hasCycle' = TRUE /\ next' = << >>
    /\ UNCHANGED <<graph, pc, errors, warned, color, path, root, groupVars, sortVars>>

\* A gray neighbor: every frame returns true, and none of them pops the path.
FindCycle ==
    /\ pc = "search" /\ next # << >> /\ next[Len(next)] <= Len(graph.edges)
    /\ ~Current.back /\ Current.src = Top /\ color[Current.dst] = "gray"
    /\ hasCycle' = TRUE /\ next' = << >>
    /\ UNCHANGED <<graph, pc, errors, warned, color, path, root, groupVars, sortVars>>

\* The end of dfs.
Blacken ==
    /\ pc = "search" /\ next # << >> /\ next[Len(next)] > Len(graph.edges)
    /\ color' = [color EXCEPT ![Top] = "black"]
    /\ path' = SubSeq(path, 1, Len(path) - 1) /\ next' = SubSeq(next, 1, Len(next) - 1)
    /\ UNCHANGED <<graph, pc, errors, warned, root, hasCycle, groupVars, sortVars>>

EndSearch ==
    /\ pc = "search" /\ next = << >> /\ root > Len(graph.nodes)
    /\ errors' = errors \cup (IF hasCycle THEN {"UNGUARDED_CYCLE"} ELSE {})
    /\ pc' = "reach"
    /\ UNCHANGED <<graph, warned, searchVars, groupVars, sortVars>>

\* What edges of a set lead to.
ReachedFrom(S, E) ==
    {n \in ID : \A T \in SUBSET ID :
        S \subseteq T /\ (\A e \in E : e.src \in T => e.dst \in T) => n \in T}

\* validateReachability follows back-edges, too, and only warns.
Reach ==
    /\ pc = "reach"
    /\ warned' = Nodes \ ReachedFrom({graph.nodes[i].id : i \in {j \in 1 .. Len(graph.nodes) :
                                        graph.nodes[j].input}}, Edges)
    /\ IF errors # {} THEN pc' = "rejected" /\ UNCHANGED groupVars
       ELSE pc' = "groups" /\ groups' = << >> /\ remaining' = Nodes
    /\ UNCHANGED <<graph, errors, searchVars, sortVars>>

-----------------------------------------------------------------------------
(* ParallelGroups.                                                         *)

\* Mutant: a group is ready before the one it depends on is complete.
ReadyEarly == {n \in remaining : Preds(n) = {} \/ Preds(n) \ remaining # {}}

Ready == {n \in remaining : Preds(n) \cap remaining = {} /\ Preds(n) \subseteq Nodes}

\* The nodes of the next group.  An edge to a node that is missing writes into a map that
\* was never made, one from such a node keeps its target waiting.
NextGroup ==
    /\ pc = "groups" /\ remaining # {}
    /\ pc' = IF \E e \in Forward : e.dst \notin Nodes THEN "panicked"
             ELSE IF Ready = {} THEN "failed" ELSE pc
    /\ groups' = Append(groups, Ready) /\ remaining' = remaining \ Ready
    /\ UNCHANGED <<graph, errors, warned, searchVars, sortVars>>

\* The forward pass needs no more; the loop pass sorts a graph that has back-edges.
EndGroups ==
    /\ pc = "groups" /\ remaining = {}
    /\ IF \E e \in Edges : e.back
       THEN /\ pc' = "seed" /\ at' = 1
            /\ inDegree' = [n \in ID |-> Cardinality({i \in 1 .. Len(graph.edges) :
                                 ~graph.edges[i].back /\ graph.edges[i].dst = n})]
       ELSE pc' = "ordered" /\ UNCHANGED <<inDegree, at>>
    /\ UNCHANGED <<graph, errors, warned, searchVars, groupVars, queue, order>>

-----------------------------------------------------------------------------
(* TopologicalSort.                                                        *)

\* The nodes without forward edges, in the order of graph.Nodes.
Seed ==
    /\ pc = "seed" /\ at <= Len(graph.nodes)
    /\ at' = at + 1
    /\ queue' = IF inDegree[graph.nodes[at].id] = 0 THEN Append(queue, graph.nodes[at].id) ELSE queue
    /\ UNCHANGED <<graph, pc, errors, warned, searchVars, groupVars, inDegree, order>>

EndSeed ==
    /\ pc = "seed" /\ at > Len(graph.nodes)
    /\ pc' = "sort"
    /\ UNCHANGED <<graph, errors, warned, searchVars, groupVars, sortVars>>

\* The head of the queue is the next of the order.
Dequeue ==
    /\ pc = "sort" /\ queue # << >>
    /\ order' = Append(order, Head(queue)) /\ queue' = Tail(queue) /\ at' = 1
    /\ pc' = "relax"
    /\ UNCHANGED <<graph, errors, warned, searchVars, groupVars, inDegree>>

\* Mutant: the first edge into a node frees it.
RelaxFirst ==
    /\ pc = "relax" /\ at <= Len(graph.edges)
    /\ at' = at + 1
    /\ LET e == graph.edges[at]
       IN  IF ~e.back /\ e.src = order[Len(order)]
           THEN /\ inDegree' = [inDegree EXCEPT ![e.dst] = 0]
                /\ queue' = IF inDegree[e.dst] > 0 THEN Append(queue, e.dst) ELSE queue
           ELSE UNCHANGED <<inDegree, queue>>
    /\ UNCHANGED <<graph, pc, errors, warned, searchVars, groupVars, order>>

\* The next edge of adj[current]; parallel edges count one by one.
Relax ==
    /\ pc = "relax" /\ at <= Len(graph.edges)
    /\ at' = at + 1
    /\ LET e == graph.edges[at]
       IN  IF ~e.back /\ e.src = order[Len(order)]
           THEN /\ inDegree' = [inDegree EXCEPT ![e.dst] = @ - 1]
                /\ queue' = IF inDegree[e.dst] = 1 THEN Append(queue, e.dst) ELSE queue
           ELSE UNCHANGED <<inDegree, queue>>
    /\ UNCHANGED <<graph, pc, errors, warned, searchVars, groupVars, order>>

EndRelax ==
    /\ pc = "relax" /\ at > Len(graph.edges)
    /\ pc' = "sort"
    /\ UNCHANGED <<graph, errors, warned, searchVars, groupVars, sortVars>>

EndSort ==
    /\ pc = "sort" /\ queue = << >>
    /\ pc' = IF Len(order) = Len(graph.nodes) THEN "ordered" ELSE "failed"
    /\ UNCHANGED <<graph, errors, warned, searchVars, groupVars, sortVars>>

-----------------------------------------------------------------------------
Validating == Check \/ StartSearch \/ PassEdge \/ Descend \/ FindCycle \/ Blacken \/ EndSearch \/ Reach
Grouping == NextGroup \/ EndGroups
Sorting == Seed \/ EndSeed \/ Dequeue \/ Relax \/ EndRelax \/ EndSort

Next == Validating \/ Grouping \/ Sorting
Spec == Init /\ [][Next]_vars

-----------------------------------------------------------------------------
\* A node of S that nothing in S leads to: what a set of nodes lacks when it holds a
\* cycle.
HasFirst(S) == \E n \in S : Preds(n) \cap S = {}

\* The search finds a cycle of forward edges between nodes if and only if there is one: if
\* some nodes all have a predecessor among themselves.  It stops at the first cycle, leaves
\* its nodes gray, and goes on from the others (validateNoCycles).
CycleFound ==
    pc = "reach" /\ (\A e \in Forward : e.src \in Nodes) =>
        (hasCycle <=> \E S \in SUBSET {e.dst : e \in Forward} : S # {} /\ ~HasFirst(S))

\* What Validate accepts can be ordered: neither ParallelGroups nor TopologicalSort
\* fails, though each finds cycles in its own way and neither expects a missing node.
AcceptedIsOrdered == pc \notin {"failed", "panicked"}

\* The groups share no node and hold every node, and a forward edge leads to a later
\* group: what the forward pass takes for granted (GraphAssumption of GraphData).
GroupsAreLayers ==
    pc \in {"seed", "sort", "relax", "ordered"} =>
        /\ UNION {groups[i] : i \in 1 .. Len(groups)} = Nodes
        /\ \A i, j \in 1 .. Len(groups) : i # j => groups[i] \cap groups[j] = {}
        /\ \A e \in Forward : \A i, j \in 1 .. Len(groups) :
              e.src \in groups[i] /\ e.dst \in groups[j] => i < j

\* The order holds every node once, and both ends of a forward edge in its direction,
\* also when edges run in parallel: executeLoopPass cuts the bodies of loops out of it.
OrderIsTopological ==
    pc = "ordered" /\ (\E e \in Edges : e.back) =>
        /\ \A n \in Nodes : \E i \in 1 .. Len(order) : order[i] = n
        /\ \A i, j \in 1 .. Len(order) : order[i] = order[j] => i = j
        /\ \A e \in Forward : \A i, j \in 1 .. Len(order) :
              order[i] = e.src /\ order[j] = e.dst => i < j

=============================================================================
