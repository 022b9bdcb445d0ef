-------------------------- MODULE GraphOrderProofs ---------------------------
(***************************************************************************)
(* Proofs about the orders of a graph, for every graph: that the groups of *)
(* ParallelGroups are what GraphAssumption of GraphData takes for granted, *)
(* which holds of whatever ParallelGroups returns and does not rest on     *)
(* Validate having refused anything; that validateNoCycles finds a cycle   *)
(* when there is one; and that therefore what Validate accepts is ordered  *)
(* by ParallelGroups and by TopologicalSort, the latter in the direction   *)
(* of the edges.                                                           *)
(***************************************************************************)
EXTENDS GraphOrder, Integers, Sequences, SequenceTheorems, FiniteSetTheorems, TLAPS

-----------------------------------------------------------------------------
(* What a list holds.                                                      *)

Elems(s) == {s[i] : i \in 1 .. Len(s)}

\* The length of a sequence is a natural number, zero exactly for the empty one.
LEMMA LenFacts ==
    ASSUME NEW S, NEW s \in Seq(S)
    PROVE  Len(s) \in Nat /\ (s = << >> <=> Len(s) = 0) /\ Elems(s) \subseteq S
BY DEF Elems

\* The empty sequence holds nothing.
LEMMA ElemsEmpty == Elems(<< >>) = {}
BY DEF Elems

\* Append adds one element at the end.
LEMMA ElemsAppend ==
    ASSUME NEW S, NEW s \in Seq(S), NEW e \in S
    PROVE  /\ Append(s, e) \in Seq(S)
           /\ Len(Append(s, e)) = Len(s) + 1
           /\ Elems(Append(s, e)) = Elems(s) \cup {e}
<1> DEFINE t == Append(s, e)
<1>1. /\ t \in Seq(S) /\ Len(t) = Len(s) + 1 /\ Len(s) \in Nat
      /\ \A i \in 1 .. Len(s) : t[i] = s[i]
      /\ t[Len(s) + 1] = e
    BY AppendProperties, LenFacts
<1> HIDE DEF t
<1>2. 1 .. Len(t) = (1 .. Len(s)) \cup {Len(s) + 1}
    BY <1>1
<1>3. Elems(t) = Elems(s) \cup {e}
    BY <1>1, <1>2 DEF Elems
<1> QED
    BY <1>1, <1>3 DEF t

\* Tail takes the first element away; it may be there again further back.
LEMMA ElemsTail ==
    ASSUME NEW S, NEW s \in Seq(S), s # << >>
    PROVE  /\ Head(s) \in S /\ Tail(s) \in Seq(S)
           /\ Len(Tail(s)) = Len(s) - 1 /\ Len(s) \in Nat \ {0}
           /\ Elems(s) = {Head(s)} \cup Elems(Tail(s))
<1> DEFINE t == Tail(s)
<1>1. /\ Head(s) \in S /\ t \in Seq(S) /\ Len(t) = Len(s) - 1 /\ Len(s) \in Nat \ {0}
      /\ \A i \in 1 .. Len(t) : t[i] = s[i + 1]
      /\ Head(s) = s[1]
    BY HeadTailProperties, LenFacts
<1> HIDE DEF t
<1>2. /\ \A i \in 1 .. Len(s) : i = 1 \/ (i - 1 \in 1 .. Len(t) /\ s[i] = t[i - 1])
      /\ 1 \in 1 .. Len(s) /\ \A i \in 1 .. Len(t) : i + 1 \in 1 .. Len(s)
    BY <1>1
<1>3. Elems(s) = {Head(s)} \cup Elems(t)
    BY <1>1, <1>2 DEF Elems
<1> QED
    BY <1>1, <1>3 DEF t

\* What is left of a sequence without its last element.
LEMMA ButLast ==
    ASSUME NEW S, NEW s \in Seq(S), s # << >>
    PROVE  /\ SubSeq(s, 1, Len(s) - 1) \in Seq(S)
           /\ Len(SubSeq(s, 1, Len(s) - 1)) = Len(s) - 1
           /\ \A i \in 1 .. Len(s) - 1 : SubSeq(s, 1, Len(s) - 1)[i] = s[i]
<1> DEFINE n == Len(s) - 1
<1> DEFINE t == SubSeq(s, 1, n)
<1>1. Len(s) \in Nat \ {0} /\ n \in Int /\ n >= 0 /\ 1 \in Int /\ n - 1 + 1 = n
    BY LenFacts
<1>2. \A i \in 1 .. n : s[i] \in S
    <2>1. \A i \in 1 .. n : i \in 1 .. Len(s)
        BY <1>1
    <2> QED
        BY <2>1, ElementOfSeq
<1> HIDE DEF n
<1>3. /\ t \in Seq(S) /\ Len(t) = (IF 1 <= n THEN n - 1 + 1 ELSE 0)
      /\ \A i \in 1 .. n - 1 + 1 : t[i] = s[1 + i - 1]
    BY <1>1, <1>2, SubSeqProperties
<1> HIDE DEF t
<1>4. Len(t) = n
    BY <1>1, <1>3
<1>5. \A i \in 1 .. n : t[i] = s[i]
    <2> SUFFICES ASSUME NEW i \in 1 .. n PROVE t[i] = s[i]
        OBVIOUS
    <2>1. 1 + i - 1 = i /\ i \in 1 .. n - 1 + 1
        BY <1>1
    <2> QED
        BY <1>3, <2>1
<1> QED
    BY <1>3, <1>4, <1>5 DEF t, n

-----------------------------------------------------------------------------

Grouped == UNION {groups[i] : i \in 1 .. Len(groups)}

Later == {"seed", "sort", "relax", "ordered"}

\* What ParallelGroups keeps: the groups hold the nodes that do not remain, no node that
\* does not remain depends on one that does, and what is grouped is layered.
Layered ==
    pc \in {"groups"} \cup Later =>
        /\ remaining \subseteq Nodes
        /\ Grouped = Nodes \ remaining
        /\ \A e \in Forward : e.dst \in Grouped => e.src \notin remaining
        /\ \A i, j \in 1 .. Len(groups) : i # j => groups[i] \cap groups[j] = {}
        /\ \A e \in Forward : \A i, j \in 1 .. Len(groups) :
              e.src \in groups[i] /\ e.dst \in groups[j] => i < j
        /\ pc \in Later => remaining = {}

\* The inductive invariant.
GInv == graph \in Graph /\ groups \in Seq(SUBSET ID) /\ pc \in Phases /\ Layered

LEMMA GraphParts ==
    ASSUME graph \in Graph
    PROVE  /\ graph.nodes \in Seq([id : ID, input : BOOLEAN])
           /\ graph.edges \in Seq([src : ID, dst : ID, back : BOOLEAN, guarded : BOOLEAN])
           /\ Nodes \subseteq ID /\ Edges \subseteq [src : ID, dst : ID, back : BOOLEAN, guarded : BOOLEAN]
<1>1. /\ graph.nodes \in Seq([id : ID, input : BOOLEAN])
      /\ graph.edges \in Seq([src : ID, dst : ID, back : BOOLEAN, guarded : BOOLEAN])
    BY DEF Graph
<1>2. Nodes \subseteq ID
    <2>1. \A i \in 1 .. Len(graph.nodes) : graph.nodes[i] \in [id : ID, input : BOOLEAN]
        BY <1>1, ElementOfSeq
    <2> QED
        BY <2>1 DEF Nodes
<1>3. Edges \subseteq [src : ID, dst : ID, back : BOOLEAN, guarded : BOOLEAN]
    <2>1. \A i \in 1 .. Len(graph.edges) :
              graph.edges[i] \in [src : ID, dst : ID, back : BOOLEAN, guarded : BOOLEAN]
        BY <1>1, ElementOfSeq
    <2> QED
        BY <2>1 DEF Edges
<1> QED
    BY <1>1, <1>2, <1>3

\* One more group keeps the layers: every node of it depends on grouped nodes only, and no
\* grouped node depends on it.
LEMMA GroupKeeps == GInv /\ NextGroup => GInv'
<1> SUFFICES ASSUME GInv, NextGroup PROVE GInv'
    OBVIOUS
<1>1. /\ groups \in Seq(SUBSET ID) /\ graph \in Graph /\ graph' = graph
      /\ pc = "groups" /\ pc' \in {"groups", "failed", "panicked"}
    BY DEF GInv, NextGroup
<1>2. /\ remaining \subseteq Nodes /\ Grouped = Nodes \ remaining
      /\ \A e \in Forward : e.dst \in Grouped => e.src \notin remaining
      /\ \A i, j \in 1 .. Len(groups) : i # j => groups[i] \cap groups[j] = {}
      /\ \A e \in Forward : \A i, j \in 1 .. Len(groups) :
            e.src \in groups[i] /\ e.dst \in groups[j] => i < j
    BY <1>1 DEF GInv, Layered
<1>3. Nodes' = Nodes /\ Edges' = Edges /\ Forward' = Forward
    BY <1>1 DEF Nodes, Edges, Forward
<1>4. /\ Ready \subseteq remaining /\ Ready \in SUBSET ID
      /\ \A e \in Forward : e.dst \in Ready => e.src \notin remaining
    <2>1. \A e \in Forward : e.src \in Preds(e.dst)
        BY DEF Preds
    <2> QED
        BY <1>1, <1>2, <2>1, GraphParts DEF Ready
<1>5. groups' = Append(groups, Ready) /\ remaining' = remaining \ Ready
    BY DEF NextGroup
<1>6. /\ groups' \in Seq(SUBSET ID) /\ Len(groups) \in Nat /\ Len(groups') = Len(groups) + 1
      /\ \A i \in 1 .. Len(groups) : groups'[i] = groups[i]
      /\ groups'[Len(groups) + 1] = Ready
    BY <1>1, <1>4, <1>5, LenFacts, AppendProperties
<1>7. \A i \in 1 .. Len(groups') : i \in 1 .. Len(groups) \/ i = Len(groups) + 1
    BY <1>6
<1>8. \A i \in 1 .. Len(groups) : groups[i] \subseteq Grouped
    BY DEF Grouped
<1>9. Grouped' = Grouped \cup Ready
    <2>1. \A i \in 1 .. Len(groups) : i \in 1 .. Len(groups')
        BY <1>6
    <2>2. Len(groups) + 1 \in 1 .. Len(groups')
        BY <1>6
    <2> QED
        BY <1>6, <1>7, <2>1, <2>2 DEF Grouped
<1>10. Grouped' = Nodes \ remaining'
    BY <1>2, <1>4, <1>5, <1>9
<1>11. \A e \in Forward : e.dst \in Grouped' => e.src \notin remaining'
    BY <1>2, <1>4, <1>5, <1>9
<1>12. \A i, j \in 1 .. Len(groups') : i # j => groups'[i] \cap groups'[j] = {}
    <2> SUFFICES ASSUME NEW i \in 1 .. Len(groups'), NEW j \in 1 .. Len(groups'), i # j
                 PROVE  groups'[i] \cap groups'[j] = {}
        OBVIOUS
    <2>1. Grouped \cap Ready = {}
        BY <1>2, <1>4
    <2>2. CASE i \in 1 .. Len(groups) /\ j \in 1 .. Len(groups)
        BY <1>2, <1>6, <2>2
    <2>3. CASE i = Len(groups) + 1 /\ j \in 1 .. Len(groups)
        BY <1>6, <1>8, <2>1, <2>3
    <2>4. CASE i \in 1 .. Len(groups) /\ j = Len(groups) + 1
        BY <1>6, <1>8, <2>1, <2>4
    <2> QED
        BY <1>7, <2>2, <2>3, <2>4
<1>13. \A e \in Forward : \A i, j \in 1 .. Len(groups') :
          e.src \in groups'[i] /\ e.dst \in groups'[j] => i < j
    <2> SUFFICES ASSUME NEW e \in Forward, NEW i \in 1 .. Len(groups'), NEW j \in 1 .. Len(groups'),
                        e.src \in groups'[i], e.dst \in groups'[j]
                 PROVE  i < j
        OBVIOUS
    <2>1. CASE i \in 1 .. Len(groups) /\ j \in 1 .. Len(groups)
        BY <1>2, <1>6, <2>1
    <2>2. CASE i = Len(groups) + 1
        \* The source has just been grouped, so nothing grouped depends on it.
        BY <1>2, <1>4, <1>6, <1>7, <1>8, <2>2
    <2>3. CASE i \in 1 .. Len(groups) /\ j = Len(groups) + 1
        BY <1>6, <2>3
    <2> QED
        BY <1>7, <2>1, <2>2, <2>3
<1>14. remaining' \subseteq Nodes
    BY <1>2, <1>5
<1>15. Layered'
    BY <1>1, <1>3, <1>10, <1>11, <1>12, <1>13, <1>14 DEF Layered, Later
<1> QED
    BY <1>1, <1>6, <1>15 DEF GInv, Phases

\* Validation ends with no group yet and every node remaining.
LEMMA ReachKeeps == GInv /\ Reach => GInv'
<1> SUFFICES ASSUME GInv, Reach PROVE GInv'
    OBVIOUS
<1>1. graph \in Graph /\ graph' = graph /\ pc = "reach" /\ groups \in Seq(SUBSET ID)
    BY DEF GInv, Reach
<1>2. CASE errors # {}
    <2>1. pc' = "rejected" /\ groups' = groups
        BY <1>2 DEF Reach, groupVars
    <2> QED
        BY <1>1, <2>1 DEF GInv, Phases, Layered, Later
<1>3. CASE errors = {}
    <2>1. pc' = "groups" /\ groups' = << >> /\ remaining' = Nodes
        BY <1>3 DEF Reach
    <2>2. Nodes' = Nodes
        BY <1>1 DEF Nodes
    <2>3. Len(groups') = 0 /\ Grouped' = {}
        BY <2>1 DEF Grouped
    <2>4. Layered'
        BY <2>1, <2>2, <2>3 DEF Layered, Later
    <2> QED
        BY <1>1, <2>1, <2>4 DEF GInv, Phases
<1> QED
    BY <1>2, <1>3

\* The other steps leave the graph and the groups alone.
LEMMA OthersKeep ==
    ASSUME GInv, UNCHANGED <<graph, groupVars>>,
           pc' \in Phases,
           pc' \in {"groups"} \cup Later =>
               pc \in {"groups"} \cup Later /\ (pc' \in Later => pc \in Later \/ remaining = {})
    PROVE  GInv'
<1>1. Nodes' = Nodes /\ Edges' = Edges /\ Forward' = Forward /\ Grouped' = Grouped
    BY DEF Nodes, Edges, Forward, Grouped, groupVars
<1>2. Layered'
    BY <1>1 DEF GInv, Layered, Later, groupVars
<1> QED
    BY <1>2 DEF GInv, groupVars

LEMMA GroupsInvariant == Spec => []GInv
<1>1. Init => GInv
    <2> SUFFICES ASSUME Init PROVE GInv
        OBVIOUS
    <2>1. graph \in Graph /\ groups \in Seq(SUBSET ID) /\ pc = "check"
        BY OrderAssumption DEF Init
    <2> QED
        BY <2>1 DEF GInv, Layered, Later, Phases
<1>2. GInv /\ [Next]_vars => GInv'
    <2> SUFFICES ASSUME GInv, [Next]_vars PROVE GInv'
        OBVIOUS
    <2>1. CASE NextGroup
        BY <2>1, GroupKeeps
    <2>2. CASE Reach
        BY <2>2, ReachKeeps
    <2>3. CASE Check
        BY <2>3, OthersKeep DEF Check, Phases, Later, groupVars
    <2>4. CASE StartSearch \/ PassEdge \/ Descend \/ FindCycle \/ Blacken
        BY <2>4, OthersKeep DEF StartSearch, PassEdge, Descend, FindCycle, Blacken, Phases, Later, groupVars
    <2>5. CASE EndSearch
        BY <2>5, OthersKeep DEF EndSearch, Phases, Later, groupVars
    <2>6. CASE EndGroups
        BY <2>6, OthersKeep DEF EndGroups, Phases, Later, groupVars
    <2>7. CASE Seed \/ EndSeed \/ Dequeue \/ Relax \/ EndRelax \/ EndSort
        BY <2>7, OthersKeep DEF Seed, EndSeed, Dequeue, Relax, EndRelax, EndSort, Phases, Later, groupVars
    <2>8. CASE UNCHANGED vars
        BY <2>8, OthersKeep DEF vars, GInv, Later, groupVars
    <2> QED
        BY <2>1, <2>2, <2>3, <2>4, <2>5, <2>6, <2>7, <2>8 DEF Next, Validating, Grouping, Sorting
<1> QED
    BY <1>1, <1>2, PTL DEF Spec

\* For every graph: the groups ParallelGroups returns partition its nodes, and a forward
\* edge leads to a later group.  The orchestrators' modules assume it of Group.
THEOREM GroupsCorrect == Spec => []GroupsAreLayers
<1>1. GInv => GroupsAreLayers
    BY DEF GInv, Layered, GroupsAreLayers, Grouped, Later
<1> QED
    BY <1>1, GroupsInvariant, PTL

-----------------------------------------------------------------------------
(* The search for cycles.                                                  *)

Black == {n \in ID : color[n] = "black"}
EdgeIndex == 1 .. Len(graph.edges)

\* The search's stack while no cycle was found: the gray nodes, each once and with a
\* forward edge to the next; no edge of theirs looked at leads anywhere but to a black
\* node or up the stack; the nodes a search was started from are visited.
GrayIsStack == \A n \in ID : color[n] = "gray" <=> \E i \in 1 .. Len(path) : path[i] = n
Distinct == \A i, j \in 1 .. Len(path) : path[i] = path[j] => i = j
Linked == \A i \in 1 .. Len(path) : i < Len(path) =>
              \E e \in Forward : e.src = path[i] /\ e.dst = path[i + 1]
Looked == \A i \in 1 .. Len(path) : \A k \in EdgeIndex :
              k < next[i] /\ ~graph.edges[k].back /\ graph.edges[k].src = path[i] =>
                  \/ color[graph.edges[k].dst] = "black"
                  \/ i < Len(path) /\ graph.edges[k].dst = path[i + 1]
Started == \A k \in 1 .. Len(graph.nodes) : k < root => color[graph.nodes[k].id] # "white"

Stack == Len(next) = Len(path) /\ GrayIsStack /\ Distinct /\ Linked /\ Looked /\ Started

\* Black nodes lead to black nodes only, and there is no cycle among them.
Finished ==
    /\ \A e \in Forward : color[e.src] = "black" => color[e.dst] = "black"
    /\ \A S \in SUBSET Black : S # {} => HasFirst(S)

Cyclic == \E S \in SUBSET {e.dst : e \in Forward} : S # {} /\ ~HasFirst(S)

SearchTypes ==
    /\ color \in [ID -> {"white", "gray", "black"}]
    /\ path \in Seq(ID) /\ next \in Seq(Nat \ {0}) /\ Len(next) <= Len(path)
    /\ root \in Nat \ {0} /\ hasCycle \in BOOLEAN /\ pc \in Phases /\ graph \in Graph

SInv ==
    /\ SearchTypes
    /\ pc \in {"check", "search"} /\ ~hasCycle => Stack
    /\ pc = "check" => root = 1 /\ path = << >> /\ ~hasCycle /\ errors = {}
    /\ ~hasCycle => Finished
    /\ hasCycle => Cyclic
    /\ pc \notin {"check", "search", "rejected"} /\ ~hasCycle => \A n \in Nodes : color[n] = "black"

-----------------------------------------------------------------------------
\* The graph is a constant of a behavior, and everything that depends on it alone.
LEMMA GraphStays ==
    ASSUME graph' = graph
    PROVE  /\ Nodes' = Nodes /\ Edges' = Edges /\ Forward' = Forward /\ EdgeIndex' = EdgeIndex
           /\ Cyclic' = Cyclic /\ Duplicated' = Duplicated
           /\ \A S : HasFirst(S)' = HasFirst(S)
<1>1. Nodes' = Nodes /\ Edges' = Edges /\ Forward' = Forward /\ EdgeIndex' = EdgeIndex
      /\ Duplicated' = Duplicated
    BY DEF Nodes, Edges, Forward, EdgeIndex, Duplicated
<1>2. \A n : Preds(n)' = Preds(n)
    BY <1>1 DEF Preds
<1>3. \A S : HasFirst(S)' = HasFirst(S)
    BY <1>2 DEF HasFirst
<1>4. Cyclic' = Cyclic
    BY <1>1, <1>3 DEF Cyclic
<1> QED
    BY <1>1, <1>3, <1>4

\* The edge of an index.
LEMMA EdgeFacts ==
    ASSUME graph \in Graph, NEW k \in EdgeIndex
    PROVE  /\ graph.edges[k] \in Edges
           /\ graph.edges[k].src \in ID /\ graph.edges[k].dst \in ID
           /\ graph.edges[k].back \in BOOLEAN
           /\ ~graph.edges[k].back => graph.edges[k] \in Forward
<1>1. graph.edges[k] \in [src : ID, dst : ID, back : BOOLEAN, guarded : BOOLEAN]
    BY GraphParts, ElementOfSeq DEF EdgeIndex
<1>2. graph.edges[k] \in Edges
    BY DEF Edges, EdgeIndex
<1> QED
    BY <1>1, <1>2 DEF Forward

\* Every forward edge has an index.
LEMMA ForwardIndex ==
    ASSUME NEW e \in Forward
    PROVE  \E k \in EdgeIndex : graph.edges[k] = e /\ ~graph.edges[k].back
BY DEF Forward, Edges, EdgeIndex

\* A step that keeps the search's data keeps its invariant.
LEMMA SearchUnchanged ==
    ASSUME SInv, UNCHANGED <<graph, searchVars>>, pc' \in Phases, pc # "check",
           pc' # "check",
           pc' = "search" => pc = "search",
           pc' \notin {"search", "rejected"} => pc \notin {"search", "rejected"}
    PROVE  SInv'
<1>1. graph' = graph /\ color' = color /\ path' = path /\ next' = next /\ root' = root
      /\ hasCycle' = hasCycle
    BY DEF searchVars
<1>2. Nodes' = Nodes /\ Forward' = Forward /\ EdgeIndex' = EdgeIndex /\ Cyclic' = Cyclic
      /\ (\A S : HasFirst(S)' = HasFirst(S)) /\ Black' = Black
    BY <1>1, GraphStays DEF Black
<1>3. Stack' = Stack /\ Finished' = Finished
    BY <1>1, <1>2 DEF Stack, GrayIsStack, Distinct, Linked, Looked, Started, Finished
<1>4. SearchTypes'
    BY <1>1 DEF SInv, SearchTypes
<1> QED
    BY <1>1, <1>2, <1>3, <1>4 DEF SInv

LEMMA InitSearch == Init => SInv
<1> SUFFICES ASSUME Init PROVE SInv
    OBVIOUS
<1>1. graph \in Graph /\ pc = "check" /\ errors = {} /\ root = 1 /\ hasCycle = FALSE
      /\ color = [n \in ID |-> "white"] /\ path = << >> /\ next = << >>
    BY OrderAssumption DEF Init
<1>2. Len(path) = 0 /\ Len(next) = 0
    BY <1>1
<1>3. SearchTypes
    <2>1. hasCycle \in BOOLEAN
        BY <1>1
    <2> QED
        BY <1>1, <1>2, <2>1 DEF SearchTypes, Phases
<1>4. Stack
    BY <1>1, <1>2 DEF Stack, GrayIsStack, Distinct, Linked, Looked, Started
<1>5. Finished
    <2>1. Black = {}
        BY <1>1 DEF Black
    <2>2. Forward \subseteq [src : ID, dst : ID, back : BOOLEAN, guarded : BOOLEAN]
        BY <1>1, GraphParts DEF Forward
    <2> QED
        BY <1>1, <2>1, <2>2 DEF Finished
<1> QED
    BY <1>1, <1>3, <1>4, <1>5 DEF SInv

LEMMA CheckKeepsSearch == SInv /\ Check => SInv'
<1> SUFFICES ASSUME SInv, Check PROVE SInv'
    OBVIOUS
<1>1. graph' = graph /\ color' = color /\ path' = path /\ next' = next /\ root' = root
      /\ hasCycle' = hasCycle /\ pc = "check" /\ pc' \in {"rejected", "search"}
    BY DEF Check, searchVars
<1>2. Nodes' = Nodes /\ Forward' = Forward /\ EdgeIndex' = EdgeIndex /\ Cyclic' = Cyclic
      /\ (\A S : HasFirst(S)' = HasFirst(S)) /\ Black' = Black
    BY <1>1, GraphStays DEF Black
<1>3. Stack' = Stack /\ Finished' = Finished
    BY <1>1, <1>2 DEF Stack, GrayIsStack, Distinct, Linked, Looked, Started, Finished
<1>4. SearchTypes'
    BY <1>1 DEF SInv, SearchTypes, Phases
<1> QED
    BY <1>1, <1>2, <1>3, <1>4 DEF SInv

\* A search starts from a white node, on an empty stack.
LEMMA StartKeepsSearch == SInv /\ StartSearch => SInv'
<1> SUFFICES ASSUME SInv, StartSearch PROVE SInv'
    OBVIOUS
<1>1. /\ graph' = graph /\ hasCycle' = hasCycle /\ pc = "search" /\ pc' = "search"
      /\ next = << >> /\ root' = root + 1 /\ root \in 1 .. Len(graph.nodes)
      /\ graph \in Graph /\ root \in Nat \ {0}
    BY DEF StartSearch, SInv, SearchTypes
<1>2. /\ Nodes' = Nodes /\ Forward' = Forward /\ EdgeIndex' = EdgeIndex /\ Cyclic' = Cyclic
      /\ \A S : HasFirst(S)' = HasFirst(S)
    BY <1>1, GraphStays
<1> DEFINE n == graph.nodes[root].id
<1>3. n \in ID
    <2>1. graph.nodes[root] \in [id : ID, input : BOOLEAN]
        BY <1>1, GraphParts, ElementOfSeq
    <2> QED
        BY <2>1
<1>4. CASE color[n] # "white"
    <2>1. color' = color /\ path' = path /\ next' = next
        BY <1>4 DEF StartSearch
    <2>2. Black' = Black /\ Finished' = Finished
        BY <1>2, <2>1 DEF Black, Finished
    <2>3. SearchTypes'
        BY <1>1, <2>1 DEF SInv, SearchTypes
    <2>4. ASSUME ~hasCycle PROVE Stack'
        <3>1. Stack
            BY <1>1, <2>4 DEF SInv
        <3>2. Started'
            BY <1>1, <1>4, <2>1, <3>1 DEF Stack, Started
        <3> QED
            BY <1>1, <1>2, <2>1, <3>1, <3>2 DEF Stack, GrayIsStack, Distinct, Linked, Looked
    <2> QED
        BY <1>1, <1>2, <2>2, <2>3, <2>4 DEF SInv
<1>5. CASE color[n] = "white"
    <2>1. /\ color' = [color EXCEPT ![n] = "gray"] /\ path' = Append(path, n)
          /\ next' = Append(next, 1)
        BY <1>5 DEF StartSearch, Visit
    <2>2. SearchTypes'
        <3>1. /\ path' \in Seq(ID) /\ next' \in Seq(Nat \ {0})
              /\ Len(path') = Len(path) + 1 /\ Len(next') = Len(next) + 1
            BY <1>3, <2>1, AppendProperties DEF SInv, SearchTypes
        <3> QED
            BY <1>1, <1>3, <2>1, <3>1, LenFacts DEF SInv, SearchTypes
    <2>3. \A m \in ID : color'[m] = IF m = n THEN "gray" ELSE color[m]
        BY <1>3, <2>1 DEF SInv, SearchTypes
    <2>4. Black' = Black
        BY <1>5, <2>3 DEF Black
    <2>5. ASSUME ~hasCycle PROVE Stack'
        <3>1. Stack /\ Len(next) = 0
            BY <1>1, <2>5 DEF SInv
        <3>2. Len(path) = 0 /\ path = << >>
            <4>1. Len(path) = 0
                BY <3>1 DEF Stack
            <4>2. path \in Seq(ID)
                BY DEF SInv, SearchTypes
            <4> QED
                BY <4>1, <4>2, LenFacts
        <3>3. path' = <<n>> /\ next' = <<1>>
            BY <1>1, <2>1, <3>2
        <3>4. Len(path') = 1 /\ Len(next') = 1 /\ path'[1] = n /\ next'[1] = 1
            BY <3>3
        <3>5. GrayIsStack'
            BY <1>3, <2>3, <3>1, <3>2, <3>4 DEF Stack, GrayIsStack
        <3>6. Distinct' /\ Linked'
            BY <3>4 DEF Distinct, Linked
        <3>7. Looked'
            BY <1>2, <3>4 DEF Looked, EdgeIndex
        <3>8. Started'
            <4>1. \A k \in 1 .. Len(graph.nodes) : graph.nodes[k].id \in ID
                <5>1. \A k \in 1 .. Len(graph.nodes) : graph.nodes[k] \in [id : ID, input : BOOLEAN]
                    BY <1>1, GraphParts, ElementOfSeq
                <5> QED
                    BY <5>1
            <4> QED
                BY <1>1, <2>3, <3>1, <4>1 DEF Stack, Started
        <3> QED
            BY <3>4, <3>5, <3>6, <3>7, <3>8 DEF Stack
    <2>6. ASSUME ~hasCycle PROVE Finished'
        <3>1. \A e \in Forward : e.src \in ID /\ e.dst \in ID
            BY <1>1, GraphParts DEF Forward
        <3> QED
            BY <1>1, <1>2, <1>5, <2>3, <2>4, <2>6, <3>1 DEF SInv, Finished
    <2> QED
        BY <1>1, <1>2, <2>2, <2>5, <2>6 DEF SInv
<1> QED
    BY <1>4, <1>5

\* An edge that leads to a black node, or that is none of the top's, is passed.
LEMMA PassKeepsSearch == SInv /\ PassEdge => SInv'
<1> SUFFICES ASSUME SInv, PassEdge PROVE SInv'
    OBVIOUS
<1> DEFINE t == Len(next)
<1> DEFINE e == graph.edges[next[t]]
<1>1. /\ graph' = graph /\ hasCycle' = hasCycle /\ pc = "search" /\ pc' = "search"
      /\ color' = color /\ path' = path /\ root' = root
      /\ next # << >> /\ next' = [next EXCEPT ![t] = next[t] + 1]
      /\ next[t] <= Len(graph.edges)
      /\ e.back \/ e.src # path[Len(path)] \/ color[e.dst] = "black"
    BY DEF PassEdge, SetTop, Current, Top
<1>2. /\ Nodes' = Nodes /\ Forward' = Forward /\ EdgeIndex' = EdgeIndex /\ Cyclic' = Cyclic
      /\ (\A S : HasFirst(S)' = HasFirst(S)) /\ Black' = Black
    BY <1>1, GraphStays DEF Black
<1>3. next \in Seq(Nat \ {0}) /\ t \in 1 .. Len(next) /\ t \in Nat \ {0} /\ next[t] \in Nat \ {0}
    BY <1>1, LenFacts, ElementOfSeq DEF SInv, SearchTypes
<1>4. /\ next' \in Seq(Nat \ {0}) /\ Len(next') = Len(next)
      /\ \A i \in 1 .. Len(next) : next'[i] = IF i = t THEN next[t] + 1 ELSE next[i]
    BY <1>1, <1>3, ExceptSeq
<1>5. SearchTypes'
    BY <1>1, <1>4 DEF SInv, SearchTypes
<1>6. ASSUME ~hasCycle PROVE Stack'
    <2>1. Stack
        BY <1>1, <1>6 DEF SInv
    <2>2. Looked'
        <3> SUFFICES ASSUME NEW i \in 1 .. Len(path), NEW k \in EdgeIndex,
                            k < next'[i], ~graph.edges[k].back, graph.edges[k].src = path[i]
                     PROVE  \/ color[graph.edges[k].dst] = "black"
                            \/ i < Len(path) /\ graph.edges[k].dst = path[i + 1]
            BY <1>1, <1>2 DEF Looked
        <3>1. i \in 1 .. Len(next) /\ Len(path) = t /\ next[i] \in Nat \ {0}
            BY <1>3, <2>1, ElementOfSeq DEF Stack
        <3>2. CASE k < next[i]
            BY <2>1, <3>2 DEF Stack, Looked
        <3>3. CASE i = t /\ k = next[t]
            BY <1>1, <3>1, <3>3
        <3> QED
            BY <1>3, <1>4, <3>1, <3>2, <3>3 DEF EdgeIndex
    <2>3. GrayIsStack' /\ Distinct' /\ Linked' /\ Started'
        BY <1>1, <1>2, <2>1 DEF Stack, GrayIsStack, Distinct, Linked, Started
    <2> QED
        BY <1>1, <1>4, <2>1, <2>2, <2>3 DEF Stack
<1>7. Finished' = Finished
    BY <1>1, <1>2 DEF Finished
<1> QED
    BY <1>1, <1>2, <1>5, <1>6, <1>7 DEF SInv

\* What the search looks at: the next edge of the node on top of the stack.
LEMMA TopFacts ==
    ASSUME SInv, next # << >>
    PROVE  /\ Len(next) \in Nat \ {0} /\ next[Len(next)] \in Nat \ {0}
           /\ Len(path) \in Nat \ {0} /\ Top = path[Len(path)] /\ Top \in ID
<1>1. Len(next) \in Nat \ {0} /\ Len(path) \in Nat \ {0}
    BY LenFacts DEF SInv, SearchTypes
<1>2. Len(next) \in 1 .. Len(next) /\ Len(path) \in 1 .. Len(path)
    BY <1>1
<1> QED
    BY <1>1, <1>2, ElementOfSeq DEF SInv, SearchTypes, Top

\* Going down puts a white node on the stack, behind an edge from the top.
LEMMA DescendKeepsSearch == SInv /\ Descend => SInv'
<1> SUFFICES ASSUME SInv, Descend PROVE SInv'
    OBVIOUS
<1> DEFINE t == Len(next)
<1> DEFINE e == graph.edges[next[t]]
<1> DEFINE m == e.dst
<1> DEFINE frames == [next EXCEPT ![t] = next[t] + 1]
<1>1. /\ graph' = graph /\ hasCycle' = hasCycle /\ pc = "search" /\ pc' = "search"
      /\ root' = root /\ next # << >> /\ next[t] <= Len(graph.edges)
      /\ ~e.back /\ e.src = Top /\ color[m] = "white"
      /\ color' = [color EXCEPT ![m] = "gray"] /\ path' = Append(path, m)
      /\ next' = Append(frames, 1)
    BY DEF Descend, Visit, SetTop, Current
<1>2. /\ Nodes' = Nodes /\ Forward' = Forward /\ EdgeIndex' = EdgeIndex /\ Cyclic' = Cyclic
      /\ \A S : HasFirst(S)' = HasFirst(S)
    BY <1>1, GraphStays
<1>3. /\ t \in Nat \ {0} /\ next[t] \in Nat \ {0} /\ Len(path) \in Nat \ {0}
      /\ Top = path[Len(path)] /\ t \in 1 .. Len(next) /\ path \in Seq(ID)
      /\ next \in Seq(Nat \ {0}) /\ graph \in Graph
    BY <1>1, TopFacts DEF SInv, SearchTypes
<1>4. next[t] \in EdgeIndex
    BY <1>1, <1>3, GraphParts, LenFacts DEF EdgeIndex
<1>5. m \in ID /\ e \in Forward
    BY <1>1, <1>3, <1>4, EdgeFacts
<1>6. /\ frames \in Seq(Nat \ {0}) /\ Len(frames) = t
      /\ \A i \in 1 .. t : frames[i] = IF i = t THEN next[t] + 1 ELSE next[i]
    BY <1>3, ExceptSeq
<1> HIDE DEF frames
<1>7. /\ next' \in Seq(Nat \ {0}) /\ Len(next') = t + 1 /\ next'[t + 1] = 1
      /\ \A i \in 1 .. t : next'[i] = IF i = t THEN next[t] + 1 ELSE next[i]
    BY <1>1, <1>6, AppendProperties
<1>8. /\ path' \in Seq(ID) /\ Len(path') = Len(path) + 1 /\ path'[Len(path) + 1] = m
      /\ \A i \in 1 .. Len(path) : path'[i] = path[i]
    BY <1>1, <1>3, <1>5, AppendProperties
<1>9. \A n \in ID : color'[n] = IF n = m THEN "gray" ELSE color[n]
    BY <1>1, <1>5 DEF SInv, SearchTypes
<1>10. SearchTypes'
    <2>1. color' \in [ID -> {"white", "gray", "black"}]
        BY <1>1, <1>5 DEF SInv, SearchTypes
    <2>2. Len(next') <= Len(path')
        BY <1>3, <1>7, <1>8 DEF SInv, SearchTypes
    <2> QED
        BY <1>1, <1>7, <1>8, <2>1, <2>2 DEF SInv, SearchTypes
<1>11. Black' = Black
    BY <1>1, <1>9 DEF Black
<1>12. ASSUME ~hasCycle PROVE Finished'
    <2>1. \A f \in Forward : f.src \in ID /\ f.dst \in ID
        BY <1>3, GraphParts DEF Forward
    <2> QED
        BY <1>1, <1>2, <1>9, <1>11, <1>12, <2>1 DEF SInv, Finished
<1>13. ASSUME ~hasCycle PROVE Stack'
    <2>1. Stack /\ Len(path) = t
        BY <1>1, <1>13 DEF SInv, Stack
    <2>2. \A i \in 1 .. t + 1 : i \in 1 .. t \/ i = t + 1
        BY <1>3
    <2>3. \A i \in 1 .. t : path[i] \in ID /\ color[path[i]] = "gray" /\ path[i] # m
        BY <1>1, <1>3, <2>1, ElementOfSeq DEF Stack, GrayIsStack
    <2>4. GrayIsStack'
        <3> SUFFICES ASSUME NEW n \in ID
                     PROVE  color'[n] = "gray" <=> \E i \in 1 .. Len(path') : path'[i] = n
            BY DEF GrayIsStack
        <3>1. color[n] = "gray" <=> \E i \in 1 .. t : path[i] = n
            BY <2>1 DEF Stack, GrayIsStack
        <3>2. (\E i \in 1 .. Len(path') : path'[i] = n) <=> n = m \/ \E i \in 1 .. t : path[i] = n
            BY <1>3, <1>8, <2>1, <2>2
        <3> QED
            BY <1>9, <3>1, <3>2
    <2>5. Distinct'
        BY <1>3, <1>8, <2>1, <2>2, <2>3 DEF Stack, Distinct
    <2>6. Linked'
        <3> SUFFICES ASSUME NEW i \in 1 .. Len(path'), i < Len(path')
                     PROVE  \E f \in Forward : f.src = path'[i] /\ f.dst = path'[i + 1]
            BY <1>2 DEF Linked
        <3>1. CASE i = t
            BY <1>1, <1>3, <1>5, <1>8, <2>1, <3>1
        <3>2. CASE i < t
            <4>1. i \in 1 .. t /\ i + 1 \in 1 .. t
                BY <1>3, <3>2
            <4> QED
                BY <1>8, <2>1, <3>2, <4>1 DEF Stack, Linked
        <3> QED
            BY <1>3, <1>8, <2>1, <3>1, <3>2
    <2>7. Looked'
        <3>0. graph' = graph /\ EdgeIndex' = EdgeIndex
            BY <1>1, <1>2
        <3> SUFFICES ASSUME NEW i \in 1 .. Len(path'), NEW k \in EdgeIndex,
                            k < next'[i], ~graph.edges[k].back, graph.edges[k].src = path'[i]
                     PROVE  \/ color'[graph.edges[k].dst] = "black"
                            \/ i < Len(path') /\ graph.edges[k].dst = path'[i + 1]
            BY <3>0 DEF Looked
        <3>1. i \in 1 .. t \/ i = t + 1
            BY <1>8, <2>1, <2>2
        <3>2. i # t + 1
            BY <1>7 DEF EdgeIndex
        <3>3. CASE i = t /\ k = next[t]
            BY <1>3, <1>8, <2>1, <3>3
        <3>4. CASE k < next[i]
            <4>1. graph.edges[k].dst \in ID
                BY <1>3, EdgeFacts
            <4>2. \/ color[graph.edges[k].dst] = "black"
                  \/ i < Len(path) /\ graph.edges[k].dst = path[i + 1]
                BY <1>8, <2>1, <3>1, <3>2, <3>4 DEF Stack, Looked
            <4>3. CASE color[graph.edges[k].dst] = "black"
                BY <1>1, <1>9, <4>1, <4>3
            <4>4. CASE i < Len(path) /\ graph.edges[k].dst = path[i + 1]
                <5>1. i + 1 \in 1 .. Len(path)
                    BY <1>3, <2>1, <3>1, <3>2, <4>4
                <5> QED
                    BY <1>3, <1>8, <4>4, <5>1
            <4> QED
                BY <4>2, <4>3, <4>4
        <3>5. i \in 1 .. t /\ next[i] \in Nat /\ next[t] \in Nat
            BY <1>3, <3>1, <3>2, ElementOfSeq
        <3> QED
            BY <1>7, <3>3, <3>4, <3>5 DEF EdgeIndex
    <2>8. Started'
        <3>1. \A k \in 1 .. Len(graph.nodes) : graph.nodes[k].id \in ID
            <4>1. \A k \in 1 .. Len(graph.nodes) : graph.nodes[k] \in [id : ID, input : BOOLEAN]
                BY <1>3, GraphParts, ElementOfSeq
            <4> QED
                BY <4>1
        <3> QED
            BY <1>1, <1>9, <2>1, <3>1 DEF Stack, Started
    <2> QED
        BY <1>7, <1>8, <2>1, <2>4, <2>5, <2>6, <2>7, <2>8 DEF Stack
<1> QED
    BY <1>1, <1>2, <1>10, <1>12, <1>13 DEF SInv

\* A gray neighbor is on the stack, and the stack from there on is a cycle.
LEMMA FindKeepsSearch == SInv /\ FindCycle => SInv'
<1> SUFFICES ASSUME SInv, FindCycle PROVE SInv'
    OBVIOUS
<1> DEFINE t == Len(next)
<1> DEFINE e == graph.edges[next[t]]
<1>1. /\ graph' = graph /\ hasCycle' = TRUE /\ pc = "search" /\ pc' = "search"
      /\ root' = root /\ color' = color /\ path' = path /\ next' = << >>
      /\ next # << >> /\ next[t] <= Len(graph.edges)
      /\ ~e.back /\ e.src = Top /\ color[e.dst] = "gray"
    BY DEF FindCycle, Current
<1>2. Cyclic' = Cyclic
    BY <1>1, GraphStays
<1>3. /\ t \in Nat \ {0} /\ next[t] \in Nat \ {0} /\ Len(path) \in Nat \ {0}
      /\ Top = path[Len(path)] /\ graph \in Graph /\ path \in Seq(ID)
    BY <1>1, TopFacts DEF SInv, SearchTypes
<1>4. next[t] \in EdgeIndex
    BY <1>1, <1>3, GraphParts, LenFacts DEF EdgeIndex
<1>5. e.dst \in ID /\ e \in Forward
    BY <1>1, <1>3, <1>4, EdgeFacts
<1>6. SearchTypes'
    <2>1. Len(next') = 0 /\ next' \in Seq(Nat \ {0})
        BY <1>1
    <2> QED
        BY <1>1, <1>3, <2>1 DEF SInv, SearchTypes
<1>7. Cyclic
    <2>1. CASE hasCycle
        BY <2>1 DEF SInv
    <2>2. CASE ~hasCycle
        <3>1. Stack
            BY <1>1, <2>2 DEF SInv
        <3>2. PICK j \in 1 .. Len(path) : path[j] = e.dst
            BY <1>1, <1>5, <3>1 DEF Stack, GrayIsStack
        <3> DEFINE S == {path[i] : i \in j .. Len(path)}
        <3>3. \A i \in j .. Len(path) : \E f \in Forward : f.dst = path[i] /\ f.src \in S
            <4> SUFFICES ASSUME NEW i \in j .. Len(path)
                         PROVE  \E f \in Forward : f.dst = path[i] /\ f.src \in S
                OBVIOUS
            <4>1. CASE i = j
                BY <1>1, <1>3, <1>5, <3>2, <4>1
            <4>2. CASE i > j
                <5>1. i - 1 \in 1 .. Len(path) /\ i - 1 < Len(path) /\ i - 1 \in j .. Len(path)
                      /\ (i - 1) + 1 = i
                    BY <1>3, <4>2
                <5> QED
                    BY <3>1, <5>1 DEF Stack, Linked
            <4> QED
                BY <4>1, <4>2
        <3>4. S \in SUBSET {f.dst : f \in Forward}
            BY <3>3
        <3>5. S # {}
            <4>1. j \in j .. Len(path)
                BY <1>3
            <4> QED
                BY <4>1
        <3>6. ~HasFirst(S)
            BY <3>3 DEF HasFirst, Preds
        <3> QED
            BY <3>4, <3>5, <3>6 DEF Cyclic
    <2> QED
        BY <2>1, <2>2
<1> QED
    BY <1>1, <1>2, <1>6, <1>7 DEF SInv

\* The top of the stack is done when all its edges lead to black nodes.
LEMMA BlackenKeepsSearch == SInv /\ Blacken => SInv'
<1> SUFFICES ASSUME SInv, Blacken PROVE SInv'
    OBVIOUS
<1> DEFINE t == Len(next)
<1> DEFINE p == Len(path)
<1>1. /\ graph' = graph /\ hasCycle' = hasCycle /\ pc = "search" /\ pc' = "search"
      /\ root' = root /\ next # << >> /\ next[t] > Len(graph.edges)
      /\ color' = [color EXCEPT ![Top] = "black"]
      /\ path' = SubSeq(path, 1, p - 1) /\ next' = SubSeq(next, 1, t - 1)
    BY DEF Blacken
<1>2. /\ Nodes' = Nodes /\ Forward' = Forward /\ EdgeIndex' = EdgeIndex /\ Cyclic' = Cyclic
      /\ \A S : HasFirst(S)' = HasFirst(S)
    BY <1>1, GraphStays
<1>3. /\ t \in Nat \ {0} /\ next[t] \in Nat \ {0} /\ p \in Nat \ {0} /\ t <= p
      /\ Top = path[p] /\ Top \in ID /\ path \in Seq(ID) /\ next \in Seq(Nat \ {0})
      /\ graph \in Graph
    BY <1>1, TopFacts DEF SInv, SearchTypes
<1>4. /\ path' \in Seq(ID) /\ Len(path') = p - 1
      /\ \A i \in 1 .. p - 1 : path'[i] = path[i]
    <2>1. path # << >>
        BY <1>3, LenFacts
    <2> QED
        BY <1>1, <1>3, <2>1, ButLast
<1>5. /\ next' \in Seq(Nat \ {0}) /\ Len(next') = t - 1
      /\ \A i \in 1 .. t - 1 : next'[i] = next[i]
    BY <1>1, <1>3, ButLast
<1>6. \A n \in ID : color'[n] = IF n = Top THEN "black" ELSE color[n]
    BY <1>1, <1>3 DEF SInv, SearchTypes
<1>7. SearchTypes'
    <2>1. color' \in [ID -> {"white", "gray", "black"}]
        BY <1>1, <1>3 DEF SInv, SearchTypes
    <2>2. Len(next') <= Len(path')
        BY <1>3, <1>4, <1>5
    <2> QED
        BY <1>1, <1>4, <1>5, <2>1, <2>2 DEF SInv, SearchTypes
<1>8. \A f \in Forward : f.src \in ID /\ f.dst \in ID
    BY <1>3, GraphParts DEF Forward
<1>9. ASSUME ~hasCycle PROVE Stack' /\ Finished'
    <2>1. Stack /\ Finished /\ p = t
        BY <1>1, <1>9 DEF SInv, Stack
    <2>2. color[Top] = "gray"
        <3>1. p \in 1 .. p
            BY <1>3
        <3> QED
            BY <1>3, <2>1, <3>1 DEF Stack, GrayIsStack
    \* All edges of the top were looked at, and none leads up the stack.
    <2>3. \A f \in Forward : f.src = Top => color[f.dst] = "black"
        <3> SUFFICES ASSUME NEW f \in Forward, f.src = Top PROVE color[f.dst] = "black"
            OBVIOUS
        <3>1. PICK k \in EdgeIndex : graph.edges[k] = f /\ ~graph.edges[k].back
            BY ForwardIndex
        <3>2. p \in 1 .. p /\ k < next[p] /\ ~(p < p)
            BY <1>1, <1>3, <2>1, LenFacts, GraphParts DEF EdgeIndex
        <3> QED
            BY <1>3, <2>1, <3>1, <3>2 DEF Stack, Looked
    <2>4. \A i \in 1 .. p : i \in 1 .. p - 1 \/ i = p
        BY <1>3
    <2>5. \A i \in 1 .. p - 1 : i \in 1 .. p /\ path[i] # Top
        BY <1>3, <2>1 DEF Stack, Distinct
    <2>6. GrayIsStack'
        <3> SUFFICES ASSUME NEW n \in ID
                     PROVE  color'[n] = "gray" <=> \E i \in 1 .. Len(path') : path'[i] = n
            BY DEF GrayIsStack
        <3>1. color[n] = "gray" <=> \E i \in 1 .. p : path[i] = n
            BY <2>1 DEF Stack, GrayIsStack
        <3>2. CASE n = Top
            BY <1>4, <1>6, <2>5, <3>2
        <3>3. CASE n # Top
            <4>1. color'[n] = color[n]
                BY <1>6, <3>3
            <4>2. (\E i \in 1 .. p : path[i] = n) <=> \E i \in 1 .. p - 1 : path[i] = n
                BY <1>3, <2>4, <2>5, <3>3
            <4>3. (\E i \in 1 .. p - 1 : path[i] = n) <=> \E i \in 1 .. Len(path') : path'[i] = n
                BY <1>4
            <4> QED
                BY <3>1, <4>1, <4>2, <4>3
        <3> QED
            BY <3>2, <3>3
    <2>7. Distinct'
        BY <1>4, <2>1, <2>5 DEF Stack, Distinct
    <2>8. Linked'
        <3> SUFFICES ASSUME NEW i \in 1 .. Len(path'), i < Len(path')
                     PROVE  \E f \in Forward : f.src = path'[i] /\ f.dst = path'[i + 1]
            BY <1>2 DEF Linked
        <3>1. i \in 1 .. p - 1 /\ i + 1 \in 1 .. p - 1 /\ i \in 1 .. p /\ i < p
            BY <1>3, <1>4
        <3> QED
            BY <1>4, <2>1, <3>1 DEF Stack, Linked
    <2>9. Looked'
        <3>0. graph' = graph /\ EdgeIndex' = EdgeIndex
            BY <1>1, <1>2
        <3> SUFFICES ASSUME NEW i \in 1 .. Len(path'), NEW k \in EdgeIndex,
                            k < next'[i], ~graph.edges[k].back, graph.edges[k].src = path'[i]
                     PROVE  \/ color'[graph.edges[k].dst] = "black"
                            \/ i < Len(path') /\ graph.edges[k].dst = path'[i + 1]
            BY <3>0 DEF Looked
        <3>1. i \in 1 .. p - 1 /\ i \in 1 .. p /\ i < p /\ i + 1 \in 1 .. p /\ k < next[i]
            <4>1. i \in 1 .. p - 1
                BY <1>4
            <4>2. i \in 1 .. p /\ i < p /\ i + 1 \in 1 .. p
                BY <1>3, <4>1
            <4>3. next'[i] = next[i]
                BY <1>3, <1>5, <2>1, <4>1
            <4> QED
                BY <4>1, <4>2, <4>3
        <3>2. graph.edges[k].dst \in ID
            BY <1>3, EdgeFacts
        <3>3. color[graph.edges[k].dst] = "black" \/ graph.edges[k].dst = path[i + 1]
            BY <1>4, <2>1, <3>1 DEF Stack, Looked
        <3>4. CASE color[graph.edges[k].dst] = "black"
            BY <1>6, <3>2, <3>4
        <3>5. CASE graph.edges[k].dst = path[i + 1] /\ i + 1 = p
            BY <1>3, <1>6, <3>2, <3>5
        <3>6. CASE graph.edges[k].dst = path[i + 1] /\ i + 1 # p
            <4>1. i < p - 1 /\ i + 1 \in 1 .. p - 1
                BY <1>3, <3>1, <3>6
            <4> QED
                BY <1>4, <3>6, <4>1
        <3> QED
            BY <3>3, <3>4, <3>5, <3>6
    <2>10. Started'
        <3>1. \A k \in 1 .. Len(graph.nodes) : graph.nodes[k].id \in ID
            <4>1. \A k \in 1 .. Len(graph.nodes) : graph.nodes[k] \in [id : ID, input : BOOLEAN]
                BY <1>3, GraphParts, ElementOfSeq
            <4> QED
                BY <4>1
        <3> QED
            BY <1>1, <1>6, <2>1, <3>1 DEF Stack, Started
    <2>11. Black' = Black \cup {Top}
        BY <1>3, <1>6 DEF Black
    <2>12. \A f \in Forward : color'[f.src] = "black" => color'[f.dst] = "black"
        BY <1>6, <1>8, <2>1, <2>3 DEF Finished
    \* A set with the top has it for its first: black nodes do not lead back to it.
    <2>13. ASSUME NEW S \in SUBSET Black', S # {} PROVE HasFirst(S)
        <3>1. CASE Top \notin S
            <4>1. S \in SUBSET Black
                BY <2>11, <3>1
            <4> QED
                BY <2>1, <2>13, <4>1 DEF Finished
        <3>2. CASE Top \in S
            <4>1. ASSUME NEW f \in Forward, f.dst = Top, f.src \in S PROVE FALSE
                <5>1. CASE f.src = Top
                    BY <2>2, <2>3, <4>1, <5>1
                <5>2. CASE f.src # Top
                    <6>1. color[f.src] = "black"
                        BY <2>11, <4>1, <5>2 DEF Black
                    <6> QED
                        BY <2>1, <2>2, <4>1, <6>1 DEF Finished
                <5> QED
                    BY <5>1, <5>2
            <4>2. Preds(Top) \cap S = {}
                BY <4>1 DEF Preds
            <4> QED
                BY <3>2, <4>2 DEF HasFirst
        <3> QED
            BY <3>1, <3>2
    <2>14. Finished'
        BY <1>2, <2>12, <2>13 DEF Finished
    <2>15. Len(next') = Len(path')
        BY <1>4, <1>5, <2>1
    <2> QED
        BY <2>6, <2>7, <2>8, <2>9, <2>10, <2>14, <2>15 DEF Stack
<1> QED
    BY <1>1, <1>2, <1>7, <1>9 DEF SInv

\* At the end no node is white and, the stack being empty, none is gray.
LEMMA EndKeepsSearch == SInv /\ EndSearch => SInv'
<1> SUFFICES ASSUME SInv, EndSearch PROVE SInv'
    OBVIOUS
<1>1. /\ graph' = graph /\ color' = color /\ path' = path /\ next' = next /\ root' = root
      /\ hasCycle' = hasCycle /\ pc = "search" /\ pc' = "reach" /\ next = << >>
      /\ root > Len(graph.nodes)
    BY DEF EndSearch, searchVars
<1>2. Nodes' = Nodes /\ Forward' = Forward /\ EdgeIndex' = EdgeIndex /\ Cyclic' = Cyclic
      /\ (\A S : HasFirst(S)' = HasFirst(S)) /\ Black' = Black
    BY <1>1, GraphStays DEF Black
<1>3. SearchTypes' /\ Finished' = Finished
    BY <1>1, <1>2 DEF SInv, SearchTypes, Phases, Finished
<1>4. ASSUME ~hasCycle PROVE \A n \in Nodes : color[n] = "black"
    <2>1. Stack /\ Len(path) = 0
        <3>1. Stack /\ Len(next) = 0
            BY <1>1, <1>4 DEF SInv
        <3> QED
            BY <3>1 DEF Stack
    <2>2. \A n \in ID : color[n] # "gray"
        BY <2>1 DEF Stack, GrayIsStack
    <2>3. \A n \in Nodes : n \in ID /\ color[n] # "white"
        <3>1. graph \in Graph /\ root \in Nat
            BY DEF SInv, SearchTypes
        <3>2. Len(graph.nodes) \in Nat /\ Nodes \subseteq ID
            BY <3>1, GraphParts, LenFacts
        <3>3. \A k \in 1 .. Len(graph.nodes) : k < root
            BY <1>1, <3>1, <3>2
        <3> QED
            BY <2>1, <3>2, <3>3 DEF Nodes, Stack, Started
    <2> QED
        BY <2>2, <2>3 DEF SInv, SearchTypes
<1> QED
    BY <1>1, <1>2, <1>3, <1>4 DEF SInv

LEMMA SearchInvariant == Spec => []SInv
<1>1. SInv /\ [Next]_vars => SInv'
    <2> SUFFICES ASSUME SInv, [Next]_vars PROVE SInv'
        OBVIOUS
    <2>1. CASE Check
        BY <2>1, CheckKeepsSearch
    <2>2. CASE StartSearch
        BY <2>2, StartKeepsSearch
    <2>3. CASE PassEdge
        BY <2>3, PassKeepsSearch
    <2>4. CASE Descend
        BY <2>4, DescendKeepsSearch
    <2>5. CASE FindCycle
        BY <2>5, FindKeepsSearch
    <2>6. CASE Blacken
        BY <2>6, BlackenKeepsSearch
    <2>7. CASE EndSearch
        BY <2>7, EndKeepsSearch
    <2>8. CASE Reach
        BY <2>8, SearchUnchanged DEF Reach, Phases
    <2>9. CASE NextGroup
        BY <2>9, SearchUnchanged DEF NextGroup, Phases
    <2>10. CASE EndGroups
        BY <2>10, SearchUnchanged DEF EndGroups, Phases
    <2>11. CASE Seed \/ EndSeed \/ Dequeue \/ Relax \/ EndRelax \/ EndSort
        BY <2>11, SearchUnchanged DEF Seed, EndSeed, Dequeue, Relax, EndRelax, EndSort, Phases
    <2>12. CASE UNCHANGED vars
        <3>1. UNCHANGED <<graph, searchVars, errors>> /\ pc' = pc
            BY <2>12 DEF vars
        <3>2. CASE pc # "check"
            BY <3>1, <3>2, SearchUnchanged DEF SInv, SearchTypes
        <3>3. CASE pc = "check"
            <4>1. graph' = graph /\ color' = color /\ path' = path /\ next' = next
                  /\ root' = root /\ hasCycle' = hasCycle
                BY <3>1 DEF searchVars
            <4>2. Nodes' = Nodes /\ Forward' = Forward /\ EdgeIndex' = EdgeIndex /\ Cyclic' = Cyclic
                  /\ (\A S : HasFirst(S)' = HasFirst(S)) /\ Black' = Black
                BY <4>1, GraphStays DEF Black
            <4>3. Stack' = Stack /\ Finished' = Finished
                BY <4>1, <4>2 DEF Stack, GrayIsStack, Distinct, Linked, Looked, Started, Finished
            <4> QED
                BY <3>1, <3>3, <4>1, <4>2, <4>3 DEF SInv, SearchTypes
        <3> QED
            BY <3>2, <3>3
    <2> QED
        BY <2>1, <2>2, <2>3, <2>4, <2>5, <2>6, <2>7, <2>8, <2>9, <2>10, <2>11, <2>12
           DEF Next, Validating, Grouping, Sorting
<1> QED
    BY <1>1, InitSearch, PTL DEF Spec

\* For every graph whose forward edges come from its nodes: validateNoCycles reports a
\* cycle exactly when the graph has one.
THEOREM CycleFoundCorrect == Spec => []CycleFound
<1>1. SInv => CycleFound
    <2> SUFFICES ASSUME SInv, pc = "reach", \A e \in Forward : e.src \in Nodes
                 PROVE  hasCycle <=> Cyclic
        BY DEF CycleFound, Cyclic
    <2>1. ASSUME ~hasCycle, NEW S \in SUBSET {e.dst : e \in Forward}, S # {} PROVE HasFirst(S)
        <3>1. Finished /\ graph \in Graph /\ \A n \in Nodes : color[n] = "black"
            BY <2>1 DEF SInv, SearchTypes
        <3>2. \A e \in Forward : color[e.dst] = "black" /\ e.dst \in ID
            BY <3>1, GraphParts DEF Finished, Forward
        <3>3. S \in SUBSET Black
            BY <3>2 DEF Black
        <3> QED
            BY <2>1, <3>1, <3>3 DEF Finished
    <2> QED
        BY <2>1 DEF SInv, Cyclic
<1> QED
    BY <1>1, SearchInvariant, PTL

-----------------------------------------------------------------------------
(* What Validate accepts.                                                  *)

\* The ends of every edge are nodes, and no node is there twice.
Sound == (\A e \in Edges : e.src \in Nodes /\ e.dst \in Nodes) /\ ~Duplicated

\* An error that was found stays, so that the phases after the search see sound graphs
\* without a cycle only.
EInv ==
    /\ pc \in {"search", "reach"} /\ errors = {} => Sound
    /\ pc = "reach" /\ errors = {} => ~hasCycle
    /\ pc \notin {"check", "search", "reach", "rejected"} => Sound /\ ~hasCycle

LEMMA SoundStays == ASSUME graph' = graph PROVE Sound' = Sound
BY GraphStays DEF Sound

LEMMA StepErrors == EInv /\ [Next]_vars => EInv'
<1> SUFFICES ASSUME EInv, [Next]_vars PROVE EInv'
    OBVIOUS
<1>1. graph' = graph
    BY DEF Next, Validating, Grouping, Sorting, Check, StartSearch, PassEdge, Descend, FindCycle,
           Blacken, EndSearch, Reach, NextGroup, EndGroups, Seed, EndSeed, Dequeue, Relax, EndRelax,
           EndSort, vars
<1>2. Sound' = Sound
    BY <1>1, SoundStays
<1>3. CASE Check
    <2>1. errors' = {} => Sound
        <3> SUFFICES ASSUME errors' = {} PROVE Sound
            OBVIOUS
        <3>1. ~Duplicated /\ graph.nodes # << >> /\ EdgeErrors = {}
            BY <1>3 DEF Check
        <3>2. \A e \in Edges : ~ (e.src \notin Nodes \/ e.dst \notin Nodes)
            BY <3>1 DEF EdgeErrors
        <3> QED
            BY <3>1, <3>2 DEF Sound
    <2> QED
        BY <1>2, <1>3, <2>1 DEF Check, EInv
<1>4. CASE StartSearch \/ PassEdge \/ Descend \/ FindCycle \/ Blacken
    BY <1>2, <1>4 DEF StartSearch, PassEdge, Descend, FindCycle, Blacken, EInv
<1>5. CASE EndSearch
    BY <1>2, <1>5 DEF EndSearch, EInv, searchVars
<1>6. CASE Reach
    BY <1>2, <1>6 DEF Reach, EInv, searchVars
<1>7. CASE NextGroup
    BY <1>2, <1>7 DEF NextGroup, EInv, searchVars
<1>8. CASE EndGroups
    BY <1>2, <1>8 DEF EndGroups, EInv, searchVars
<1>9. CASE Seed \/ EndSeed \/ Dequeue \/ Relax \/ EndRelax \/ EndSort
    BY <1>2, <1>9 DEF Seed, EndSeed, Dequeue, Relax, EndRelax, EndSort, EInv, searchVars
<1>10. CASE UNCHANGED vars
    BY <1>2, <1>10 DEF vars, EInv, searchVars
<1> QED
    BY <1>3, <1>4, <1>5, <1>6, <1>7, <1>8, <1>9, <1>10 DEF Next, Validating, Grouping, Sorting

\* In a graph without a cycle every set of nodes has a first one.
LEMMA Founded ==
    ASSUME SInv, ~hasCycle, pc \notin {"check", "search", "rejected"},
           NEW S \in SUBSET Nodes, S # {}
    PROVE  HasFirst(S)
<1>1. /\ \A n \in Nodes : color[n] = "black"
      /\ Finished /\ graph \in Graph
    BY DEF SInv, SearchTypes
<1>2. S \in SUBSET Black
    BY <1>1, GraphParts DEF Black
<1> QED
    BY <1>1, <1>2 DEF Finished

\* Where the ends of the edges are nodes, so are the predecessors.
LEMMA SoundPreds ==
    ASSUME Sound, NEW n
    PROVE  Preds(n) \subseteq Nodes
BY DEF Sound, Preds, Forward

\* Some node that remains is ready.
LEMMA SomeReady ==
    ASSUME SInv, EInv, pc = "groups", remaining \subseteq Nodes, remaining # {}
    PROVE  Ready # {} /\ ~ \E e \in Forward : e.dst \notin Nodes
<1>1. Sound /\ HasFirst(remaining)
    BY Founded DEF EInv
<1>2. PICK n \in remaining : Preds(n) \cap remaining = {}
    BY <1>1 DEF HasFirst
<1>3. n \in Ready
    BY <1>1, <1>2, SoundPreds DEF Ready
<1> QED
    BY <1>1, <1>3 DEF Sound, Forward

-----------------------------------------------------------------------------
(* TopologicalSort.                                                        *)

NoRepeat(s) == \A i, j \in 1 .. Len(s) : s[i] = s[j] => i = j

\* The forward edges into n, and those of them that were not taken off its count: of the
\* node that is being relaxed they are the ones from at on.
Incoming(n) == {i \in EdgeIndex : ~graph.edges[i].back /\ graph.edges[i].dst = n}
Pending(i) ==
    \/ graph.edges[i].src \notin Elems(order)
    \/ pc = "relax" /\ at <= i /\ graph.edges[i].src = order[Len(order)]
Unrelaxed(n) == {i \in Incoming(n) : Pending(i)}

\* The count of a node is the number of its edges that are not relaxed; the nodes of count
\* zero are queued or ordered, once; an ordered node comes after its predecessors.
Free == Elems(queue) \cup Elems(order)
Sorted ==
    /\ pc = "relax" => order # << >>
    /\ \A n \in ID : inDegree[n] = Cardinality(Unrelaxed(n))
    /\ Free = {n \in Nodes : inDegree[n] = 0}
    /\ NoRepeat(order) /\ NoRepeat(queue) /\ Elems(order) \cap Elems(queue) = {}
    /\ \A e \in Forward : \A j \in 1 .. Len(order) :
          order[j] = e.dst => \E i \in 1 .. j - 1 : order[i] = e.src

\* While the queue is filled at first it holds the nodes before at that have no edge.
Seeded ==
    /\ order = << >>
    /\ \A n \in ID : inDegree[n] = Cardinality(Incoming(n))
    /\ Elems(queue) = {graph.nodes[i].id : i \in {j \in 1 .. Len(graph.nodes) :
                            j < at /\ inDegree[graph.nodes[j].id] = 0}}
    /\ NoRepeat(queue)

SortTypes == queue \in Seq(ID) /\ order \in Seq(ID) /\ at \in Nat \ {0} /\ inDegree \in [ID -> Int]

KInv ==
    /\ SortTypes
    /\ pc \in {"check", "search", "reach", "groups"} => order = << >> /\ queue = << >>
    /\ pc = "seed" => Seeded
    /\ pc \in {"sort", "relax"} => Sorted
    /\ OrderIsTopological /\ AcceptedIsOrdered

\* A sequence without repetitions is as long as the set of what it holds is large.
LEMMA NoRepeatCount ==
    ASSUME NEW S, NEW s \in Seq(S), NoRepeat(s)
    PROVE  IsFiniteSet(Elems(s)) /\ Cardinality(Elems(s)) = Len(s)
<1> DEFINE f == [i \in 1 .. Len(s) |-> s[i]]
<1>1. Len(s) \in Nat
    BY LenFacts
<1>2. f \in Bijection(1 .. Len(s), Elems(s))
    <2>1. f \in [1 .. Len(s) -> Elems(s)]
        BY DEF Elems
    <2>2. \A a, b \in 1 .. Len(s) : f[a] = f[b] => a = b
        BY DEF NoRepeat
    <2>3. \A t \in Elems(s) : \E a \in 1 .. Len(s) : f[a] = t
        BY DEF Elems
    <2> HIDE DEF f
    <2>4. f \in Injection(1 .. Len(s), Elems(s))
        BY <2>1, <2>2 DEF Injection, IsInjective
    <2>5. f \in Surjection(1 .. Len(s), Elems(s))
        BY <2>1, <2>3 DEF Surjection
    <2> QED
        BY <2>4, <2>5 DEF Bijection
<1>3. ExistsBijection(1 .. Len(s), Elems(s))
    BY <1>2, Zenon DEF ExistsBijection
<1>4. IsFiniteSet(1 .. Len(s)) /\ Cardinality(1 .. Len(s)) = Len(s)
    <2>1. 1 \in Int /\ Len(s) \in Int
        BY <1>1
    <2> QED
        BY <1>1, <2>1, FS_Interval
<1> QED
    BY <1>3, <1>4, FS_Bijection

LEMMA NoRepeatAppend ==
    ASSUME NEW S, NEW s \in Seq(S), NoRepeat(s), NEW e \in S, e \notin Elems(s)
    PROVE  NoRepeat(Append(s, e))
<1> DEFINE t == Append(s, e)
<1>1. /\ Len(t) = Len(s) + 1 /\ Len(s) \in Nat /\ t[Len(s) + 1] = e
      /\ \A i \in 1 .. Len(s) : t[i] = s[i]
    BY AppendProperties, LenFacts
<1> HIDE DEF t
<1>2. \A i \in 1 .. Len(t) : i \in 1 .. Len(s) \/ i = Len(s) + 1
    BY <1>1
<1>3. \A i \in 1 .. Len(s) : t[i] # e
    BY <1>1 DEF Elems
<1>4. NoRepeat(t)
    BY <1>1, <1>2, <1>3 DEF NoRepeat
<1> QED
    BY <1>4 DEF t

LEMMA NoRepeatTail ==
    ASSUME NEW S, NEW s \in Seq(S), NoRepeat(s), s # << >>
    PROVE  NoRepeat(Tail(s)) /\ Head(s) \notin Elems(Tail(s))
<1> DEFINE t == Tail(s)
<1>1. /\ Len(t) = Len(s) - 1 /\ Len(s) \in Nat \ {0} /\ Head(s) = s[1]
      /\ \A i \in 1 .. Len(t) : t[i] = s[i + 1]
    BY HeadTailProperties, LenFacts
<1> HIDE DEF t
<1>2. \A i \in 1 .. Len(t) : i + 1 \in 1 .. Len(s) /\ i + 1 # 1 /\ i \in Nat
    BY <1>1
<1>3. NoRepeat(t)
    <2> SUFFICES ASSUME NEW i \in 1 .. Len(t), NEW j \in 1 .. Len(t), t[i] = t[j] PROVE i = j
        BY DEF NoRepeat
    <2>1. i + 1 = j + 1
        BY <1>1, <1>2 DEF NoRepeat
    <2> QED
        BY <1>2, <2>1
<1>4. Head(s) \notin Elems(t)
    <2> SUFFICES ASSUME NEW i \in 1 .. Len(t), t[i] = s[1] PROVE FALSE
        BY <1>1 DEF Elems
    <2>1. 1 \in 1 .. Len(s) /\ s[i + 1] = s[1]
        BY <1>1
    <2> QED
        BY <1>2, <2>1 DEF NoRepeat
<1> QED
    BY <1>3, <1>4 DEF t

\* Counts are of finite sets.
LEMMA Counts ==
    ASSUME graph \in Graph, NEW n
    PROVE  /\ IsFiniteSet(Incoming(n)) /\ IsFiniteSet(Unrelaxed(n))
           /\ Cardinality(Incoming(n)) \in Nat /\ Cardinality(Unrelaxed(n)) \in Nat
           /\ Cardinality(Unrelaxed(n)) = 0 <=> Unrelaxed(n) = {}
<1>1. 1 \in Int /\ Len(graph.edges) \in Int
    BY GraphParts, LenFacts
<1>2. IsFiniteSet(EdgeIndex)
    BY <1>1, FS_Interval DEF EdgeIndex
<1>3. Incoming(n) \in SUBSET EdgeIndex /\ Unrelaxed(n) \in SUBSET EdgeIndex
    BY DEF Incoming, Unrelaxed
<1>4. IsFiniteSet(Incoming(n)) /\ IsFiniteSet(Unrelaxed(n))
    BY <1>2, <1>3, FS_Subset
<1> QED
    BY <1>4, FS_CardinalityType, FS_EmptySet

\* A node of a sound graph has one index.
LEMMA OneIndex ==
    ASSUME Sound, NEW i \in 1 .. Len(graph.nodes), NEW j \in 1 .. Len(graph.nodes),
           graph.nodes[i].id = graph.nodes[j].id
    PROVE  i = j
BY DEF Sound, Duplicated

\* The nodes of a sound graph are as many as their list is long.
LEMMA NodeCount ==
    ASSUME graph \in Graph, Sound
    PROVE  Cardinality(Nodes) = Len(graph.nodes)
<1> DEFINE s == [i \in 1 .. Len(graph.nodes) |-> graph.nodes[i].id]
<1>1. Len(graph.nodes) \in Nat /\ \A i \in 1 .. Len(graph.nodes) : graph.nodes[i].id \in ID
    <2>1. graph.nodes \in Seq([id : ID, input : BOOLEAN])
        BY GraphParts
    <2>2. \A i \in 1 .. Len(graph.nodes) : graph.nodes[i] \in [id : ID, input : BOOLEAN]
        BY <2>1, ElementOfSeq
    <2> QED
        BY <2>1, <2>2, LenFacts
<1>2. s \in Seq(ID) /\ Len(s) = Len(graph.nodes) /\ \A i \in 1 .. Len(s) : s[i] = graph.nodes[i].id
    BY <1>1
<1> HIDE DEF s
<1>3. NoRepeat(s)
    BY <1>2, OneIndex DEF NoRepeat
<1>4. Elems(s) = Nodes
    BY <1>2 DEF Elems, Nodes
<1> QED
    BY <1>2, <1>3, <1>4, NoRepeatCount

\* Steps before the order is made leave its data alone, and those that only look at the
\* graph keep the invariant.
LEMMA SortUnchanged ==
    ASSUME KInv, UNCHANGED <<graph, sortVars>>,
           pc' \in {"check", "search", "reach", "groups", "rejected"},
           pc \in {"check", "search", "reach", "groups", "rejected"},
           pc = "rejected" => pc' = "rejected"
    PROVE  KInv'
<1>1. queue' = queue /\ order' = order /\ at' = at /\ inDegree' = inDegree
    BY DEF sortVars
<1> QED
    BY <1>1 DEF KInv, SortTypes, OrderIsTopological, AcceptedIsOrdered

LEMMA GroupsKeepSort ==
    ASSUME GInv, SInv, EInv, KInv, NextGroup \/ EndGroups
    PROVE  KInv'
<1>1. graph' = graph /\ pc = "groups" /\ graph \in Graph
    BY DEF NextGroup, EndGroups, GInv
<1>2. CASE NextGroup
    <2>1. remaining \subseteq Nodes /\ remaining # {}
        BY <1>1, <1>2 DEF GInv, Layered, NextGroup
    <2>2. pc' = "groups"
        BY <1>1, <1>2, <2>1, SomeReady DEF NextGroup
    <2> QED
        BY <1>1, <1>2, <2>2, SortUnchanged DEF NextGroup
<1>3. CASE EndGroups /\ \E e \in Edges : e.back
    <2>1. /\ pc' = "seed" /\ at' = 1 /\ order' = order /\ queue' = queue
          /\ order = << >> /\ queue = << >>
          /\ inDegree' = [n \in ID |-> Cardinality({i \in 1 .. Len(graph.edges) :
                                 ~graph.edges[i].back /\ graph.edges[i].dst = n})]
        BY <1>1, <1>3 DEF EndGroups, KInv
    <2>2. inDegree' = [n \in ID |-> Cardinality(Incoming(n))]
        BY <2>1 DEF Incoming, EdgeIndex
    <2>3. \A n \in ID : inDegree'[n] = Cardinality(Incoming(n)) /\ inDegree'[n] \in Int
        BY <1>1, <2>2, Counts
    <2>4. \A n : Incoming(n)' = Incoming(n)
        BY <1>1, GraphStays DEF Incoming
    <2>5. Elems(queue') = {} /\ NoRepeat(queue')
        BY <2>1, ElemsEmpty DEF NoRepeat
    <2>6. {j \in 1 .. Len(graph.nodes) : j < at' /\ inDegree'[graph.nodes[j].id] = 0} = {}
        BY <2>1
    <2>7. Seeded'
        BY <1>1, <2>1, <2>3, <2>4, <2>5, <2>6 DEF Seeded
    <2>8. inDegree' \in [ID -> Int]
        BY <2>2, <2>3
    <2> QED
        BY <2>1, <2>7, <2>8 DEF KInv, SortTypes, OrderIsTopological, AcceptedIsOrdered
<1>4. CASE EndGroups /\ ~ \E e \in Edges : e.back
    <2>1. pc' = "ordered" /\ at' = at /\ order' = order /\ queue' = queue /\ inDegree' = inDegree
        BY <1>1, <1>4 DEF EndGroups
    <2>2. ~ \E e \in Edges' : e.back
        BY <1>1, <1>4, GraphStays
    <2> QED
        BY <2>1, <2>2 DEF KInv, SortTypes, OrderIsTopological, AcceptedIsOrdered
<1> QED
    BY <1>2, <1>3, <1>4

\* The next node joins the queue when no edge leads to it; it is not in the queue already.
LEMMA SeedKeeps ==
    ASSUME GInv, EInv, KInv, Seed
    PROVE  KInv'
<1>1. /\ graph' = graph /\ graph \in Graph /\ pc = "seed" /\ pc' = "seed" /\ Sound
      /\ inDegree' = inDegree /\ order' = order /\ at' = at + 1
      /\ at \in Nat \ {0} /\ at \in 1 .. Len(graph.nodes) /\ Seeded /\ queue \in Seq(ID)
      /\ queue' = IF inDegree[graph.nodes[at].id] = 0 THEN Append(queue, graph.nodes[at].id) ELSE queue
    <2>1. Len(graph.nodes) \in Nat /\ graph \in Graph
        BY GraphParts, LenFacts DEF GInv
    <2> QED
        BY <2>1 DEF Seed, GInv, EInv, KInv, SortTypes
<1> DEFINE n == graph.nodes[at].id
           Q(k) == {j \in 1 .. Len(graph.nodes) : j < k /\ inDegree[graph.nodes[j].id] = 0}
           E(k) == {graph.nodes[i].id : i \in Q(k)}
<1>2. n \in ID
    <2>1. graph.nodes \in Seq([id : ID, input : BOOLEAN])
        BY <1>1, GraphParts
    <2>2. graph.nodes[at] \in [id : ID, input : BOOLEAN]
        BY <1>1, <2>1, ElementOfSeq
    <2> QED
        BY <2>2
<1>3. n \notin E(at)
    BY <1>1, OneIndex
<1>4. Elems(queue) = E(at)
    BY <1>1 DEF Seeded
<1>5. Elems(queue') = E(at + 1) /\ queue' \in Seq(ID) /\ NoRepeat(queue')
    <2>1. CASE inDegree[n] = 0
        <3>1. queue' = Append(queue, n)
            BY <1>1, <2>1
        <3>2. Elems(queue') = E(at) \cup {n} /\ queue' \in Seq(ID)
            BY <1>1, <1>2, <1>4, <3>1, ElemsAppend
        <3>3. NoRepeat(queue')
            BY <1>1, <1>2, <1>3, <1>4, <3>1, NoRepeatAppend DEF Seeded
        <3>4. Q(at + 1) = Q(at) \cup {at}
            BY <1>1, <2>1
        <3> QED
            BY <3>2, <3>3, <3>4
    <2>2. CASE inDegree[n] # 0
        <3>1. queue' = queue
            BY <1>1, <2>2
        <3>2. Q(at + 1) = Q(at)
            BY <1>1, <2>2
        <3> QED
            BY <1>1, <1>4, <3>1, <3>2 DEF Seeded
    <2> QED
        BY <2>1, <2>2
<1>6. \A m : Incoming(m)' = Incoming(m)
    BY <1>1, GraphStays DEF Incoming
<1>7. Seeded'
    BY <1>1, <1>5, <1>6 DEF Seeded
<1>8. SortTypes'
    BY <1>1, <1>5 DEF SortTypes, KInv
<1> QED
    BY <1>1, <1>7, <1>8 DEF KInv, OrderIsTopological, AcceptedIsOrdered

\* When every node was looked at, the queue holds the nodes of count zero.
LEMMA EndSeedKeeps ==
    ASSUME GInv, KInv, EndSeed
    PROVE  KInv'
<1>1. /\ graph' = graph /\ graph \in Graph /\ pc = "seed" /\ pc' = "sort"
      /\ inDegree' = inDegree /\ order' = order /\ queue' = queue /\ at' = at
      /\ at > Len(graph.nodes) /\ Seeded /\ SortTypes /\ Len(graph.nodes) \in Nat
    <2>1. Len(graph.nodes) \in Nat /\ graph \in Graph
        BY GraphParts, LenFacts DEF GInv
    <2> QED
        BY <2>1 DEF EndSeed, sortVars, GInv, KInv
<1>2. order = << >> /\ Elems(order) = {} /\ Len(order) = 0 /\ NoRepeat(order)
    BY <1>1, ElemsEmpty DEF Seeded, NoRepeat
<1>3. \A n : Unrelaxed(n)' = Incoming(n)
    BY <1>1, <1>2, GraphStays DEF Unrelaxed, Incoming, Pending
<1>4. Elems(queue) = {n \in Nodes : inDegree[n] = 0}
    <2>1. \A j \in 1 .. Len(graph.nodes) : j < at
        BY <1>1 DEF SortTypes
    <2> QED
        BY <1>1, <2>1 DEF Seeded, Nodes
<1>5. Free' = {n \in Nodes' : inDegree'[n] = 0}
    BY <1>1, <1>2, <1>4, GraphStays DEF Free
<1>6. Sorted'
    BY <1>1, <1>2, <1>3, <1>5 DEF Sorted, Seeded
<1> QED
    BY <1>1, <1>6 DEF KInv, SortTypes, OrderIsTopological, AcceptedIsOrdered

\* The head of the queue is ordered: its predecessors are, for it has no count left.
LEMMA DequeueKeeps ==
    ASSUME GInv, EInv, KInv, Dequeue
    PROVE  KInv'
<1> DEFINE h == Head(queue)
<1>1. /\ graph' = graph /\ graph \in Graph /\ pc = "sort" /\ pc' = "relax"
      /\ inDegree' = inDegree /\ order' = Append(order, h) /\ queue' = Tail(queue) /\ at' = 1
      /\ Sorted /\ queue \in Seq(ID) /\ queue # << >> /\ order \in Seq(ID)
    BY DEF Dequeue, GInv, KInv, SortTypes
<1>2. /\ h \in ID /\ queue' \in Seq(ID) /\ Elems(queue) = {h} \cup Elems(queue')
      /\ h \notin Elems(queue') /\ NoRepeat(queue')
    BY <1>1, ElemsTail, NoRepeatTail DEF Sorted
<1>3. h \notin Elems(order) /\ Elems(order) \cap Elems(queue') = {}
    BY <1>1, <1>2 DEF Sorted
<1>4. /\ order' \in Seq(ID) /\ Len(order') = Len(order) + 1 /\ Elems(order') = Elems(order) \cup {h}
      /\ Len(order) \in Nat /\ order'[Len(order')] = h /\ order' # << >>
      /\ \A i \in 1 .. Len(order) : order'[i] = order[i]
    <2>1. order' \in Seq(ID) /\ Len(order') = Len(order) + 1 /\ Elems(order') = Elems(order) \cup {h}
        BY <1>1, <1>2, ElemsAppend
    <2>2. /\ Len(order) \in Nat /\ order'[Len(order) + 1] = h
          /\ \A i \in 1 .. Len(order) : order'[i] = order[i]
        BY <1>1, <1>2, AppendProperties, LenFacts
    <2>3. order' # << >>
        BY <2>1, <2>2, LenFacts
    <2> QED
        BY <2>1, <2>2, <2>3
<1>5. NoRepeat(order')
    BY <1>1, <1>2, <1>3, NoRepeatAppend DEF Sorted
<1>6. \A n : Unrelaxed(n)' = Unrelaxed(n)
    <2>1. \A n : Incoming(n)' = Incoming(n)
        BY <1>1, GraphStays DEF Incoming
    <2>2. \A i \in EdgeIndex : at' <= i
        BY <1>1 DEF EdgeIndex
    <2> QED
        BY <1>1, <1>3, <1>4, <2>1, <2>2 DEF Unrelaxed, Incoming, Pending
<1>7. Free' = Free
    BY <1>2, <1>4 DEF Free
<1>8. inDegree[h] = 0
    BY <1>1, <1>2 DEF Sorted, Free
<1>9. \A e \in Forward : e.dst = h => e.src \in Elems(order)
    <2> SUFFICES ASSUME NEW e \in Forward, e.dst = h PROVE e.src \in Elems(order)
        OBVIOUS
    <2>1. PICK k \in EdgeIndex : graph.edges[k] = e /\ ~graph.edges[k].back
        BY ForwardIndex
    <2>2. Unrelaxed(h) = {}
        BY <1>1, <1>2, <1>8, Counts DEF Sorted
    <2> QED
        BY <2>1, <2>2 DEF Unrelaxed, Incoming, Pending
<1>10. \A e \in Forward : \A j \in 1 .. Len(order') :
          order'[j] = e.dst => \E i \in 1 .. j - 1 : order'[i] = e.src
    <2> SUFFICES ASSUME NEW e \in Forward, NEW j \in 1 .. Len(order'), order'[j] = e.dst
                 PROVE  \E i \in 1 .. j - 1 : order'[i] = e.src
        OBVIOUS
    <2>1. CASE j = Len(order) + 1
        <3>1. e.src \in Elems(order)
            BY <1>4, <1>9, <2>1
        <3>2. PICK i \in 1 .. Len(order) : order[i] = e.src
            BY <3>1 DEF Elems
        <3> QED
            BY <1>4, <2>1, <3>2
    <2>2. CASE j \in 1 .. Len(order)
        <3>1. PICK i \in 1 .. j - 1 : order[i] = e.src
            BY <1>1, <1>4, <2>2 DEF Sorted
        <3>2. i \in 1 .. Len(order)
            BY <1>4, <2>2
        <3> QED
            BY <1>4, <3>1, <3>2
    <2> QED
        BY <1>4, <2>1, <2>2
<1>11. Sorted'
    <2>1. Nodes' = Nodes /\ Forward' = Forward
        BY <1>1, GraphStays
    <2>2. \A n \in ID : inDegree'[n] = Cardinality(Unrelaxed(n)')
        BY <1>1, <1>6 DEF Sorted
    <2>3. Free' = {n \in Nodes' : inDegree'[n] = 0}
        BY <1>1, <1>7, <2>1 DEF Sorted
    <2>4. Elems(order') \cap Elems(queue') = {}
        BY <1>2, <1>3, <1>4
    <2> QED
        BY <1>2, <1>4, <1>5, <1>10, <2>1, <2>2, <2>3, <2>4 DEF Sorted
<1> QED
    BY <1>1, <1>2, <1>4, <1>11 DEF KInv, SortTypes, OrderIsTopological, AcceptedIsOrdered

\* An edge of the node that was just ordered comes off the count of its target, which joins
\* the queue with its last.
LEMMA RelaxKeeps ==
    ASSUME GInv, EInv, KInv, Relax
    PROVE  KInv'
<1>1. /\ graph' = graph /\ graph \in Graph /\ pc = "relax" /\ pc' = "relax" /\ Sound
      /\ order' = order /\ at' = at + 1 /\ at \in Nat \ {0} /\ at \in EdgeIndex
      /\ Sorted /\ queue \in Seq(ID) /\ order \in Seq(ID) /\ inDegree \in [ID -> Int]
    <2>1. Len(graph.edges) \in Nat /\ graph \in Graph
        BY GraphParts, LenFacts DEF GInv
    <2> QED
        BY <2>1 DEF Relax, GInv, EInv, KInv, SortTypes, EdgeIndex
<1> DEFINE e == graph.edges[at]
           mine == ~e.back /\ e.src = order[Len(order)]
<1>2. e \in Edges /\ e.dst \in ID
    BY <1>1, EdgeFacts
<1>3. PICK d \in ID : d = e.dst
    BY <1>2
<1>4. d \in Nodes
    BY <1>1, <1>2, <1>3 DEF Sound
<1>5. order # << >> /\ order[Len(order)] \in Elems(order)
    <2>1. order # << >> /\ Len(order) \in Nat /\ Len(order) # 0
        BY <1>1, LenFacts DEF Sorted
    <2>2. Len(order) \in 1 .. Len(order)
        BY <2>1
    <2> QED
        BY <2>1, <2>2 DEF Elems
<1>6. \A n : Incoming(n)' = Incoming(n)
    BY <1>1, GraphStays DEF Incoming
<1>7. Nodes' = Nodes /\ Forward' = Forward
    BY <1>1, GraphStays
<1>8. CASE ~mine
    <2>1. inDegree' = inDegree /\ queue' = queue
        BY <1>8 DEF Relax
    <2>2. \A n : Unrelaxed(n)' = Unrelaxed(n)
        <3>1. \A n : \A i \in Incoming(n) : i = at => graph.edges[i].src # order[Len(order)]
            BY <1>8 DEF Incoming
        <3>2. \A i \in EdgeIndex : i # at => (at + 1 <= i <=> at <= i)
            BY <1>1 DEF EdgeIndex
        <3> QED
            BY <1>1, <1>6, <3>1, <3>2 DEF Unrelaxed, Incoming, Pending
    <2>3. Sorted'
        BY <1>1, <1>7, <2>1, <2>2 DEF Sorted, Free
    <2> QED
        BY <1>1, <2>1, <2>3 DEF KInv, SortTypes, OrderIsTopological, AcceptedIsOrdered
<1>9. CASE mine
    <2>1. /\ inDegree' = [inDegree EXCEPT ![d] = @ - 1]
          /\ queue' = IF inDegree[d] = 1 THEN Append(queue, d) ELSE queue
        BY <1>9, <1>3 DEF Relax
    <2>2. inDegree' \in [ID -> Int] /\ inDegree'[d] = inDegree[d] - 1
          /\ \A n \in ID : n # d => inDegree'[n] = inDegree[n]
        BY <1>1, <1>4, <2>1
    <2>3. at \in Unrelaxed(d)
        BY <1>1, <1>9, <1>3 DEF Unrelaxed, Incoming, Pending
    <2>4. \A i \in EdgeIndex : Pending(i)' <=> Pending(i) /\ ~ (i = at)
        <3> TAKE i \in EdgeIndex
        <3>1. CASE i = at
            <4>1. ~ (at + 1 <= i) /\ graph.edges[i].src \in Elems(order)
                BY <1>1, <1>5, <1>9, <3>1 DEF EdgeIndex
            <4> QED
                BY <1>1, <3>1, <4>1 DEF Pending
        <3>2. CASE i # at
            <4>1. at + 1 <= i <=> at <= i
                BY <1>1, <3>2 DEF EdgeIndex
            <4> QED
                BY <1>1, <3>2, <4>1 DEF Pending
        <3> QED
            BY <3>1, <3>2
    <2>5. Unrelaxed(d)' = Unrelaxed(d) \ {at} /\ \A n \in ID : n # d => Unrelaxed(n)' = Unrelaxed(n)
        <3>1. \A n : Unrelaxed(n)' = Unrelaxed(n) \ {at}
            BY <1>6, <2>4 DEF Unrelaxed, Incoming
        <3>2. ASSUME NEW n \in ID, n # d PROVE Unrelaxed(n)' = Unrelaxed(n)
            <4>1. at \notin Unrelaxed(n)
                BY <1>3, <3>2 DEF Unrelaxed, Incoming
            <4> QED
                BY <3>1, <4>1
        <3>3. Unrelaxed(d)' = Unrelaxed(d) \ {at}
            BY <3>1
        <3> QED
            BY <3>2, <3>3
    <2>6. \A n \in ID : inDegree'[n] = Cardinality(Unrelaxed(n)')
        <3>1. Cardinality(Unrelaxed(d)') = Cardinality(Unrelaxed(d)) - 1
            <4>1. IsFiniteSet(Unrelaxed(d))
                BY <1>1, Counts
            <4>2. Cardinality(Unrelaxed(d) \ {at}) = Cardinality(Unrelaxed(d)) - 1
                BY <2>3, <4>1, FS_RemoveElement
            <4> QED
                BY <2>5, <4>2
        <3>2. inDegree[d] = Cardinality(Unrelaxed(d))
            BY <1>1, <1>4 DEF Sorted
        <3>3. inDegree'[d] = Cardinality(Unrelaxed(d)')
            BY <2>2, <3>1, <3>2
        <3>4. ASSUME NEW n \in ID, n # d PROVE inDegree'[n] = Cardinality(Unrelaxed(n)')
            BY <1>1, <2>2, <2>5, <3>4 DEF Sorted
        <3> SUFFICES ASSUME NEW n \in ID PROVE inDegree'[n] = Cardinality(Unrelaxed(n)')
            OBVIOUS
        <3>5. CASE n = d
            BY <3>3, <3>5
        <3> QED
            BY <3>4, <3>5
    <2>7. inDegree[d] # 0 /\ d \notin Free
        <3>1. inDegree[d] = Cardinality(Unrelaxed(d))
            BY <1>1, <1>4 DEF Sorted
        <3>2. Unrelaxed(d) # {}
            BY <2>3
        <3>3. inDegree[d] # 0
            BY <1>1, <3>1, <3>2, Counts
        <3> QED
            BY <1>1, <3>3 DEF Sorted
    <2>8. CASE inDegree[d] = 1
        <3>1. queue' = Append(queue, d) /\ d \notin Elems(queue) /\ d \notin Elems(order)
            BY <2>1, <2>7, <2>8 DEF Free
        <3>2. queue' \in Seq(ID) /\ Elems(queue') = Elems(queue) \cup {d} /\ NoRepeat(queue')
            BY <1>1, <1>4, <3>1, ElemsAppend, NoRepeatAppend DEF Sorted
        <3>3. Free' = Free \cup {d}
            BY <1>1, <3>2 DEF Free
        <3>4. Free' = {n \in Nodes : inDegree'[n] = 0}
            <4>1. inDegree'[d] = 0
                BY <2>2, <2>8
            <4>2. Free = {n \in Nodes : inDegree[n] = 0} /\ Nodes \subseteq ID
                BY <1>1, GraphParts DEF Sorted
            <4> QED
                BY <1>4, <2>2, <2>7, <3>3, <4>1, <4>2
        <3>5. Elems(order') \cap Elems(queue') = {}
            BY <1>1, <3>1, <3>2 DEF Sorted
        <3>6. Sorted'
            BY <1>1, <1>5, <1>7, <2>6, <3>2, <3>4, <3>5 DEF Sorted
        <3> QED
            BY <1>1, <2>2, <3>2, <3>6 DEF KInv, SortTypes, OrderIsTopological, AcceptedIsOrdered
    <2>9. CASE inDegree[d] # 1
        <3>1. queue' = queue
            BY <2>1, <2>9
        <3>2. Free' = Free
            BY <1>1, <3>1 DEF Free
        <3>3. Free' = {n \in Nodes : inDegree'[n] = 0}
            <4>1. inDegree'[d] # 0
                BY <1>1, <1>4, <2>2, <2>9
            <4>2. Free = {n \in Nodes : inDegree[n] = 0} /\ Nodes \subseteq ID
                BY <1>1, GraphParts DEF Sorted
            <4> QED
                BY <1>4, <2>2, <2>7, <3>2, <4>1, <4>2
        <3>4. Sorted'
            BY <1>1, <1>5, <1>7, <2>6, <3>1, <3>3 DEF Sorted
        <3> QED
            BY <1>1, <2>2, <3>1, <3>4 DEF KInv, SortTypes, OrderIsTopological, AcceptedIsOrdered
    <2> QED
        BY <2>8, <2>9
<1> QED
    BY <1>8, <1>9

\* With all edges looked at, none of the node's counts any more.
LEMMA EndRelaxKeeps ==
    ASSUME GInv, KInv, EndRelax
    PROVE  KInv'
<1>1. /\ graph' = graph /\ graph \in Graph /\ pc = "relax" /\ pc' = "sort" /\ Sorted
      /\ inDegree' = inDegree /\ order' = order /\ queue' = queue /\ at' = at /\ SortTypes
      /\ at > Len(graph.edges) /\ Len(graph.edges) \in Nat
    <2>1. Len(graph.edges) \in Nat /\ graph \in Graph
        BY GraphParts, LenFacts DEF GInv
    <2> QED
        BY <2>1 DEF EndRelax, sortVars, GInv, KInv
<1>2. \A n : Unrelaxed(n)' = Unrelaxed(n)
    <2>1. \A i \in EdgeIndex : ~ (at <= i)
        BY <1>1 DEF EdgeIndex, SortTypes
    <2> QED
        BY <1>1, <2>1, GraphStays DEF Unrelaxed, Incoming, Pending
<1>3. Sorted'
    BY <1>1, <1>2, GraphStays DEF Sorted, Free
<1> QED
    BY <1>1, <1>3 DEF KInv, SortTypes, OrderIsTopological, AcceptedIsOrdered

\* When the queue is empty every node is ordered: of those that are not, one would have no
\* predecessor among them, and so no count.
LEMMA EndSortKeeps ==
    ASSUME GInv, SInv, EInv, KInv, EndSort
    PROVE  KInv'
<1>1. /\ graph' = graph /\ graph \in Graph /\ pc = "sort" /\ Sorted /\ Sound /\ ~hasCycle
      /\ inDegree' = inDegree /\ order' = order /\ queue' = queue /\ at' = at /\ queue = << >>
      /\ order \in Seq(ID)
    BY DEF EndSort, sortVars, GInv, EInv, KInv, SortTypes
<1>2. Elems(order) = {n \in Nodes : inDegree[n] = 0}
    BY <1>1, ElemsEmpty DEF Sorted, Free
<1>3. Elems(order) = Nodes
    <2> SUFFICES ASSUME Nodes \ Elems(order) # {} PROVE FALSE
        BY <1>2
    <2>1. HasFirst(Nodes \ Elems(order))
        BY <1>1, Founded
    <2>2. PICK n \in Nodes \ Elems(order) : Preds(n) \cap (Nodes \ Elems(order)) = {}
        BY <2>1 DEF HasFirst
    <2>3. Preds(n) \subseteq Elems(order)
        BY <1>1, <2>2, SoundPreds
    <2>4. Unrelaxed(n) = {}
        <3> SUFFICES ASSUME NEW i \in Incoming(n) PROVE graph.edges[i].src \in Elems(order)
            BY <1>1 DEF Unrelaxed, Pending
        <3>1. i \in EdgeIndex /\ graph.edges[i].dst = n /\ ~graph.edges[i].back
            BY DEF Incoming
        <3>2. graph.edges[i] \in Forward
            BY <1>1, <3>1, EdgeFacts
        <3> QED
            BY <2>3, <3>1, <3>2 DEF Preds
    <2>5. n \in ID
        BY <1>1, <2>2, GraphParts
    <2>6. inDegree[n] = 0
        BY <1>1, <2>4, <2>5, Counts DEF Sorted
    <2> QED
        BY <1>2, <2>2, <2>6
<1>4. Len(order) = Len(graph.nodes)
    BY <1>1, <1>3, NoRepeatCount, NodeCount DEF Sorted
<1>5. pc' = "ordered"
    BY <1>4 DEF EndSort
<1>6. OrderIsTopological'
    <2>1. Nodes' = Nodes /\ Forward' = Forward /\ Edges' = Edges
        BY <1>1, GraphStays
    <2>2. \A n \in Nodes : \E i \in 1 .. Len(order) : order[i] = n
        BY <1>3 DEF Elems
    <2>3. \A i, j \in 1 .. Len(order) : order[i] = order[j] => i = j
        BY <1>1 DEF Sorted, NoRepeat
    <2>4. ASSUME NEW e \in Forward, NEW i \in 1 .. Len(order), NEW j \in 1 .. Len(order),
                 order[i] = e.src, order[j] = e.dst
          PROVE  i < j
        <3>1. PICK k \in 1 .. j - 1 : order[k] = e.src
            BY <1>1, <2>4 DEF Sorted
        <3>2. Len(order) \in Nat
            BY <1>1, LenFacts
        <3>3. k \in 1 .. Len(order) /\ k < j
            BY <3>2
        <3> QED
            BY <2>3, <2>4, <3>1, <3>3
    <2> QED
        BY <1>1, <2>1, <2>2, <2>3, <2>4 DEF OrderIsTopological
<1> QED
    BY <1>1, <1>5, <1>6 DEF KInv, SortTypes, AcceptedIsOrdered

LEMMA StepSorts == GInv /\ SInv /\ EInv /\ KInv /\ [Next]_vars => KInv'
<1> SUFFICES ASSUME GInv, SInv, EInv, KInv, [Next]_vars PROVE KInv'
    OBVIOUS
<1>1. CASE Check
    BY <1>1, SortUnchanged DEF Check
<1>2. CASE StartSearch \/ PassEdge \/ Descend \/ FindCycle \/ Blacken
    BY <1>2, SortUnchanged DEF StartSearch, PassEdge, Descend, FindCycle, Blacken
<1>3. CASE EndSearch
    BY <1>3, SortUnchanged DEF EndSearch
<1>4. CASE Reach
    BY <1>4, SortUnchanged DEF Reach
<1>5. CASE UNCHANGED vars
    <2>1. graph' = graph /\ pc' = pc /\ at' = at /\ order' = order /\ queue' = queue /\ inDegree' = inDegree
        BY <1>5 DEF vars, sortVars
    <2>2. /\ Nodes' = Nodes /\ Edges' = Edges /\ Forward' = Forward
          /\ (\A n : Incoming(n)' = Incoming(n)) /\ \A n : Unrelaxed(n)' = Unrelaxed(n)
        BY <2>1, GraphStays DEF Incoming, Unrelaxed, Pending
    <2>3. Sorted' = Sorted /\ Seeded' = Seeded
        BY <2>1, <2>2 DEF Sorted, Seeded, Free
    <2> QED
        BY <2>1, <2>2, <2>3 DEF KInv, SortTypes, OrderIsTopological, AcceptedIsOrdered
<1> QED
    BY <1>1, <1>2, <1>3, <1>4, <1>5, GroupsKeepSort, SeedKeeps, EndSeedKeeps, DequeueKeeps,
       RelaxKeeps, EndRelaxKeeps, EndSortKeeps DEF Next, Validating, Grouping, Sorting

LEMMA SortInvariant == Spec => []KInv
<1>1. Init => KInv /\ EInv
    BY DEF Init, KInv, EInv, SortTypes, OrderIsTopological, AcceptedIsOrdered
<1> QED
    BY <1>1, GroupsInvariant, SearchInvariant, StepErrors, StepSorts, PTL DEF Spec

\* For every graph: what Validate accepts neither ParallelGroups nor TopologicalSort refuses
\* or stumbles over (Validate, ParallelGroups, TopologicalSort).
THEOREM AcceptedOrdered == Spec => []AcceptedIsOrdered
BY SortInvariant, PTL DEF KInv

\* For every graph with back-edges: the order TopologicalSort returns holds every node once,
\* and both ends of every forward edge in its direction.
THEOREM OrderCorrect == Spec => []OrderIsTopological
BY SortInvariant, PTL DEF KInv
=============================================================================
