---------------------------- MODULE MCInProcess -----------------------------
(* Small graphs for the in-process orchestrator.                           *)
EXTENDS InProcess

Link(s, p, d, dp) == [src |-> s, port |-> p, dst |-> d, dport |-> dp, back |-> FALSE]
Back(s, p, d, dp) == [src |-> s, port |-> p, dst |-> d, dport |-> dp, back |-> TRUE]

Bound(n, no, p, f) == [node |-> n, no |-> no, port |-> p, field |-> f]

\* A conditional in one group with a foreach, two overlapping loops behind them:
\*     start -> each, pick;  pick.yes -> call;  each, call, pick.no -> judge;
\*     judge.stop -> answer -> last;
\*     judge -> each and call -> pick are the back-edges.
TwoNode == {"start", "each", "pick", "call", "judge", "answer", "last"}
TwoKind == [start |-> "input", each |-> "foreach", pick |-> "conditional", call |-> "tool",
            judge |-> "conditional", answer |-> "transform", last |-> "output"]
TwoBack == <<Back("judge", "again", "each", "items"), Back("call", "out", "pick", "value")>>
TwoEdge == {Link("start", "out", "each", "items"), Link("start", "out", "pick", "value"),
            Link("pick", "yes", "call", "in"), Link("pick", "no", "judge", "c"),
            Link("each", "out", "judge", "value"), Link("call", "out", "judge", "b"),
            Link("judge", "stop", "answer", "in"),
            Link("answer", "out", "last", "in"), TwoBack[1], TwoBack[2]}
TwoPort == [n \in TwoNode |->
    CASE n = "pick" -> {"yes", "no"} [] n = "judge" -> {"again", "stop"} [] OTHER -> {"out"}]
TwoGroup == <<{"start"}, {"each", "pick"}, {"call"}, {"judge"}, {"answer"}, {"last"}>>
TwoOrder == <<"start", "each", "pick", "call", "judge", "answer", "last">>
TwoLimit == [e \in TwoEdge |-> 1]
TwoWrite == {Bound("each", 1, "out", "log"), Bound("pick", 1, "no", "log"),
             Bound("call", 1, "out", "log"), Bound("call", 2, "out", "log"),
             Bound("call", 3, "out", "last")}

\* The target of the back-edge has no forward edge, and comes before the input in
\* graph.Nodes, so in the topological order as well:
\*     seed, start -> join;  join -> seed is the back-edge.
SeedNode == {"seed", "start", "odd", "join"}
SeedKind == [seed |-> "transform", start |-> "input", odd |-> "unknown", join |-> "output"]
SeedBack == <<Back("join", "out", "seed", "in")>>
SeedEdge == {Link("seed", "out", "join", "a"), Link("start", "out", "join", "b"),
             Link("start", "out", "odd", "in"), SeedBack[1]}
SeedPort == [n \in SeedNode |-> {"out"}]
SeedGroup == <<{"seed", "start"}, {"join", "odd"}>>
SeedOrder == <<"seed", "start", "join", "odd">>
SeedLimit == [e \in SeedEdge |-> 2]

\* A loop that is entered by its back-edge alone, its first value being read from the state:
\*     first -> pick, note;  pick.stop, start -> last;  pick.again -> first is the back-edge.
EntryNode == {"start", "first", "pick", "note", "last"}
EntryKind == [start |-> "input", first |-> "transform", pick |-> "conditional",
              note |-> "transform", last |-> "output"]
EntryBack == <<Back("pick", "again", "first", "in")>>
EntryEdge == {Link("first", "out", "pick", "value"), Link("first", "out", "note", "in"),
              Link("pick", "stop", "last", "a"), Link("start", "out", "last", "b"), EntryBack[1]}
EntryPort == [n \in EntryNode |-> IF n = "pick" THEN {"again", "stop"} ELSE {"out"}]
EntryGroup == <<{"start", "first"}, {"pick", "note"}, {"last"}>>
EntryOrder == <<"start", "first", "pick", "note", "last">>
EntryLimit == [e \in EntryEdge |-> 1]

=============================================================================
