------------------------------ MODULE MCGraph -------------------------------
(* Small graphs for TLC.                                                   *)
EXTENDS GraphRun

Link(s, p, d, dp) == [src |-> s, port |-> p, dst |-> d, dport |-> dp, back |-> FALSE]
Back(s, p, d, dp) == [src |-> s, port |-> p, dst |-> d, dport |-> dp, back |-> TRUE]

Bound(n, no, p, f) == [node |-> n, no |-> no, port |-> p, field |-> f]

\* Two conditionals in one group with a node that retries; what one of them leaves out may
\* hang on the other.  One branch holds a node of a type nobody knows, one an approval,
\* which always fails:
\*     start -> ask, pick, gate;  pick.yes -> call, odd;  pick.no, gate.in -> shape;
\*     gate.out -> sign;  ask, call, shape, sign -> answer
BranchNode == {"start", "ask", "pick", "gate", "call", "odd", "shape", "sign", "answer"}
BranchKind == [start |-> "input", ask |-> "llm", pick |-> "conditional", gate |-> "conditional",
               call |-> "tool", odd |-> "unknown", shape |-> "transform",
               sign |-> "human_in_the_loop", answer |-> "output"]
BranchEdge == {Link("start", "out", "ask", "in"), Link("start", "out", "pick", "value"),
               Link("start", "out", "gate", "value"),
               Link("pick", "yes", "call", "in"), Link("pick", "yes", "odd", "in"),
               Link("pick", "no", "shape", "a"), Link("gate", "in", "shape", "b"),
               Link("gate", "out", "sign", "in"),
               Link("ask", "out", "answer", "a"), Link("call", "out", "answer", "b"),
               Link("shape", "out", "answer", "c"), Link("sign", "out", "answer", "d")}
BranchPort == [n \in BranchNode |->
    CASE n = "pick" -> {"yes", "no"} [] n = "gate" -> {"in", "out"} [] OTHER -> {"out"}]
BranchGroup == <<{"start"}, {"ask", "pick", "gate"}, {"call", "odd", "shape", "sign"}, {"answer"}>>
BranchOrder == <<"start", "ask", "pick", "gate", "call", "odd", "shape", "sign", "answer">>
BranchRetries == [n \in BranchNode |-> IF n = "ask" THEN 1 ELSE 0]
BranchWrite == {Bound("ask", 1, "out", "log"), Bound("pick", 1, "yes", "log"),
                Bound("call", 1, "out", "log"), Bound("call", 2, "out", "last")}

NoEdges == << >>
NoLimit == [e \in BranchEdge |-> 1]

\* A loop that is left from the middle of its body:
\*     start -> draft -> judge;  judge.again -> revise;  judge.stop -> publish;
\*     revise -> draft is the back-edge.
LoopNode == {"start", "draft", "judge", "revise", "publish"}
LoopKind == [start |-> "input", draft |-> "foreach", judge |-> "conditional",
             revise |-> "transform", publish |-> "output"]
LoopBack == Back("revise", "out", "draft", "in")
LoopEdge == {Link("start", "out", "draft", "in"), Link("draft", "out", "judge", "value"),
             Link("judge", "again", "revise", "in"), Link("judge", "stop", "publish", "in"), LoopBack}
LoopPort == [n \in LoopNode |-> IF n = "judge" THEN {"again", "stop"} ELSE {"out"}]
LoopGroup == <<{"start"}, {"draft"}, {"judge"}, {"revise", "publish"}>>
LoopOrder == <<"start", "draft", "judge", "revise", "publish">>
LoopBackEdges == <<LoopBack>>
LoopLimit == [e \in LoopEdge |-> 2]
LoopRetries == [n \in LoopNode |-> 0]
LoopWrite == {Bound("draft", 1, "out", "log"), Bound("draft", 2, "out", "log"),
              Bound("publish", 1, "out", "log"), Bound("revise", 1, "out", "last")}

=============================================================================
