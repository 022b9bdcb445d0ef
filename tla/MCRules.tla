------------------------------ MODULE MCRules -------------------------------
(***************************************************************************)
(* What the engine computes rather than coordinates, on small instances:   *)
(* the checks and orders of graphs, step by step (GraphOrder); the tools of*)
(* an agent, call by call (Toolbox); and, as states of their own that have *)
(* no successor, expressions, values, templates and configurations.        *)
(***************************************************************************)
EXTENDS GraphOrder, Toolbox, TLC

VARIABLE subject        \* what is looked at: its kind and itself

E == INSTANCE Expression
V == INSTANCE Evaluation
T == INSTANCE Templates
C == INSTANCE Validation

-----------------------------------------------------------------------------
(* Graphs: four nodes with four forward edges between them and a back-edge; *)
(* three nodes with up to three edges of any kind; fewer nodes, or one of   *)
(* them twice, with up to two.                                              *)

NodeOf(k, in) == [id |-> k, input |-> in]
FourNodes == <<NodeOf("a", TRUE), NodeOf("b", FALSE), NodeOf("c", FALSE), NodeOf("d", FALSE)>>
ThreeNodes == <<NodeOf("a", TRUE), NodeOf("b", FALSE), NodeOf("c", FALSE)>>
FewNodes == {<< >>, <<NodeOf("a", TRUE)>>, <<NodeOf("a", TRUE), NodeOf("b", FALSE), NodeOf("a", FALSE)>>,
             <<NodeOf("a", FALSE), NodeOf("b", FALSE)>>, <<NodeOf("b", FALSE), NodeOf("a", TRUE)>>}
Link(s, d) == [src |-> s, dst |-> d, back |-> FALSE, guarded |-> FALSE]
Between(S) == {Link(e[1], e[2]) : e \in {f \in S \X S : f[1] # f[2]}}
Self == {Link(n, n) : n \in {"a", "b"}}
Back(S) == [src : S, dst : S, back : {TRUE}, guarded : {TRUE}]
Unguarded == [src : {"c"}, dst : {"a"}, back : {TRUE}, guarded : {FALSE}]
Again == [src |-> "d", dst |-> "a", back |-> TRUE, guarded |-> TRUE]
Lists(S, k) == UNION {[1 .. i -> S] : i \in 0 .. k}

SmallGraphs ==
    [nodes : {FourNodes}, edges : {Append(f, Again) : f \in [1 .. 4 -> Between(ID)]}]
      \cup [nodes : {ThreeNodes}, edges : Lists(Between({"a", "b", "c"}) \cup Self
                                                  \cup Back({"a", "b", "c"}) \cup Unguarded, 3)]
      \cup [nodes : FewNodes, edges : Lists(Between({"a", "b", "c"}) \cup Self \cup Unguarded, 2)]

-----------------------------------------------------------------------------
(* Expressions: every operator with every other as one of its operands, and *)
(* a third level below some.                                                *)

Tree(op, word, args) == E!Tree(op, word, args)
X == E!Leaf("ident", <<"x">>)
Leaves == {X, E!Leaf("int", <<"-", "1">>), E!Leaf("float", <<"1", ".", "2">>), E!Leaf("null", E!Null),
           E!Leaf("string", <<"\\", "n", "\"">>), E!Leaf("bool", E!True)}
Shapes(S, R) ==
    UNION {{Tree(op, << >>, <<a, b>>), Tree(op, << >>, <<b, a>>)} :
              op \in {"??", "||", "&&", "==", ">", "+", "-", "*", "index", "call"}, a \in S, b \in R}
      \cup UNION {{Tree("|", <<"f">>, <<a, b>>), Tree("|", <<"f">>, <<b, a>>),
                   Tree("array", << >>, <<a, b>>), Tree("array", << >>, <<b, a>>),
                   Tree("?:", << >>, <<a, b, b>>), Tree("?:", << >>, <<b, a, b>>),
                   Tree("?:", << >>, <<b, b, a>>)} : a \in S, b \in R}
      \cup UNION {{Tree("|", <<"f">>, <<a>>), Tree("!", << >>, <<a>>), Tree(".", <<"k">>, <<a>>),
                   Tree("?.", <<"k">>, <<a>>), Tree("=>", <<"x">>, <<a>>), Tree("call", << >>, <<a>>),
                   Tree("array", << >>, <<a>>),
                   Tree("object", << >>, <<Tree(":", <<"k">>, <<a>>)>>)} : a \in S}
      \cup {Tree("array", << >>, << >>), Tree("object", << >>, << >>)}
TwoLevels == Shapes(Leaves, {X}) \cup Leaves
Expressions == Shapes(TwoLevels, {X})
Deeper == Shapes(Shapes(Shapes({X}, {X}), {X}), {X})

-----------------------------------------------------------------------------
(* Values: what a node makes of its inputs, and what the next one makes of  *)
(* that.                                                                    *)

Inputs == {V!Nil, V!Bool(TRUE), V!Float(0), V!Float(2), V!Str(""), V!Str("9"), V!Str("a"), V!Arr(<< >>),
           V!Arr(<<V!Float(1), V!Str("1"), V!Nil>>), V!Arr(<<V!Str("10"), V!Float(9), V!Str("b")>>),
           V!Arr(<<V!Arr(<<V!Float(2), V!Float(1)>>), V!Arr(<< >>)>>),
           V!Arr(<<V!Map([n \in {"a"} |-> V!Float(1)]), V!Map([n \in {"a", "b"} |-> V!Nil])>>),
           V!Map([n \in {"a", "b"} |-> IF n = "a" THEN V!Float(0) ELSE V!Str("1")])}

Lit(x) == Tree("literal", x, << >>)
Ident(n) == Tree("ident", n, << >>)
Pipe(e, f, args) == Tree("|", f, <<e>> \o args)
Two(op, a, b) == Tree(op, << >>, <<a, b>>)
Lambda(body) == Tree("=>", "y", <<body>>)
One == Lit(V!Int64(1))
Forms(e) ==
    {Pipe(e, f, << >>) : f \in {"length", "first", "last", "sum", "min", "max", "sort", "reverse", "flatten",
                                "unique", "keys", "values", "round", "toInt", "toFloat", "toBool",
                                "isEmpty", "map", "slice", "default"}}
      \cup {Pipe(e, f, <<a>>) : f \in {"contains", "concat", "slice", "default"},
                                a \in {One, Lit(V!Str("1")), e, Tree("array", << >>, <<One>>)}}
      \cup {Pipe(e, "has", <<Lit(V!Str("a"))>>), Pipe(e, "map", <<Lit(V!Str("a"))>>),
            Pipe(e, "map", <<Lambda(Two("+", Ident("y"), One))>>),
            Pipe(e, "map", <<Lambda(Two("==", Ident("y"), Ident("nothing")))>>),
            Pipe(e, "filter", <<Lambda(Ident("y"))>>),
            Pipe(e, "filter", <<Lambda(Two("<", Ident("y"), Lit(V!Str("9"))))>>)}
      \cup {Two(op, e, a) : op \in {"+", "-", "%", "==", "!=", "<", "<=", ">", ">=", "&&", "||", "??", "index"},
                            a \in {One, Lit(V!Str("1")), e}}
      \cup {Two("index", e, Lit(V!Int64(-1))), Two("index", Tree("array", << >>, <<One, e>>), e),
            Two("%", e, Lit(V!Int64(0))), Tree("!", << >>, <<e>>), Tree(".", "a", <<e>>),
            Tree("call", << >>, <<Ident("default"), e>>), Tree("?:", << >>, <<e, One, e>>),
            Tree("array", << >>, <<e, One>>), Tree("object", << >>, <<Tree(":", "a", <<e>>), Tree(":", "a", <<One>>)>>),
            Two("==", e, Tree("array", << >>, <<One>>)), Two("*", e, Lit(V!Int64(-2))), One}

-----------------------------------------------------------------------------
(* Templates of up to five pieces, and six of the commoner ones.  Text does  *)
(* not come twice in a row, and an unclosed tag is the last.                *)

Template(s) ==
    \A i \in 1 .. Len(s) - 1 : s[i] # "unclosed" /\ (s[i] = "text" => s[i + 1] # "text")
Templates == {s \in Lists(T!Pieces, 5)
                      \cup [1 .. 6 -> {"text", "#if", "#else", "/if", "#each", "/each"}] : Template(s)}

-----------------------------------------------------------------------------
(* Configurations: all values of the fields that are checked together, the  *)
(* others as in one that is fine.                                           *)

Limits == {C!Unset, C!Num(0), C!Num(1)}
Routes == [mcp : BOOLEAN, tool : BOOLEAN, endpoint : BOOLEAN, timeout : Limits, compacted : BOOLEAN]
Refs == [tool : BOOLEAN, endpoint : BOOLEAN]
LLMs ==
    [routes : {<< >>} \cup {<<r>> : r \in Routes}, fromState : {"unset", "field", "missing"},
     fromInput : BOOLEAN, routingPort : BOOLEAN, apiTools : {<< >>} \cup {<<r>> : r \in Refs},
     maxCalls : {C!Unset, C!Num(0)}, maxIterations : {C!Unset, C!Num(0)}, choice : {"unset", "unknown"}]

Skill == [name |-> TRUE, description |-> TRUE, mcp |-> TRUE, tool |-> FALSE, endpoints |-> FALSE,
          compacted |-> FALSE]
Memory == [enabled |-> FALSE, field |-> FALSE, read |-> FALSE, write |-> FALSE]
CodeLimits == {"time", "memory", "output", "code", "calls", "runs"}
NoCode == [enabled |-> FALSE] @@ [l \in CodeLimits |-> "unset"]
Fine == [given |-> {"prompt", "provider", "model", "key"}, skills |-> <<Skill>>, hasOutput |-> TRUE,
         maxIterations |-> C!Unset, maxTotalToolCalls |-> C!Unset, maxToolCallsPerIteration |-> C!Unset,
         timeout |-> C!Unset, maxToolLoopRounds |-> C!Unset, history |-> "unset", memory |-> Memory,
         override |-> [provider |-> FALSE, model |-> FALSE], window |-> C!Unset, threshold |-> C!Unset,
         code |-> NoCode]
Superagents ==
    {[Fine EXCEPT !.given = g, !.hasOutput = o, !.history = h] :
         g \in SUBSET Fine.given, o \in BOOLEAN, h \in {"unset", "missing port"}}
      \cup {[Fine EXCEPT !.skills = s] : s \in Lists([DOMAIN Skill -> BOOLEAN], 1)
                                                \cup {<<Skill, s>> : s \in [DOMAIN Skill -> BOOLEAN]}}
      \cup {[Fine EXCEPT !.maxIterations = a, !.maxTotalToolCalls = b, !.maxToolCallsPerIteration = c,
                         !.timeout = d, !.maxToolLoopRounds = e, !.window = f] :
               a \in Limits, b \in Limits, c \in Limits, d \in Limits, e \in Limits, f \in Limits}
      \cup {[Fine EXCEPT !.memory = m, !.override = o, !.threshold = t] :
               m \in [DOMAIN Memory -> BOOLEAN], o \in [{"provider", "model"} -> BOOLEAN],
               t \in Limits \cup {C!Num(4), C!Num(5)}}
      \cup {[Fine EXCEPT !.code = [enabled |-> on] @@ l] :
               on \in BOOLEAN, l \in [CodeLimits -> {"unset", "zero", "too much"}]}

Inlines == [url : {"none", "bad", "good"}, method : {"none", "bad", "good"}, path : BOOLEAN]
APITools == [tool : BOOLEAN, endpoint : BOOLEAN, inline : {<< >>} \cup {<<e>> : e \in Inlines}]
Ports == [declared : BOOLEAN, required : BOOLEAN, default : BOOLEAN, edges : SUBSET {"forward", "back"},
          read : {"none", "field", "missing"}]
Fields == [type : {"array", "object", "string"}, reducer : {"append", "merge", "replace"},
           initial : {"none", "array", "object", "string"}]

-----------------------------------------------------------------------------
Idle == /\ graph = [nodes |-> << >>, edges |-> << >>] /\ pc = "rejected" /\ errors = {} /\ warned = {}
           /\ color = [n \in ID |-> "white"] /\ path = << >> /\ next = << >> /\ root = 1
           /\ hasCycle = FALSE /\ groups = << >> /\ remaining = {}
           /\ inDegree = [n \in ID |-> 0] /\ queue = << >> /\ order = << >> /\ at = 1

NoBox == /\ state = Empty /\ phase = [a \in Agent |-> "absent"]
         /\ memory = [a \in Agent |-> Empty] /\ own = [a \in Agent |-> Empty]
         /\ buffers = [a \in Agent |-> Empty] /\ tasks = [a \in Agent |-> << >>]
         /\ outputs = [a \in Agent |-> Empty] /\ before = [a \in Agent |-> {}]

RulesInit ==
    \/ subject = [kind |-> "graph"] /\ Init /\ NoBox
    \/ subject = [kind |-> "toolbox"] /\ Idle /\ BoxInit
    \/ subject \in [kind : {"expression", "value", "template", "llm", "superagent", "api_tool", "port", "field"}]
          /\ Idle /\ NoBox

Take(kind, S) == subject = [kind |-> kind] /\ subject' \in [kind : {kind}, of : S]
Is(kind) == subject.kind = kind /\ "of" \in DOMAIN subject

RulesNext ==
    \/ subject.kind = "graph" /\ Next /\ UNCHANGED <<subject, boxVars>>
    \/ subject.kind = "toolbox" /\ BoxNext /\ UNCHANGED <<subject, vars>>
    \/ /\ \/ Take("expression", [e : Expressions, apart : BOOLEAN] \cup [e : Deeper, apart : {FALSE}])
          \/ Take("value", [input : Inputs, first : Forms(Ident("v")), then : Forms(Ident("x"))])
          \/ Take("template", Templates)
          \/ Take("llm", LLMs) \/ Take("superagent", Superagents) \/ Take("api_tool", APITools)
          \/ Take("port", Ports) \/ Take("field", Fields)
       /\ UNCHANGED <<vars, boxVars>>

RulesSpec == RulesInit /\ [][RulesNext]_<<subject, vars, boxVars>>

-----------------------------------------------------------------------------
\* Parsing what the grammar writes for a tree gives the tree back: the operators bind as the
\* table of docs/expressions/overview.md says, to the side they should, with blanks between
\* the tokens and without; signs, lambdas and nested forms end where they do.  One row of
\* the table the code does not keep and the grammar here does not take from it: a pipe
\* behind a ternary belongs to its last branch (lex, parsePipe down to parsePrimary;
\* README.md, "Where documentation and code part").
ParsesBack ==
    Is("expression") =>
        LET r == E!Parse(E!Unparsed(subject.of.e, subject.of.apart)) IN r.ok /\ r.e = subject.of.e

\* An expression of a downstream node means the same in both orchestrators: whether the
\* value it works on came straight from the expression before or through JSON, where its
\* whole numbers become floats, the results are equally true and the same as JSON.  A null
\* that JSON made of an empty slice is the exception (EvalExpr, isTruthy, toInt, equals).
SameAcrossJSON ==
    Is("value") =>
        LET x == V!Eval(subject.of.first, [v |-> subject.of.input])
            straight == V!Eval(subject.of.then, [x |-> x])
            through == V!Eval(subject.of.then, [x |-> V!ThroughJSON(x)])
        IN  x.k = "error" \/ V!NullInJSON(x)
              \/ /\ V!Truthy(straight) = V!Truthy(through)
                 /\ V!Same(V!ThroughJSON(straight), V!ThroughJSON(through))

\* A template is accepted if and only if its blocks are nested, each piece is then in the
\* place it was written in, and the parser does not return when an #if that is closed has
\* a second #else (parseTemplateInner).
TemplatesParse ==
    Is("template") =>
        LET s == subject.of
            r == T!Parsed(s)
        IN  /\ r.err = T!Outcome(s, << >>)
            /\ r.err = "none" /\ T!KeepsElse(s) => T!Written(r.nodes) = s

\* What Validate accepts both orchestrators can start on, but for the gaps that have a
\* name, each of which is one (validate.go; resolveToolRouting, dispatchAPIToolNode,
\* resolveInputs, applyStateWrites).
AcceptedStarts ==
    (\E k \in {"llm", "superagent", "api_tool", "port", "field"} : Is(k)) /\ C!Errors(subject) = {} =>
        (C!Gaps(subject) = {} <=> C!RunsInWorker(subject) /\ C!RunsInProcess(subject))

-----------------------------------------------------------------------------
\* Two agents with a memory, each its own namespace, and one with tasks and buffers.
SpaceOf == [a \in {"m1", "m2", "b"} |-> a]
UsesOf == [a \in {"m1", "m2", "b"} |-> IF a = "b" THEN {"tasks", "buffers"} ELSE {"memory"}]

=============================================================================
