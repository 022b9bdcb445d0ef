------------------------------ MODULE Templates -------------------------------
(***************************************************************************)
(* The block structure of prompt templates (engine/expression/template.go),*)
(* over pieces: what stands between two tags is one piece of text, a tag   *)
(* is a piece of its kind, and "unclosed" an opening {{ without }} after   *)
(* it.  Outcome is the other direction, a pushdown automaton that the      *)
(* recursive parser is checked against.                                    *)
(***************************************************************************)
EXTENDS Integers, Sequences

Pieces == {"text", "expr", "#if", "#else", "/if", "#each", "/each", "raw", "/raw", "unclosed"}

Node(kind, body, else) == [kind |-> kind, body |-> body, else |-> else]
Leaf(kind) == Node(kind, << >>, << >>)

\* What parseTemplateInner returns.  Its error is one of its own, or elseResult, which
\* carries the nodes of the other branch; "loops" is the call that never returns.
Returned(err, nodes, else, next) == [err |-> err, nodes |-> nodes, else |-> else, next |-> next]
Nodes(nodes, next) == Returned("none", nodes, << >>, next)
Error == Returned("error", << >>, << >>, 0)
Loops == Returned("loops", << >>, << >>, 0)

\* The first {{/raw}} from position i, or 0.
RawEnd(s, i) ==
    LET ends == {j \in i .. Len(s) : s[j] = "/raw"}
    IN  IF ends = {} THEN 0 ELSE CHOOSE j \in ends : \A k \in ends : j <= k


\* Mutant: a block of any kind takes the #else.
AnyElse(s, i, end) == end # "" /\ s[i] = "#else"

OwnElse(s, i, end) == end = "/if" /\ s[i] = "#else"

RECURSIVE Inner(_, _, _, _)

\* parseTemplateInner from piece i, with "nodes" read so far, up to the tag "end".
Inner(s, i, end, nodes) ==
    LET More(node, next) == Inner(s, next, end, Append(nodes, node))
    IN  IF i > Len(s) THEN IF end # "" THEN Error ELSE Nodes(nodes, i)
        ELSE IF s[i] = "unclosed" THEN Error
        ELSE IF end # "" /\ s[i] = end THEN Nodes(nodes, i + 1)
        ELSE IF OwnElse(s, i, end)
             THEN LET other == Inner(s, i + 1, "/if", << >>)
                  IN  CASE other.err = "none" -> Returned("else", nodes, other.nodes, other.next)
                        [] other.err = "else" -> [other EXCEPT !.nodes = << >>, !.next = 0]
                        [] OTHER -> other
        ELSE IF s[i] = "#if"
             THEN LET body == Inner(s, i + 1, "/if", << >>)
                  IN  CASE body.err \notin {"none", "else"} -> body
                        \* The position an error comes with is the template's first.
                        [] body.err \in {"none", "else"} /\ body.next = 0 -> Loops
                        [] OTHER -> More(Node("#if", body.nodes, body.else), body.next)
        ELSE IF s[i] = "#each"
             THEN LET body == Inner(s, i + 1, "/each", << >>)
                  IN  IF body.err = "none" THEN More(Node("#each", body.nodes, << >>), body.next)
                      ELSE body
        ELSE IF s[i] = "raw"
             THEN LET j == RawEnd(s, i + 1)
                  IN  IF j = 0 THEN Error
                      ELSE More(Node("raw", SubSeq(s, i + 1, j - 1), << >>), j + 1)
        \* An end tag of another block is an expression like any tag that opens none.
        ELSE More(Leaf(s[i]), i + 1)

\* parseTemplate.
Parsed(s) == Inner(s, 1, "", << >>)

-----------------------------------------------------------------------------
\* The pieces of some nodes, one after the other.
RECURSIVE Written(_)
Written(nodes) ==
    IF nodes = << >> THEN << >>
    ELSE LET n == nodes[1]
             text == CASE n.kind = "#if" ->
                             <<"#if">> \o Written(n.body)
                               \o (IF n.else = << >> THEN << >> ELSE <<"#else">> \o Written(n.else))
                               \o <<"/if">>
                       [] n.kind = "#each" -> <<"#each">> \o Written(n.body) \o <<"/each">>
                       [] n.kind = "raw" -> <<"raw">> \o n.body \o <<"/raw">>
                       [] OTHER -> <<n.kind>>
         IN  text \o Written(Tail(nodes))

\* The nodes do not keep an #else that nothing follows.
KeepsElse(s) == \A i \in 1 .. Len(s) - 1 : ~(s[i] = "#else" /\ s[i + 1] = "/if")

\* Reads the pieces with a stack of the open blocks: an #if, one with an #else, one with
\* more of them, an #each, or a raw block, where nothing counts but its end.
RECURSIVE Outcome(_, _)
Outcome(s, open) ==
    LET top == IF open = << >> THEN "" ELSE open[1]
        Pop == IF open = << >> THEN open ELSE Tail(open)
        Go(stack) == Outcome(Tail(s), stack)
    IN  IF s = << >> THEN IF open = << >> THEN "none" ELSE "error"
        ELSE IF top = "raw" THEN IF s[1] = "/raw" THEN Go(Pop) ELSE Go(open)
        ELSE
        CASE s[1] = "unclosed" -> "error"
          [] s[1] \in {"#if", "#each", "raw"} -> Go(<<s[1]>> \o open)
          [] s[1] = "/if" /\ top \in {"#if", "else"} -> Go(Pop)
          [] s[1] = "/if" /\ top = "elses" -> "loops"
          [] s[1] = "#else" /\ top = "#if" -> Go(<<"else">> \o Pop)
          [] s[1] = "#else" /\ top \in {"else", "elses"} -> Go(<<"elses">> \o Pop)
          [] s[1] = "/each" /\ top = "#each" -> Go(Pop)
          [] OTHER -> Go(open)

=============================================================================
