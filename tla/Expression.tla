----------------------------- MODULE Expression ------------------------------
(***************************************************************************)
(* The expressions of conditions, transforms and templates                 *)
(* (engine/expression): the lexer, over characters, and the recursive-     *)
(* descent parser, over tokens.  A character is a string of length one, a  *)
(* word a sequence of them.  Unparsed is the other direction, from a tree   *)
(* to its text: it is what the parser is checked against.  Its operators   *)
(* bind as the table of docs/expressions/overview.md says, but for the     *)
(* pipe, which is tighter than a ternary in the code and looser in the     *)
(* table.  Evaluation has what the trees mean.                             *)
(***************************************************************************)
EXTENDS Integers, Sequences

\* A tree: the operator or kind, its word (a name, a literal), its operands.
Tree(op, word, args) == [op |-> op, word |-> word, args |-> args]
Leaf(op, word) == Tree(op, word, << >>)

Digits == {"0", "1", "2"}
Letters == {"_", "@", "x", "s", "f", "k", "t", "r", "u", "e", "n", "l", "a"}
Quotes == {"\"", "'"}

\* The tokens with a spelling of their own.
TwoChars == {"==", "!=", ">=", "<=", "&&", "||", "??", "?.", "=>"}
OneChar == {".", "[", "]", "(", ")", "{", "}", ",", ":", "|", ">", "<", "!", "+", "-", "*", "/",
            "%", "?"}
Spelling(t) ==
    CASE t = "==" -> <<"=", "=">> [] t = "!=" -> <<"!", "=">> [] t = ">=" -> <<">", "=">>
      [] t = "<=" -> <<"<", "=">> [] t = "&&" -> <<"&", "&">> [] t = "||" -> <<"|", "|">>
      [] t = "??" -> <<"?", "?">> [] t = "?." -> <<"?", ".">> [] t = "=>" -> <<"=", ">">>
      [] OTHER -> <<t>>

True == <<"t", "r", "u", "e">>
Null == <<"n", "u", "l", "l">>

-----------------------------------------------------------------------------
(* The lexer.  A text it refuses has no tokens but Bad.                    *)

Token(t, word) == [t |-> t, word |-> word]
Bad == <<Token("bad", << >>)>>

\* Where the run of characters of C that starts at i ends.
RunEnd(s, i, C) ==
    CHOOSE j \in i .. Len(s) + 1 :
        (\A k \in i .. j - 1 : s[k] \in C) /\ (j <= Len(s) => s[j] \notin C)

DigitAt(s, i) == i <= Len(s) /\ s[i] \in Digits

\* lexNumber: a dot belongs to the number when a digit follows it.
NumberEnd(s, i) ==
    LET d == RunEnd(s, IF s[i] = "-" THEN i + 1 ELSE i, Digits)
    IN  IF d <= Len(s) /\ s[d] = "." /\ DigitAt(s, d + 1) THEN RunEnd(s, d + 1, Digits) ELSE d

\* lexString: the text from i to the closing quote q.
RECURSIVE StringFrom(_, _, _, _)
StringFrom(s, i, q, text) ==
    IF i > Len(s) THEN [ok |-> FALSE, text |-> text, next |-> i]
    ELSE IF s[i] = "\\" /\ i < Len(s)
         THEN LET escaped == CASE s[i + 1] = "n" -> <<"\n">>
                               [] s[i + 1] = "t" -> <<"\t">>
                               [] s[i + 1] \in Quotes \cup {"\\"} -> <<s[i + 1]>>
                               [] OTHER -> <<"\\", s[i + 1]>>
              IN  StringFrom(s, i + 2, q, text \o escaped)
    ELSE IF s[i] = q THEN [ok |-> TRUE, text |-> text, next |-> i + 1]
    ELSE StringFrom(s, i + 1, q, Append(text, s[i]))

\* isNegativeNumberContext: after these a minus is a sign.
BeforeSign == {"(", "[", ",", ":", "|", "=>", "==", "!=", ">", ">=", "<", "<=", "&&", "||", "!",
               "+", "-", "*", "/", "%", "??", "?"}

Sign(s, i, tokens) ==
    s[i] = "-" /\ DigitAt(s, i + 1) /\ (tokens = << >> \/ tokens[Len(tokens)].t \in BeforeSign)

Number(word) == Token(IF \E k \in 1 .. Len(word) : word[k] = "." THEN "float" ELSE "int", word)
Word(word) == Token(IF word = True THEN "bool" ELSE IF word = Null THEN "null" ELSE "ident", word)

\* lex.
RECURSIVE LexFrom(_, _, _)
LexFrom(s, i, tokens) ==
    LET Take(token, next) == LexFrom(s, next, Append(tokens, token))
        Starts(T) == {t \in T : i + Len(Spelling(t)) - 1 <= Len(s)
                                  /\ SubSeq(s, i, i + Len(Spelling(t)) - 1) = Spelling(t)}
        Operator(T) == LET t == CHOOSE t \in Starts(T) : TRUE
                       IN  Take(Token(t, << >>), i + Len(Spelling(t)))
    IN  IF i > Len(s) THEN tokens
        ELSE IF s[i] = " " THEN LexFrom(s, i + 1, tokens)
        ELSE IF s[i] \in Quotes
             THEN LET r == StringFrom(s, i + 1, s[i], << >>)
                  IN  IF r.ok THEN Take(Token("string", r.text), r.next) ELSE Bad
        ELSE IF s[i] \in Digits \/ Sign(s, i, tokens)
             THEN Take(Number(SubSeq(s, i, NumberEnd(s, i) - 1)), NumberEnd(s, i))
        ELSE IF s[i] \in Letters
             THEN LET j == RunEnd(s, i, Letters \cup Digits) IN Take(Word(SubSeq(s, i, j - 1)), j)
        ELSE IF Starts(TwoChars) # {} THEN Operator(TwoChars)
        ELSE IF Starts(OneChar) # {} THEN Operator(OneChar)
        ELSE Bad

Lex(s) == LexFrom(s, 1, << >>)

-----------------------------------------------------------------------------
(* The parser: what was read from position i, and where it ends.           *)

Read(e, next) == [ok |-> TRUE, e |-> e, next |-> next]
Fail == [ok |-> FALSE, e |-> << >>, next |-> 0]
Then(r, Go(_)) == IF r.ok THEN Go(r) ELSE Fail
At(s, i) == IF i <= Len(s) THEN s[i].t ELSE "eof"
Expect(s, r, t) == Then(r, LAMBDA q : IF At(s, q.next) = t THEN Read(q.e, q.next + 1) ELSE Fail)

\* The binary operators, loosest first.
Binary == << {"??"}, {"||"}, {"&&"}, {"==", "!="}, {">", ">=", "<", "<="}, {"+", "-"},
             {"*", "/", "%"} >>

RECURSIVE Expr(_, _), Pipes(_, _), Operators(_, _, _), More(_, _, _), Unary(_, _),
          Postfix(_, _), Items(_, _, _, _, _)

\* parseArgList and the lists of arrays and objects: comma-separated up to the bracket.
Items(s, i, close, keyed, got) ==
    IF got = << >> /\ At(s, i) = close THEN Read(<< >>, i + 1)
    ELSE LET key == keyed /\ At(s, i) \in {"ident", "string"} /\ At(s, i + 1) = ":"
             item == IF ~keyed THEN Expr(s, i)
                     ELSE IF ~key THEN Fail
                     ELSE Then(Expr(s, i + 2), LAMBDA r : Read(Tree(":", s[i].word, <<r.e>>), r.next))
         IN  Then(item, LAMBDA r :
                 IF At(s, r.next) = ","
                 THEN Items(s, r.next + 1, close, keyed, Append(got, r.e))
                 ELSE IF At(s, r.next) = close THEN Read(Append(got, r.e), r.next + 1)
                 ELSE Fail)

\* parsePrimary.
Primary(s, i) ==
    LET t == At(s, i)
    IN  CASE t \in {"string", "int", "float", "bool", "null"} -> Read(Leaf(t, s[i].word), i + 1)
          [] t = "ident" ->
                IF At(s, i + 1) = "=>"
                THEN Then(Expr(s, i + 2), LAMBDA r : Read(Tree("=>", s[i].word, <<r.e>>), r.next))
                ELSE Read(Leaf("ident", s[i].word), i + 1)
          [] t = "(" -> Expect(s, Expr(s, i + 1), ")")
          [] t = "[" -> Then(Items(s, i + 1, "]", FALSE, << >>),
                             LAMBDA r : Read(Tree("array", << >>, r.e), r.next))
          [] t = "{" -> Then(Items(s, i + 1, "}", TRUE, << >>),
                             LAMBDA r : Read(Tree("object", << >>, r.e), r.next))
          [] OTHER -> Fail

\* parsePostfix: a method call is a filter.
Postfix(s, left) ==
    Then(left, LAMBDA r :
        LET t == At(s, r.next)
            Args(i, Node(_)) ==
                Postfix(s, Then(Items(s, i, ")", FALSE, << >>), LAMBDA q : Read(Node(q.e), q.next)))
        IN  CASE t = "." ->
                    IF At(s, r.next + 1) # "ident" THEN Fail
                    ELSE IF At(s, r.next + 2) = "("
                         THEN Args(r.next + 3, LAMBDA a : Tree("|", s[r.next + 1].word, <<r.e>> \o a))
                         ELSE Postfix(s, Read(Tree(".", s[r.next + 1].word, <<r.e>>), r.next + 2))
              [] t = "?." ->
                    IF At(s, r.next + 1) # "ident" THEN Fail
                    ELSE Postfix(s, Read(Tree("?.", s[r.next + 1].word, <<r.e>>), r.next + 2))
              [] t = "[" ->
                    Postfix(s, Then(Expect(s, Expr(s, r.next + 1), "]"),
                                    LAMBDA q : Read(Tree("index", << >>, <<r.e, q.e>>), q.next)))
              [] t = "(" -> Args(r.next + 1, LAMBDA a : Tree("call", << >>, <<r.e>> \o a))
              [] OTHER -> r)

\* parseUnary.
Unary(s, i) ==
    IF At(s, i) = "!"
    THEN Then(Unary(s, i + 1), LAMBDA r : Read(Tree("!", << >>, <<r.e>>), r.next))
    ELSE Postfix(s, Primary(s, i))

\* Mutant: operators of one level group to the right.
MoreRight(s, level, left) ==
    Then(left, LAMBDA r :
        IF At(s, r.next) \in Binary[level]
        THEN Then(Operators(s, level, r.next + 1), LAMBDA q :
                 Read(Tree(At(s, r.next), << >>, <<r.e, q.e>>), q.next))
        ELSE r)

\* parseNullCoalesce down to parseMultiplication: one function for each level.
More(s, level, left) ==
    Then(left, LAMBDA r :
        IF At(s, r.next) \in Binary[level]
        THEN Then(Operators(s, level + 1, r.next + 1), LAMBDA q :
                 More(s, level, Read(Tree(At(s, r.next), << >>, <<r.e, q.e>>), q.next)))
        ELSE r)

Operators(s, level, i) ==
    IF level > Len(Binary) THEN Unary(s, i) ELSE More(s, level, Operators(s, level + 1, i))

\* parseTernary: both branches are whole expressions.
Ternary(s, i) ==
    Then(Operators(s, 1, i), LAMBDA c :
        IF At(s, c.next) # "?" THEN c
        ELSE Then(Expect(s, Expr(s, c.next + 1), ":"), LAMBDA t :
                 Then(Expr(s, t.next), LAMBDA f :
                     Read(Tree("?:", << >>, <<c.e, t.e, f.e>>), f.next))))

\* parsePipe.
Pipes(s, left) ==
    Then(left, LAMBDA r :
        IF At(s, r.next) # "|" THEN r
        ELSE IF At(s, r.next + 1) # "ident" THEN Fail
        ELSE IF At(s, r.next + 2) # "("
             THEN Pipes(s, Read(Tree("|", s[r.next + 1].word, <<r.e>>), r.next + 2))
        ELSE Pipes(s, Then(Items(s, r.next + 3, ")", FALSE, << >>), LAMBDA q :
                          Read(Tree("|", s[r.next + 1].word, <<r.e>> \o q.e), q.next))))

Expr(s, i) == Pipes(s, Ternary(s, i))

\* Parse: nothing may be left over.
Parse(s) ==
    LET tokens == Lex(s)
    IN  Then(Expr(tokens, 1), LAMBDA r : IF At(tokens, r.next) = "eof" THEN r ELSE Fail)

-----------------------------------------------------------------------------
(* The grammar, from a tree to its text.                                   *)

\* How tightly an expression holds together: the table of docs/expressions/overview.md
\* from "??" to access.  A ternary and a lambda are open at their end and take in all that
\* follows, a pipe as well; that is parseTernary's, the table has the pipe below them.
Binds(e) ==
    CASE e.op \in {"?:", "=>"} -> 1
      [] e.op = "|" -> 2
      [] \E k \in 1 .. Len(Binary) : e.op \in Binary[k] ->
            2 + CHOOSE k \in 1 .. Len(Binary) : e.op \in Binary[k]
      [] e.op = "!" -> 10
      [] e.op \in {".", "?.", "index", "call"} -> 11
      [] OTHER -> 12

Op(t) == <<Token(t, << >>)>>

\* The tokens of a tree with no more parentheses than it needs to stand where something
\* is expected that binds as tightly as "least".
RECURSIVE Tokens(_, _), Listed(_)
Listed(items) ==
    IF items = << >> THEN << >>
    ELSE Tokens(items[1], 1) \o (IF Len(items) = 1 THEN << >> ELSE Op(",") \o Listed(Tail(items)))

Tokens(e, least) ==
    LET name == <<Token("ident", e.word)>>
        Rest == SubSeq(e.args, 2, Len(e.args))
        Called == IF Rest = << >> THEN << >> ELSE Op("(") \o Listed(Rest) \o Op(")")
        text ==
          CASE e.op = "?:" -> Tokens(e.args[1], 3) \o Op("?") \o Tokens(e.args[2], 1)
                              \o Op(":") \o Tokens(e.args[3], 1)
            [] e.op = "=>" -> name \o Op("=>") \o Tokens(e.args[1], 1)
            [] e.op = "|" -> Tokens(e.args[1], 2) \o Op("|") \o name \o Called
            [] e.op = "!" -> Op("!") \o Tokens(e.args[1], 10)
            [] e.op \in {".", "?."} -> Tokens(e.args[1], 11) \o Op(e.op) \o name
            [] e.op = "index" -> Tokens(e.args[1], 11) \o Op("[") \o Tokens(e.args[2], 1) \o Op("]")
            [] e.op = "call" -> Tokens(e.args[1], IF e.args[1].op = "." THEN 12 ELSE 11)
                                \o Op("(") \o Listed(Rest) \o Op(")")
            [] e.op = "array" -> Op("[") \o Listed(e.args) \o Op("]")
            [] e.op = "object" -> Op("{") \o Listed(e.args) \o Op("}")
            [] e.op = ":" -> <<Token("string", e.word)>> \o Op(":") \o Tokens(e.args[1], 1)
            [] e.args = << >> -> <<Token(e.op, e.word)>>
            [] OTHER -> Tokens(e.args[1], Binds(e)) \o Op(e.op) \o Tokens(e.args[2], Binds(e) + 1)
    IN  IF Binds(e) < least THEN Op("(") \o text \o Op(")") ELSE text

RECURSIVE Escaped(_)
Escaped(word) ==
    IF word = << >> THEN << >>
    ELSE (IF word[1] \in Quotes \cup {"\\"} THEN <<"\\", word[1]>> ELSE <<word[1]>>) \o Escaped(Tail(word))

Spelled(token) ==
    IF token.t = "string" THEN <<"\"">> \o Escaped(token.word) \o <<"\"">>
    ELSE IF token.word = << >> THEN Spelling(token.t) ELSE token.word

\* The text, with the tokens apart or not.
RECURSIVE Text(_, _)
Text(tokens, apart) ==
    IF tokens = << >> THEN << >>
    ELSE Spelled(tokens[1]) \o (IF apart THEN <<" ">> ELSE << >>) \o Text(Tail(tokens), apart)

Unparsed(e, apart) == Text(Tokens(e, 1), apart)

=============================================================================
