----------------------------- MODULE Evaluation ------------------------------
(***************************************************************************)
(* What an expression evaluates to (engine/expression/eval.go).  A value   *)
(* is a kind and its content.  Whole numbers are int64 when an expression  *)
(* made them and float64 when they come out of JSON: inputs always do, and *)
(* for the distributed orchestrator so does every output of a node.  The   *)
(* conversions say which of the two a result is.                           *)
(*                                                                         *)
(* Left out: division, and the filters that look into strings or print     *)
(* JSON.  Numbers are whole and below a million, where %v starts to print  *)
(* a float64 in another form; strings come from a small set.               *)
(***************************************************************************)
EXTENDS Integers, Sequences, FiniteSets, TLC

Val(k, v) == [k |-> k, v |-> v]
Nil == Val("null", 0)
Bool(b) == Val("bool", b)
Int64(n) == Val("int", n)
Float(n) == Val("float", n)
Str(s) == Val("string", s)
Arr(s) == Val("array", s)
Map(f) == Val("map", f)
\* A slice that was declared and never appended to: an empty array here, null in JSON.
NilSlice == Val("nil slice", << >>)
\* An error, which ends the evaluation.
Err == Val("error", 0)

\* The characters that strings are made of, in their order.
Character == <<"0", "1", "2", "4", "9", "a", "b">>
CharacterAt(s, i) == CHOOSE c \in DOMAIN Character : Character[c] = SubSeq(s, i, i)

\* strconv.ParseInt, for strings without a sign, and the order of strings.
IsDigits(s) == s # "" /\ \A i \in 1 .. Len(s) : SubSeq(s, i, i) \notin {"a", "b"}
Digit == [c \in 1 .. 5 |-> CASE c = 1 -> 0 [] c = 2 -> 1 [] c = 3 -> 2 [] c = 4 -> 4 [] c = 5 -> 9]
RECURSIVE Numeral(_)
Numeral(s) == IF s = "" THEN 0
              ELSE 10 * Numeral(SubSeq(s, 1, Len(s) - 1)) + Digit[CharacterAt(s, Len(s))]
Less(s, t) ==
    \E n \in 0 .. Len(s) :
        /\ n < Len(t) /\ SubSeq(s, 1, n) = SubSeq(t, 1, n)
        /\ n < Len(s) => CharacterAt(s, n + 1) < CharacterAt(t, n + 1)

-----------------------------------------------------------------------------
(* The conversions.                                                        *)

IsArray(x) == x.k \in {"array", "nil slice"}
IsNumber(x) == x.k \in {"int", "float"}
IsNumeral(x) == x.k = "string" /\ IsDigits(x.v)

\* toFloat, toInt: both read numerals.
HasNumber(x) == IsNumber(x) \/ IsNumeral(x)
NumberIn(x) == IF IsNumber(x) THEN x.v ELSE Numeral(x.v)

\* Mutant: a number that came out of JSON is no index.
HasIndexOfInt(x) == x.k = "int" \/ IsNumeral(x)

HasIndex(x) == HasNumber(x)

\* isTruthy.
Truthy(x) ==
    CASE x.k = "null" -> FALSE
      [] x.k = "bool" -> x.v
      [] x.k = "string" -> x.v # ""
      [] IsNumber(x) -> x.v # 0
      [] IsArray(x) -> Len(x.v) > 0
      [] OTHER -> TRUE

\* The keys of a map, sorted.
Names(x) == CHOOSE s \in [1 .. Cardinality(DOMAIN x.v) -> DOMAIN x.v] :
                \A i, j \in DOMAIN s : i < j => Less(s[i], s[j])

\* Sprintf("%v"), as a sequence of pieces.  It prints a number as it prints its numeral.
RECURSIVE Printed(_), PrintedAll(_)
PrintedAll(s) == IF s = << >> THEN << >> ELSE Printed(s[1]) \o PrintedAll(Tail(s))
Printed(x) ==
    CASE x.k = "null" -> <<"<nil>">>
      [] x.k = "bool" -> <<IF x.v THEN "true" ELSE "false">>
      [] x.k = "string" -> <<x.v>>
      [] IsNumber(x) -> <<ToString(x.v)>>
      [] IsArray(x) -> <<"[">> \o PrintedAll(x.v) \o <<"]">>
      [] x.k = "map" -> <<"map[">> \o Names(x) \o PrintedAll([i \in DOMAIN Names(x) |-> x.v[Names(x)[i]]])
                          \o <<"]">>
      [] OTHER -> <<x.k>>

\* equals.
Equal(a, b) ==
    CASE a.k = "null" \/ b.k = "null" -> a.k = b.k
      [] IsNumber(a) /\ IsNumber(b) -> a.v = b.v
      [] OTHER -> Printed(a) = Printed(b)

\* compareOrd and the comparison of sort: numbers and numerals by value, strings by
\* character, and nothing else compares.
Comparable(a, b) == (HasNumber(a) /\ HasNumber(b)) \/ (a.k = "string" /\ b.k = "string")
Below(a, b) ==
    IF HasNumber(a) /\ HasNumber(b) THEN NumberIn(a) < NumberIn(b)
    ELSE a.k = "string" /\ b.k = "string" /\ Less(a.v, b.v)

\* numericBinOp: whole results of two int64 stay int64.
Arithmetic(a, b, n) ==
    IF ~HasNumber(a) \/ ~HasNumber(b) THEN Nil
    ELSE IF a.k = "int" /\ b.k = "int" THEN Int64(n) ELSE Float(n)

FieldOf(x, name) == IF x.k = "map" /\ name \in DOMAIN x.v THEN x.v[name] ELSE Nil

\* The remainder of Go has the sign of the dividend.
Remainder(a, b) == LET abs(n) == IF n < 0 THEN -n ELSE n
                   IN  (IF a < 0 THEN -1 ELSE 1) * (abs(a) % abs(b))

\* The operators that evaluate both sides.
Combine(op, a, b) ==
    LET x == NumberIn(a)
        y == NumberIn(b)
        joins == op = "+" /\ a.k = "string" /\ b.k = "string"
    IN  CASE joins -> Str(a.v \o b.v)
          [] op \in {"+", "-", "*"} /\ ~joins ->
                IF ~HasNumber(a) \/ ~HasNumber(b) THEN Nil
                ELSE Arithmetic(a, b, CASE op = "+" -> x + y [] op = "-" -> x - y [] OTHER -> x * y)
          [] op = "%" -> IF ~HasIndex(a) \/ ~HasIndex(b) THEN Nil
                         ELSE IF y = 0 THEN Nil ELSE Int64(Remainder(x, y))
          [] op = "==" -> Bool(Equal(a, b))
          [] op = "!=" -> Bool(~Equal(a, b))
          [] op = "<" -> Bool(Comparable(a, b) /\ Below(a, b))
          [] op = "<=" -> Bool(Comparable(a, b) /\ ~Below(b, a))
          [] op = ">" -> Bool(Comparable(a, b) /\ Below(b, a))
          [] op = ">=" -> Bool(Comparable(a, b) /\ ~Below(a, b))

\* evalIndex: a negative index counts from the end.
Element(x, i) ==
    IF ~IsArray(x) \/ ~HasIndex(i) THEN Nil
    ELSE LET n == IF NumberIn(i) < 0 THEN Len(x.v) + NumberIn(i) ELSE NumberIn(i)
         IN  IF n \in 0 .. Len(x.v) - 1 THEN x.v[n + 1] ELSE Nil

-----------------------------------------------------------------------------
(* The filters.                                                            *)

\* SliceStable of a short slice: insertion from the left.
RECURSIVE Sorted(_)
Sorted(s) ==
    IF s = << >> THEN << >>
    ELSE LET rest == Sorted(SubSeq(s, 1, Len(s) - 1))
             x == s[Len(s)]
             i == CHOOSE i \in 0 .. Len(rest) :
                     /\ \A j \in i + 1 .. Len(rest) : Below(x, rest[j])
                     /\ i > 0 => ~Below(x, rest[i])
         IN  SubSeq(rest, 1, i) \o <<x>> \o SubSeq(rest, i + 1, Len(rest))

RECURSIVE Flattened(_)
Flattened(s) ==
    IF s = << >> THEN << >>
    ELSE (IF IsArray(s[1]) THEN s[1].v ELSE <<s[1]>>) \o Flattened(Tail(s))

\* The first of those that print the same.
FirstOnes(s) ==
    LET kept == {i \in 1 .. Len(s) : \A j \in 1 .. i - 1 : Printed(s[j]) # Printed(s[i])}
    IN  [k \in 1 .. Cardinality(kept) |->
            s[CHOOSE i \in kept : Cardinality({j \in kept : j <= i}) = k]]

OrNilSlice(s) == IF s = << >> THEN NilSlice ELSE Arr(s)

RECURSIVE Total(_)
Total(s) == IF s = << >> THEN 0
            ELSE Total(Tail(s)) + (IF HasNumber(s[1]) THEN NumberIn(s[1]) ELSE 0)

\* min and max: nothing without a number in front; what is no number is passed over, and a
\* number in a string makes the result a float.
Extreme(s, isMax) ==
    LET numbers == {NumberIn(s[i]) : i \in {j \in 1 .. Len(s) : HasNumber(s[j])}}
        n == CHOOSE n \in numbers : \A m \in numbers : IF isMax THEN m <= n ELSE n <= m
    IN  IF s = << >> THEN Nil ELSE IF ~HasNumber(s[1]) THEN Nil
        ELSE IF \E i \in 1 .. Len(s) : HasNumber(s[i]) /\ s[i].k # "int" THEN Float(n) ELSE Int64(n)

\* An argument that is no number leaves the bound as it is.
Slice(s, args) ==
    LET from == IF Len(args) > 0 /\ HasIndex(args[1]) THEN NumberIn(args[1]) ELSE 0
        to == IF Len(args) > 1 /\ HasIndex(args[2]) THEN NumberIn(args[2]) ELSE Len(s)
    IN  SubSeq(s, (IF from < 0 THEN 0 ELSE from) + 1, IF to > Len(s) THEN Len(s) ELSE to)

Empty(x) ==
    CASE x.k = "null" -> TRUE
      [] x.k = "string" -> x.v = ""
      [] IsArray(x) -> x.v = << >>
      [] x.k = "bool" -> ~x.v
      [] IsNumber(x) -> x.v = 0
      [] OTHER -> FALSE

ArrayFilters == {"first", "last", "sum", "min", "max", "sort", "reverse", "flatten", "slice", "unique", "concat"}

\* The filters of arrays: anything else gives null.
OfArray(name, s, args) ==
    CASE name = "first" -> IF s = << >> THEN Nil ELSE s[1]
      [] name = "last" -> IF s = << >> THEN Nil ELSE s[Len(s)]
      [] name = "sum" -> IF \E i \in 1 .. Len(s) : HasNumber(s[i]) /\ s[i].k # "int"
                         THEN Float(Total(s)) ELSE Int64(Total(s))
      [] name = "min" -> Extreme(s, FALSE)
      [] name = "max" -> Extreme(s, TRUE)
      [] name = "sort" -> Arr(Sorted(s))
      [] name = "reverse" -> Arr([i \in 1 .. Len(s) |-> s[Len(s) + 1 - i]])
      [] name = "flatten" -> OrNilSlice(Flattened(s))
      [] name = "slice" -> Arr(Slice(s, args))
      [] name = "unique" -> OrNilSlice(FirstOnes(s))
      [] name = "concat" -> Arr(s \o Flattened(SelectSeq(args, IsArray)))

\* The others that need no lambda.
Plain(name, x, args) ==
    CASE name = "length" -> CASE x.k = "null" -> Int64(0)
                              [] IsArray(x) \/ x.k = "string" -> Int64(Len(x.v))
                              [] OTHER -> Nil
      [] name = "contains" /\ x.k = "string" ->
            LET part == IF args # << >> /\ args[1].k = "string" THEN args[1].v ELSE ""
            IN  Bool(args # << >> /\ \E i \in 0 .. Len(x.v) - Len(part) :
                                        SubSeq(x.v, i + 1, i + Len(part)) = part)
      [] name = "contains" /\ x.k # "string" -> Bool(IsArray(x) /\ args # << >>
                                     /\ \E i \in 1 .. Len(x.v) : Equal(x.v[i], args[1]))
      [] name = "keys" -> IF x.k = "map" THEN Arr([i \in 1 .. Cardinality(DOMAIN x.v) |-> Str(Names(x)[i])]) ELSE Nil
      [] name = "values" -> IF x.k = "map" THEN Arr([i \in 1 .. Cardinality(DOMAIN x.v) |-> x.v[Names(x)[i]]]) ELSE Nil
      [] name = "round" -> IF HasNumber(x) THEN Int64(NumberIn(x)) ELSE Nil
      [] name = "has" -> Bool(x.k = "map" /\ args # << >> /\ args[1].k = "string"
                                /\ args[1].v \in DOMAIN x.v)
      [] name = "toInt" -> CASE HasNumber(x) -> Int64(NumberIn(x))
                             [] x.k = "bool" -> Int64(IF x.v THEN 1 ELSE 0)
                             [] OTHER -> Nil
      [] name = "toFloat" -> IF HasNumber(x) THEN Float(NumberIn(x)) ELSE Nil
      [] name = "toBool" -> Bool(Truthy(x))
      [] name = "isEmpty" -> Bool(Empty(x))
      [] name = "default" -> IF x.k # "null" THEN x ELSE IF args = << >> THEN Nil ELSE args[1]
      [] OTHER -> Err

-----------------------------------------------------------------------------
(* EvalExpr.  "vars" has the lambda's variables and the context's maps.    *)

Bind(vars, name, x) == (name :> x) @@ vars

RECURSIVE EvalExpr(_, _)

EvalAll(es, vars) == [i \in 1 .. Len(es) |-> EvalExpr(es[i], vars)]
Failed(s) == \E i \in 1 .. Len(s) : s[i].k = "error"

\* map and filter: a lambda is applied to every element in a scope of its own.
Applied(name, x, args, vars) ==
    LET fn == args[1].v
        results == [i \in 1 .. Len(x.v) |-> EvalExpr(fn.args[1], Bind(vars, fn.word, x.v[i]))]
        chosen == {i \in 1 .. Len(x.v) : Truthy(results[i])}
    IN  IF ~IsArray(x) THEN Nil
        ELSE IF args = << >> THEN x
        ELSE IF args[1].k = "lambda"
             THEN IF Failed(results) THEN Err
                  ELSE IF name = "map" THEN Arr(results)
                  ELSE Arr([k \in 1 .. Cardinality(chosen) |->
                               x.v[CHOOSE i \in chosen : Cardinality({j \in chosen : j <= i}) = k]])
        ELSE IF name = "map" /\ args[1].k = "string"
             THEN Arr([i \in 1 .. Len(x.v) |-> FieldOf(x.v[i], args[1].v)])
        ELSE x

\* applyFilter.
Filter(name, x, argTrees, vars) ==
    LET args == EvalAll(argTrees, vars)
    IN  IF x.k = "error" \/ Failed(args) THEN Err
        ELSE IF name \in {"map", "filter"} THEN Applied(name, x, args, vars)
        ELSE IF name \in ArrayFilters THEN IF IsArray(x) THEN OfArray(name, x.v, args) ELSE Nil
        ELSE Plain(name, x, args)

EvalExpr(e, vars) ==
    LET arg(i) == EvalExpr(e.args[i], vars)
        first == arg(1)
        all == EvalAll(e.args, vars)
    IN  CASE e.op = "literal" -> e.word
          [] e.op = "ident" -> IF e.word \in DOMAIN vars THEN vars[e.word] ELSE Nil
          [] e.op = "=>" -> Val("lambda", e)
          [] e.op = "call" ->
                IF e.args[1].op = "ident" /\ Len(e.args) > 1
                THEN Filter(e.args[1].word, Nil, Tail(e.args), vars) ELSE Nil
          [] e.op = "array" -> IF Failed(all) THEN Err ELSE Arr(all)
          \* Of two entries with one key the later one counts.
          [] e.op = "object" ->
                LET values == EvalAll([i \in DOMAIN e.args |-> e.args[i].args[1]], vars)
                    Last(n) == CHOOSE i \in DOMAIN e.args :
                                  e.args[i].word = n /\ \A j \in DOMAIN e.args : e.args[j].word = n => j <= i
                IN  IF Failed(values) THEN Err
                    ELSE Map([n \in {e.args[i].word : i \in DOMAIN e.args} |-> values[Last(n)]])
          [] first.k = "error" -> Err
          [] e.op \in {".", "?."} -> FieldOf(first, e.word)
          [] e.op = "!" -> Bool(~Truthy(first))
          [] e.op = "&&" -> IF Truthy(first) THEN arg(2) ELSE first
          [] e.op = "||" -> IF Truthy(first) THEN first ELSE arg(2)
          [] e.op = "??" -> IF first.k # "null" THEN first ELSE arg(2)
          [] e.op = "?:" -> IF Truthy(first) THEN arg(2) ELSE arg(3)
          [] e.op = "|" -> Filter(e.word, first, Tail(e.args), vars)
          [] arg(2).k = "error" -> Err
          [] e.op = "index" -> Element(first, arg(2))
          [] OTHER -> Combine(e.op, first, arg(2))

\* Eval: the expression is parsed already, and no variable of a lambda is bound yet.
Eval(e, context) == EvalExpr(e, context)

-----------------------------------------------------------------------------
\* A value on its way through JSON, as an output of a node of the distributed orchestrator.
RECURSIVE ThroughJSON(_)
ThroughJSON(x) ==
    CASE x.k = "int" -> Float(x.v)
      [] x.k = "array" -> Arr([i \in 1 .. Len(x.v) |-> ThroughJSON(x.v[i])])
      [] x.k = "map" -> Map([n \in DOMAIN x.v |-> ThroughJSON(x.v[n])])
      [] x.k = "nil slice" -> Nil
      [] OTHER -> x

\* Equality, kind by kind.
RECURSIVE Same(_, _)
Same(a, b) ==
    /\ a.k = b.k
    /\ CASE a.k = "array" -> Len(a.v) = Len(b.v) /\ \A i \in 1 .. Len(a.v) : Same(a.v[i], b.v[i])
         [] a.k = "map" -> DOMAIN a.v = DOMAIN b.v /\ \A n \in DOMAIN a.v : Same(a.v[n], b.v[n])
         [] OTHER -> a.v = b.v

\* Whether a value holds a slice that JSON makes null of.
RECURSIVE NullInJSON(_)
NullInJSON(x) ==
    CASE x.k = "nil slice" -> TRUE
      [] x.k = "array" -> \E i \in 1 .. Len(x.v) : NullInJSON(x.v[i])
      [] OTHER -> FALSE

=============================================================================
