-------------------------- MODULE SuperagentProofs --------------------------
(***************************************************************************)
(* Proofs about the superagent of the distributed engine, for any limits,  *)
(* tools, ports, runs of the task and faults: a handler pops the answer to *)
(* its own request, the node keeps the promise of module AgentPromise, and *)
(* the model is sent an answer to every tool call of the agent.            *)
(***************************************************************************)
EXTENDS Superagent, Integers, Sequences, SequenceTheorems, TLAPS

-----------------------------------------------------------------------------
(* Short lists, written out.                                               *)

\* What is first in a short list, and what follows.
LEMMA Lists ==
    /\ \A a : Head(<<a>>) = a /\ Tail(<<a>>) = << >>
    /\ \A a, b : Head(<<a, b>>) = a /\ Tail(<<a, b>>) = <<b>>
    /\ \A a, b, c : Head(<<a, b, c>>) = a /\ Tail(<<a, b, c>>) = <<b, c>>
OBVIOUS

\* Nothing joined to one element.
LEMMA JoinNone == ASSUME NEW a PROVE <<a>> \o << >> = <<a>> /\ << >> \o <<a>> = <<a>>
OBVIOUS

\* One element joined to one.
LEMMA JoinPair == ASSUME NEW a, NEW b PROVE <<a>> \o <<b>> = <<a, b>>
<1> DEFINE S == {a, b}
<1> DEFINE t == <<a>> \o <<b>>
<1>1. <<a>> \in Seq(S) /\ <<b>> \in Seq(S)
    OBVIOUS
<1>2. t \in Seq(S) /\ Len(t) = 2 /\ t[1] = a /\ t[2] = b
    BY <1>1
<1>3. <<a, b>> \in Seq(S) /\ Len(<<a, b>>) = 2
    OBVIOUS
<1> HIDE DEF t
<1>4. t = [i \in 1 .. 2 |-> t[i]] /\ <<a, b>> = [i \in 1 .. 2 |-> <<a, b>>[i]]
    BY <1>2, <1>3
<1>5. \A i \in 1 .. 2 : t[i] = <<a, b>>[i]
    BY <1>2
<1> QED
    BY <1>4, <1>5 DEF t

\* Two elements joined to one.
LEMMA JoinTriple == ASSUME NEW a, NEW b, NEW c PROVE <<a, b>> \o <<c>> = <<a, b, c>>
<1> DEFINE S == {a, b, c}
<1> DEFINE t == <<a, b>> \o <<c>>
<1>1. <<a, b>> \in Seq(S) /\ <<c>> \in Seq(S)
    OBVIOUS
<1>2. t \in Seq(S) /\ Len(t) = 3 /\ t[1] = a /\ t[2] = b /\ t[3] = c
    BY <1>1
<1>3. <<a, b, c>> \in Seq(S) /\ Len(<<a, b, c>>) = 3
    OBVIOUS
<1> HIDE DEF t
<1>4. t = [i \in 1 .. 3 |-> t[i]] /\ <<a, b, c>> = [i \in 1 .. 3 |-> <<a, b, c>>[i]]
    BY <1>2, <1>3
<1>5. \A i \in 1 .. 3 : t[i] = <<a, b, c>>[i]
    BY <1>2
<1> QED
    BY <1>4, <1>5 DEF t

-----------------------------------------------------------------------------
(* The conversation.                                                       *)

IsCalls(e) == Asks(e)
IsTool(e) == Answers(e)
Count(e) == e.n

\* A conversation the last k calls of which have no answer yet.  Answers without their
\* call are there only once a compaction has been.
Open(m, k) ==
    /\ m \in Seq(Message) /\ Len(m) >= 2 /\ m[1] = System
    /\ k \in Nat
    /\ \A i \in 1 .. Len(m) : IsCalls(m[i]) =>
        /\ i + Count(m[i]) <= Len(m) + k
        /\ \A j \in i + 1 .. i + Count(m[i]) : j <= Len(m) => IsTool(m[j])
    /\ k > 0 => \E i \in 1 .. Len(m) : IsCalls(m[i]) /\ i + Count(m[i]) = Len(m) + k

Seam(m) ==
    \A j \in 1 .. Len(m) : Orphan(m, j) =>
        /\ \A h \in 3 .. j : IsTool(m[h])
        /\ Len(m) >= PreserveRecent + 2

Talk(m, k) == Open(m, k) /\ Seam(m)

LEMMA MessageFacts ==
    /\ {System, User, Text, ToolAnswer} \subseteq Message
    /\ \A n \in Nat : Calls(n) \in Message
    /\ \A e \in Message : Count(e) \in Nat
    /\ ~ IsCalls(System) /\ ~ IsTool(System) /\ ~ IsCalls(User) /\ ~ IsTool(User)
    /\ ~ IsCalls(Text) /\ ~ IsTool(Text)
    /\ IsTool(ToolAnswer) /\ ~ IsCalls(ToolAnswer)
    /\ \A n \in Nat : IsCalls(Calls(n)) /\ ~ IsTool(Calls(n)) /\ Count(Calls(n)) = n
BY DEF Message, System, User, Text, ToolAnswer, Calls, IsCalls, IsTool, Asks, Answers, Counts, Count

LEMMA Said ==
    ASSUME NEW m \in Seq(Message), NEW i \in 1 .. Len(m)
    PROVE  m[i] \in Message /\ Count(m[i]) \in Nat
<1>1. m[i] \in Message
    OBVIOUS
<1> QED
    BY <1>1, MessageFacts

LEMMA OrphanIs ==
    ASSUME NEW m, NEW j
    PROVE  Orphan(m, j) <=>
            /\ IsTool(m[j])
            /\ ~ \E i \in 1 .. j - 1 : IsCalls(m[i]) /\ j \in i + 1 .. i + Count(m[i])
BY Zenon DEF Orphan, AnswersOf, IsCalls, IsTool, Count

\* Without open calls all are answered, and orphans are where a compaction cut.
LEMMA TalkSays ==
    ASSUME NEW m, Talk(m, 0)
    PROVE  AllAnswered(m) /\ OrphansAtSeam(m)
<1>1. DOMAIN m = 1 .. Len(m) /\ Len(m) \in Nat
    BY DEF Talk, Open
<1>2. ASSUME NEW i \in DOMAIN m, IsCalls(m[i]), NEW j \in i + 1 .. i + Count(m[i])
      PROVE  j \in DOMAIN m /\ IsTool(m[j])
    <2>1. m[i] \in Message /\ Count(m[i]) \in Nat /\ i + Count(m[i]) <= Len(m)
        BY <1>1, <1>2, MessageFacts DEF Talk, Open
    <2>2. j \in 1 .. Len(m)
        BY <1>1, <1>2, <2>1
    <2> QED
        BY <1>1, <1>2, <2>2 DEF Talk, Open
<1>3. AllAnswered(m)
    BY <1>2, Zenon DEF AllAnswered, AnswersOf, IsCalls, IsTool, Count
<1>4. OrphansAtSeam(m)
    BY <1>1, Zenon DEF Talk, Seam, OrphansAtSeam, IsTool
<1> QED
    BY <1>3, <1>4

LEMMA TalkSeam ==
    ASSUME NEW m, NEW k, Talk(m, k)
    PROVE  OrphansAtSeam(m)
<1>1. DOMAIN m = 1 .. Len(m)
    BY DEF Talk, Open
<1> QED
    BY <1>1, Zenon DEF Talk, Seam, OrphansAtSeam, IsTool

\* One message more.
Grown(m, e, t) ==
    /\ t \in Seq(Message) /\ Len(m) \in Nat /\ Len(t) = Len(m) + 1
    /\ \A i \in 1 .. Len(m) : t[i] = m[i]
    /\ t[Len(m) + 1] = e

LEMMA AppendGrows ==
    ASSUME NEW m \in Seq(Message), NEW e \in Message
    PROVE  Grown(m, e, Append(m, e))
BY AppendProperties DEF Grown

\* A message that is added makes no orphan of one before it.
LEMMA OrphansStay ==
    ASSUME NEW m, NEW e, NEW t, Grown(m, e, t), NEW j \in 1 .. Len(m), Orphan(t, j)
    PROVE  Orphan(m, j)
<1>1. \A i \in 1 .. j - 1 : t[i] = m[i]
    BY DEF Grown
<1> QED
    BY <1>1, OrphanIs DEF Grown

\* So the seam stays where it was, unless the message is an orphan itself.
LEMMA SeamStays ==
    ASSUME NEW m \in Seq(Message), NEW e, NEW t, Seam(m), Grown(m, e, t), ~ Orphan(t, Len(t))
    PROVE  Seam(t)
<1> SUFFICES ASSUME NEW j \in 1 .. Len(t), Orphan(t, j)
             PROVE  (\A h \in 3 .. j : IsTool(t[h])) /\ Len(t) >= PreserveRecent + 2
    BY DEF Seam
<1>1. j # Len(t)
    OBVIOUS
<1>2. j \in 1 .. Len(m)
    BY <1>1 DEF Grown
<1>3. Orphan(m, j)
    BY <1>2, OrphansStay
<1>4. (\A h \in 3 .. j : IsTool(m[h])) /\ Len(m) >= PreserveRecent + 2
    BY <1>2, <1>3 DEF Seam
<1>5. \A h \in 3 .. j : t[h] = m[h]
    BY <1>2 DEF Grown
<1> QED
    BY <1>4, <1>5, AgentRulesAssumption DEF Grown

\* Something is said that is neither a call nor an answer.
LEMMA TalkGoesOn ==
    ASSUME NEW m, NEW e, NEW t, Talk(m, 0), Grown(m, e, t), ~ IsCalls(e), ~ IsTool(e)
    PROVE  Talk(t, 0)
<1>1. \A i \in 1 .. Len(t) : i = Len(m) + 1 \/ (i \in 1 .. Len(m) /\ t[i] = m[i])
    BY DEF Grown
<1>2. ASSUME NEW i \in 1 .. Len(t), IsCalls(t[i])
      PROVE  /\ i + Count(t[i]) <= Len(t) + 0
             /\ \A j \in i + 1 .. i + Count(t[i]) : j <= Len(t) => IsTool(t[j])
    <2>1. i \in 1 .. Len(m) /\ t[i] = m[i]
        <3>1. i # Len(m) + 1
            BY <1>2 DEF Grown
        <3> QED
            BY <1>1, <3>1
    <2>2. m[i] \in Message /\ Count(m[i]) \in Nat
        BY <2>1, Said DEF Talk, Open
    <2>3. i + Count(m[i]) <= Len(m) + 0
        BY <1>2, <2>1, <2>2 DEF Talk, Open
    <2>4. \A j \in i + 1 .. i + Count(t[i]) : j \in i + 1 .. i + Count(m[i]) /\ j \in 1 .. Len(m)
        BY <2>1, <2>2, <2>3 DEF Grown
    <2>5. i + Count(t[i]) <= Len(t) + 0
        BY <2>1, <2>3, <2>2 DEF Grown
    <2>6. \A j \in i + 1 .. i + Count(t[i]) : t[j] = m[j] /\ IsTool(m[j])
        <3> SUFFICES ASSUME NEW j \in i + 1 .. i + Count(t[i]) PROVE t[j] = m[j] /\ IsTool(m[j])
            OBVIOUS
        <3>1. j \in i + 1 .. i + Count(m[i]) /\ j \in 1 .. Len(m) /\ j <= Len(m)
            BY <2>4
        <3>2. IsCalls(m[i])
            BY <1>2, <2>1
        <3> QED
            BY <2>1, <3>1, <3>2 DEF Talk, Open, Grown
    <2> QED
        BY <2>5, <2>6
<1>3. Open(t, 0)
    BY <1>2 DEF Talk, Open, Grown
<1>4. ~ Orphan(t, Len(t))
    BY OrphanIs DEF Grown
<1> QED
    BY <1>3, <1>4, SeamStays DEF Talk, Open

\* The model asks for k tools.
LEMMA TalkCalls ==
    ASSUME NEW m, NEW k \in Nat, NEW e, NEW t, Talk(m, 0), Grown(m, e, t), IsCalls(e), ~ IsTool(e),
           Count(e) = k
    PROVE  Talk(t, k)
<1>1. \A i \in 1 .. Len(t) : i = Len(m) + 1 \/ (i \in 1 .. Len(m) /\ t[i] = m[i])
    BY DEF Grown
<1>2. IsCalls(t[Len(t)]) /\ Count(t[Len(t)]) = k /\ Len(t) \in 1 .. Len(t) /\ Len(t) = Len(m) + 1
    BY DEF Grown
<1>3. ASSUME NEW i \in 1 .. Len(t), IsCalls(t[i])
      PROVE  /\ i + Count(t[i]) <= Len(t) + k
             /\ \A j \in i + 1 .. i + Count(t[i]) : j <= Len(t) => IsTool(t[j])
    <2>1. CASE i = Len(m) + 1
        BY <1>2, <2>1 DEF Grown
    <2>2. CASE i \in 1 .. Len(m) /\ t[i] = m[i]
        <3>0. m \in Seq(Message)
            BY DEF Talk, Open
        <3>1. m[i] \in Message /\ Count(m[i]) \in Nat
            BY <2>2, <3>0, ElementOfSeq, MessageFacts
        <3>2. i + Count(m[i]) <= Len(m) + 0
            BY <1>3, <2>2 DEF Talk, Open
        <3>3. \A j \in i + 1 .. i + Count(t[i]) : j \in i + 1 .. i + Count(m[i]) /\ j \in 1 .. Len(m)
            BY <2>2, <3>1, <3>2 DEF Grown
        <3> QED
            BY <1>1, <1>2, <1>3, <2>2, <3>1, <3>2, <3>3 DEF Talk, Open, Grown
    <2> QED
        BY <1>1, <2>1, <2>2
<1>4. \E i \in 1 .. Len(t) : IsCalls(t[i]) /\ i + Count(t[i]) = Len(t) + k
    BY <1>2
<1>5. Open(t, k)
    BY <1>3, <1>4 DEF Talk, Open, Grown
<1>6. ~ Orphan(t, Len(t))
    BY OrphanIs DEF Grown
<1> QED
    BY <1>5, <1>6, SeamStays DEF Talk, Open

\* The next open call is answered: the answer is not an orphan.
LEMMA TalkAnswers ==
    ASSUME NEW m, NEW k \in Nat, k > 0, NEW t, Talk(m, k), Grown(m, ToolAnswer, t)
    PROVE  Talk(t, k - 1)
<1>1. /\ \A i \in 1 .. Len(t) : i = Len(m) + 1 \/ (i \in 1 .. Len(m) /\ t[i] = m[i])
      /\ Len(t) = Len(m) + 1 /\ t[Len(m) + 1] = ToolAnswer /\ ~ IsCalls(ToolAnswer)
    BY MessageFacts DEF Grown
<1>2. PICK c \in 1 .. Len(m) : IsCalls(m[c]) /\ c + Count(m[c]) = Len(m) + k
    BY DEF Talk, Open
<1>3. m[c] \in Message /\ Count(m[c]) \in Nat /\ t[c] = m[c] /\ Len(m) \in Nat
    BY <1>2, MessageFacts DEF Talk, Open, Grown
<1>4. /\ c \in 1 .. Len(t) - 1 /\ Len(t) \in c + 1 .. c + Count(t[c])
      /\ c + Count(t[c]) = Len(t) + (k - 1) /\ k - 1 \in Nat
    BY <1>1, <1>2, <1>3
<1>5. ASSUME NEW i \in 1 .. Len(t), IsCalls(t[i])
      PROVE  /\ i + Count(t[i]) <= Len(t) + (k - 1)
             /\ \A j \in i + 1 .. i + Count(t[i]) : j <= Len(t) => IsTool(t[j])
    <2>1. i \in 1 .. Len(m) /\ t[i] = m[i]
        <3>1. i # Len(m) + 1
            BY <1>1, <1>5
        <3> QED
            BY <1>1, <3>1
    <2>2. m[i] \in Message /\ Count(m[i]) \in Nat
        BY <2>1, Said DEF Talk, Open
    <2>3. i + Count(m[i]) <= Len(m) + k
        BY <1>5, <2>1, <2>2 DEF Talk, Open
    <2>4. ASSUME NEW j \in i + 1 .. i + Count(t[i]), j <= Len(t) PROVE IsTool(t[j])
        <3>1. j \in i + 1 .. i + Count(m[i]) /\ (j \in 1 .. Len(m) \/ j = Len(m) + 1)
            BY <1>1, <1>3, <2>1, <2>2, <2>4
        <3>2. CASE j \in 1 .. Len(m)
            BY <1>1, <1>5, <2>1, <3>1, <3>2 DEF Talk, Open
        <3>3. CASE j = Len(m) + 1
            BY <1>1, <3>3, MessageFacts
        <3> QED
            BY <3>1, <3>2, <3>3
    <2> QED
        BY <1>1, <1>3, <2>1, <2>2, <2>3, <2>4
<1>6. \E i \in 1 .. Len(t) : IsCalls(t[i]) /\ i + Count(t[i]) = Len(t) + (k - 1)
    BY <1>1, <1>2, <1>3, <1>4
<1>7. Open(t, k - 1)
    BY <1>1, <1>3, <1>4, <1>5, <1>6 DEF Talk, Open, Grown
<1>8. ~ Orphan(t, Len(t))
    BY <1>2, <1>3, <1>4, OrphanIs
<1> QED
    BY <1>7, <1>8, SeamStays DEF Talk, Open

\* What a compaction makes of a conversation: all but its first d messages, behind the
\* prompt and the summary.
Cut(m, d, t) ==
    /\ t \in Seq(Message) /\ d \in 1 .. Len(m) /\ Len(t) = Len(m) - d + 2
    /\ t[1] = System /\ t[2] = System
    /\ \A i \in 3 .. Len(t) : t[i] = m[i - 2 + d]

LEMMA Joined ==
    ASSUME NEW m \in Seq(Message), NEW d \in 1 .. Len(m), NEW r \in Seq(Message),
           Len(r) = Len(m) - d, \A i \in 1 .. Len(r) : r[i] = m[i + d],
           NEW s \in Seq(Message), Len(s) = 2, s[1] = System, s[2] = System, NEW t, t = s \o r
    PROVE  Cut(m, d, t)
<1>1. /\ t \in Seq(Message) /\ Len(t) = Len(s) + Len(r)
      /\ \A i \in 1 .. Len(s) + Len(r) : t[i] = IF i <= Len(s) THEN s[i] ELSE r[i - Len(s)]
    BY ConcatProperties, Zenon
<1>2. Len(r) \in Nat /\ Len(m) \in Nat /\ Len(t) = Len(r) + 2
    BY <1>1
<1>3. t[1] = System /\ t[2] = System
    BY <1>1, <1>2
<1>4. \A i \in 3 .. Len(t) : t[i] = m[i - 2 + d]
    <2> TAKE i \in 3 .. Len(t)
    <2>1. i - 2 \in 1 .. Len(r) /\ i \in 1 .. Len(s) + Len(r) /\ ~ (i <= Len(s))
        BY <1>2
    <2>2. t[i] = r[i - 2]
        BY <1>1, <2>1
    <2> QED
        BY <2>1, <2>2
<1> QED
    BY <1>1, <1>2, <1>3, <1>4 DEF Cut

LEMMA Behind ==
    ASSUME NEW m \in Seq(Message), NEW d \in 1 .. Len(m), NEW r \in Seq(Message),
           Len(r) = Len(m) - d, \A i \in 1 .. Len(r) : r[i] = m[i + d]
    PROVE  Cut(m, d, <<System, System>> \o r)
<1>1. /\ <<System, System>> \in Seq(Message) /\ Len(<<System, System>>) = 2
      /\ <<System, System>>[1] = System /\ <<System, System>>[2] = System
    BY MessageFacts
<1> QED
    BY <1>1, Joined, Zenon

LEMMA CompactedCuts ==
    ASSUME NEW m \in Seq(Message), Len(m) >= 2
    PROVE  \E d \in 1 .. Len(m) :
            /\ Cut(m, d, Compacted(m))
            /\ Len(m) - d = PreserveRecent \/ (d = 1 /\ Len(m) <= PreserveRecent)
<1>1. PreserveRecent \in Nat /\ Len(m) \in Nat
    BY AgentRulesAssumption
<1>2. CASE PreserveRecent = 0
    <2>1. Compacted(m) = <<System, System>> \o << >>
        BY <1>2 DEF Compacted
    <2>2. Cut(m, Len(m), <<System, System>> \o << >>)
        <3>1. /\ << >> \in Seq(Message) /\ Len(m) \in 1 .. Len(m)
              /\ Len(<< >>) = Len(m) - Len(m)
              /\ \A i \in 1 .. Len(<< >>) : << >>[i] = m[i + Len(m)]
            BY <1>1
        <3> QED
            BY <3>1, Behind, Zenon
    <2> QED
        BY <1>1, <1>2, <2>1, <2>2
<1>3. CASE PreserveRecent > 0 /\ Len(m) > PreserveRecent
    <2> DEFINE d == Len(m) - PreserveRecent
               r == SubSeq(m, d + 1, Len(m))
    <2>1. Compacted(m) = <<System, System>> \o r
        BY <1>1, <1>3 DEF Compacted
    <2>2. d \in 1 .. Len(m)
        BY <1>1, <1>3
    <2>3. /\ r \in Seq(Message) /\ Len(r) = Len(m) - d
          /\ \A i \in 1 .. Len(r) : r[i] = m[i + d]
        BY <1>1, <2>2, SubSeqProperties
    <2> HIDE DEF r
    <2>4. Cut(m, d, <<System, System>> \o r)
        BY <2>2, <2>3, Behind
    <2> QED
        BY <1>1, <2>1, <2>2, <2>4
<1>4. CASE PreserveRecent > 0 /\ Len(m) <= PreserveRecent
    <2> DEFINE r == Tail(m)
    <2>1. Compacted(m) = <<System, System>> \o r
        BY <1>1, <1>4 DEF Compacted
    <2>2. /\ r \in Seq(Message) /\ Len(r) = Len(m) - 1
          /\ \A i \in 1 .. Len(r) : r[i] = m[i + 1]
        BY <1>1, HeadTailProperties
    <2> HIDE DEF r
    <2>3. Cut(m, 1, <<System, System>> \o r)
        <3>1. 1 \in 1 .. Len(m)
            BY <1>1
        <3> QED
            BY <2>2, <3>1, Behind
    <2> QED
        BY <1>1, <1>4, <2>1, <2>3
<1> QED
    BY <1>1, <1>2, <1>3, <1>4

\* A round is cut at the seam at most: a call that is kept is kept with its answers, an
\* answer that is kept without its call is the first of what is kept, or follows one.
LEMMA TalkCut ==
    ASSUME NEW m, NEW d, NEW t, Talk(m, 0), Cut(m, d, t),
           Len(m) - d = PreserveRecent \/ (d = 1 /\ Len(m) <= PreserveRecent)
    PROVE  Talk(t, 0)
<1>1. /\ PreserveRecent \in Nat /\ Len(m) \in Nat /\ Len(t) \in Nat /\ d \in Nat /\ d >= 1
      /\ d <= Len(m) /\ Len(t) = Len(m) - d + 2 /\ m \in Seq(Message) /\ m[1] = System
    BY AgentRulesAssumption DEF Talk, Open, Cut
<1>2. ASSUME NEW i \in 1 .. Len(t), IsCalls(t[i]) \/ IsTool(t[i])
      PROVE  /\ i \in 3 .. Len(t) /\ i - 2 + d \in 1 .. Len(m) /\ t[i] = m[i - 2 + d]
             /\ Count(t[i]) \in Nat
    <2>1. i # 1 /\ i # 2
        BY <1>2, MessageFacts DEF Cut
    <2>2. i \in 3 .. Len(t) /\ i - 2 + d \in 1 .. Len(m)
        BY <1>1, <2>1
    <2>3. t[i] = m[i - 2 + d]
        BY <2>2 DEF Cut
    <2> QED
        BY <1>1, <2>2, <2>3, Said
<1>3. ASSUME NEW i \in 1 .. Len(t), IsCalls(t[i])
      PROVE  /\ i + Count(t[i]) <= Len(t) + 0
             /\ \A j \in i + 1 .. i + Count(t[i]) : j <= Len(t) => IsTool(t[j])
    <2> DEFINE q == i - 2 + d
    <2>1. i \in 3 .. Len(t) /\ q \in 1 .. Len(m) /\ t[i] = m[q] /\ Count(t[i]) \in Nat
        BY <1>2, <1>3
    <2>2. q + Count(m[q]) <= Len(m) + 0
        BY <1>3, <2>1 DEF Talk, Open
    <2>3. ASSUME NEW j \in i + 1 .. i + Count(t[i]), j <= Len(t) PROVE IsTool(t[j])
        <3>1. j \in 3 .. Len(t) /\ j - 2 + d \in q + 1 .. q + Count(m[q]) /\ j - 2 + d <= Len(m)
            <4> DEFINE n == Count(t[i])
            <4>1. n \in Nat /\ Count(m[q]) = n /\ j \in i + 1 .. i + n
                BY <2>1, <2>3
            <4> HIDE DEF n
            <4>2. j \in 3 .. Len(t) /\ j - 2 + d \in q + 1 .. q + n /\ j - 2 + d <= Len(m)
                BY <1>1, <2>1, <2>3, <4>1
            <4> QED
                BY <4>1, <4>2
        <3>2. t[j] = m[j - 2 + d]
            BY <3>1 DEF Cut
        <3>3. IsTool(m[j - 2 + d])
            BY <1>3, <2>1, <3>1 DEF Talk, Open
        <3> QED
            BY <3>2, <3>3
    <2> QED
        BY <1>1, <2>1, <2>2, <2>3
<1>4. Open(t, 0)
    <2>1. t \in Seq(Message) /\ Len(t) >= 2 /\ t[1] = System
        BY <1>1 DEF Cut
    <2> QED
        BY <1>3, <2>1 DEF Open
<1>5. ASSUME NEW j \in 1 .. Len(t), Orphan(t, j)
      PROVE  (\A h \in 3 .. j : IsTool(t[h])) /\ Len(t) >= PreserveRecent + 2
    <2> DEFINE q == j - 2 + d
    <2>1. /\ IsTool(t[j]) /\ j \in 3 .. Len(t) /\ q \in 1 .. Len(m) /\ t[j] = m[q]
          /\ ~ \E i \in 1 .. j - 1 : IsCalls(t[i]) /\ j \in i + 1 .. i + Count(t[i])
        BY <1>2, <1>5, OrphanIs
    <2>2. \A h \in 3 .. j : t[h] = m[h - 2 + d] /\ h - 2 + d \in 1 .. q
        <3> TAKE h \in 3 .. j
        <3>1. h \in 3 .. Len(t) /\ h - 2 + d \in 1 .. q
            BY <1>1, <2>1
        <3> QED
            BY <3>1 DEF Cut
    <2>3. CASE \E c \in 1 .. q - 1 : IsCalls(m[c]) /\ q \in c + 1 .. c + Count(m[c])
        <3>1. PICK c \in 1 .. q - 1 : IsCalls(m[c]) /\ q \in c + 1 .. c + Count(m[c])
            BY <2>3
        <3>2. c \in 1 .. Len(m) /\ Count(m[c]) \in Nat
            BY <1>1, <2>1, <3>1, Said
        <3>3. c <= d
            <4> SUFFICES ASSUME c > d PROVE FALSE
                BY <1>1, <3>2
            <4> DEFINE e == c - d + 2
            <4>1. e \in 3 .. j - 1 /\ e - 2 + d = c
                <5>1. c \in 1 .. q - 1
                    OBVIOUS
                <5>2. d \in Nat /\ j \in Nat /\ d >= 1
                    BY <1>1, <2>1
                <5> QED
                    BY <5>1, <5>2
            <4>2. t[e] = m[c]
                BY <2>2, <4>1
            <4> DEFINE n == Count(m[c])
            <4>3. n \in Nat /\ q \in c + 1 .. c + n
                BY <3>1, <3>2
            <4> HIDE DEF n
            <4>4. j \in e + 1 .. e + n
                BY <1>1, <2>1, <3>2, <4>1, <4>3
            <4> HIDE DEF e
            <4>5. e \in 1 .. j - 1 /\ IsCalls(t[e]) /\ j \in e + 1 .. e + Count(t[e])
                BY <3>1, <4>1, <4>2, <4>4 DEF n
            <4> QED
                BY <2>1, <4>5
        <3>4. c # 1
            BY <1>1, <3>1, MessageFacts
        <3>5. Len(t) >= PreserveRecent + 2
            BY <1>1, <3>2, <3>3, <3>4
        <3>6. ASSUME NEW h \in 3 .. j PROVE IsTool(t[h])
            <4>1. h - 2 + d \in c + 1 .. c + Count(m[c]) /\ h - 2 + d <= Len(m)
                BY <1>1, <2>1, <2>2, <3>1, <3>2, <3>3
            <4>2. IsTool(m[h - 2 + d])
                BY <3>1, <3>2, <4>1 DEF Talk, Open
            <4> QED
                BY <2>2, <4>2, MessageFacts
        <3> QED
            BY <3>5, <3>6
    <2>4. CASE ~ \E c \in 1 .. q - 1 : IsCalls(m[c]) /\ q \in c + 1 .. c + Count(m[c])
        <3>1. Orphan(m, q)
            BY <2>1, <2>4, OrphanIs
        <3>2. (\A h \in 3 .. q : IsTool(m[h])) /\ Len(m) >= PreserveRecent + 2
            BY <2>1, <3>1 DEF Talk, Seam
        <3>3. d >= 2 /\ Len(t) = PreserveRecent + 2
            BY <1>1, <3>2
        <3>4. ASSUME NEW h \in 3 .. j PROVE IsTool(t[h])
            <4>1. h - 2 + d \in 3 .. q
                BY <1>1, <2>1, <3>3
            <4> QED
                BY <2>2, <3>2, <4>1
        <3> QED
            BY <1>1, <3>3, <3>4
    <2> QED
        BY <2>3, <2>4
<1> QED
    BY <1>4, <1>5 DEF Talk, Seam

LEMMA TalkCompacted ==
    ASSUME NEW m, Talk(m, 0)
    PROVE  Talk(Compacted(m), 0)
<1>1. m \in Seq(Message) /\ Len(m) >= 2
    BY DEF Talk, Open
<1> QED
    BY <1>1, CompactedCuts, TalkCut

-----------------------------------------------------------------------------
USE AgentRulesAssumption, SuperagentAssumption

-----------------------------------------------------------------------------
(* The lists of the answers.                                               *)

\* As long as no run went to another process, the counter is past every key in use, and
\* the key of the request waited for is nobody else's.
OwnKeys ==
    /\ seq \in Nat
    /\ ~ moved =>
        /\ \A r \in queue \union answers : r.key \in 1 .. seq
        /\ wait # None =>
            /\ wait.key \in 1 .. seq
            /\ \A r \in queue \union answers : r.key = wait.key => r = wait

LEMMA InitKeys == Init => OwnKeys
BY DEF Init, OwnKeys

\* What becomes of the keys: a request is sent, answered, given up, or forgotten with the
\* run that sent it, or nothing of this is touched.
LEMMA SendKeys == ASSUME OwnKeys, Send, UNCHANGED moved PROVE OwnKeys'
<1> DEFINE r == [key |-> seq + 1, run |-> run, for |-> pc]
<1>1. r.key = seq + 1 /\ wait' = r /\ queue' = queue \union {r}
      /\ seq' = seq + 1 /\ answers' = answers
    BY DEF Send
<1> HIDE DEF r
<1> QED
    BY <1>1 DEF OwnKeys

LEMMA PopKeys == ASSUME OwnKeys, Pop, UNCHANGED moved PROVE OwnKeys'
BY DEF Pop, OwnKeys

LEMMA GiveUpKeys == ASSUME OwnKeys, NEW b, GiveUp(b), UNCHANGED moved PROVE OwnKeys'
BY DEF GiveUp, OwnKeys

LEMMA NoAnswerKeys == ASSUME OwnKeys, NEW b, NoAnswer(b), UNCHANGED moved PROVE OwnKeys'
BY PopKeys, GiveUpKeys DEF NoAnswer

LEMMA BeginKeys == ASSUME OwnKeys, NEW fresh \in BOOLEAN, Begin(fresh) PROVE OwnKeys'
BY DEF Begin, OwnKeys

LEMMA SameKeys == ASSUME OwnKeys, UNCHANGED <<callVars, moved>> PROVE OwnKeys'
BY DEF callVars, OwnKeys

LEMMA ServeKeys == ASSUME OwnKeys, NEW r, NEW again, Serve(r, again) PROVE OwnKeys'
BY DEF Serve, runVars, OwnKeys

LEMMA StepKeys == OwnKeys /\ [Next]_vars => OwnKeys'
<1> SUFFICES ASSUME OwnKeys, [Next]_vars PROVE OwnKeys'
    OBVIOUS
<1> USE DEF taskVars, runVars
<1>1. CASE Ask
    BY <1>1, SendKeys DEF Ask
<1>2. CASE Listed
    BY <1>2, PopKeys DEF Listed
<1>3. ASSUME NEW blank \in BOOLEAN, ModelText(blank) PROVE OwnKeys'
    BY <1>3, PopKeys DEF ModelText
<1>4. ASSUME NEW k \in 1 .. MaxBatch, ModelCalls(k) PROVE OwnKeys'
    BY <1>4, PopKeys DEF ModelCalls
<1>5. CASE MCPToolAnswered
    BY <1>5, PopKeys DEF MCPToolAnswered, ToolAnswered
<1>6. CASE APIToolAnswered
    BY <1>6, PopKeys DEF APIToolAnswered, ToolAnswered
<1>7. ASSUME NEW v \in Verdicts, Evaluated(v) PROVE OwnKeys'
    BY <1>7, PopKeys DEF Evaluated
<1>8. CASE Reflected
    BY <1>8, PopKeys DEF Reflected
<1>9. CASE Summarised
    BY <1>9, PopKeys DEF Summarised
<1>10. CASE Extracted
    BY <1>10, PopKeys DEF Extracted
<1>11. ASSUME NEW broken, Handler(broken) PROVE OwnKeys'
    <2>1. CASE ListFails(broken)
        BY <2>1, NoAnswerKeys DEF ListFails
    <2>2. CASE ModelFails(broken)
        BY <2>2, NoAnswerKeys DEF ModelFails
    <2>3. CASE ToolFails(broken)
        BY <2>3, GiveUpKeys DEF ToolFails
    <2>4. CASE CodeToolAnswered(broken)
        BY <2>4, NoAnswerKeys DEF CodeToolAnswered
    <2>5. CASE EvaluateFails(broken)
        BY <2>5, NoAnswerKeys DEF EvaluateFails
    <2>6. CASE ReflectFails(broken)
        BY <2>6, NoAnswerKeys DEF ReflectFails
    <2>7. CASE Flush(broken)
        BY <2>7, NoAnswerKeys, SameKeys DEF Flush
    <2>8. CASE SummaryFails(broken)
        BY <2>8, NoAnswerKeys DEF SummaryFails
    <2>9. CASE ExtractFails(broken)
        BY <2>9, NoAnswerKeys DEF ExtractFails
    <2> QED
        BY <1>11, <2>1, <2>2, <2>3, <2>4, <2>5, <2>6, <2>7, <2>8, <2>9 DEF Handler
<1>12. CASE StartLoop
    BY <1>12, SameKeys DEF StartLoop
<1>13. CASE BeginIteration
    BY <1>13, SameKeys DEF BeginIteration
<1>14. CASE CodeCallsTool
    BY <1>14, SameKeys DEF CodeCallsTool
<1>15. CASE CodeEnds
    BY <1>15, SameKeys DEF CodeEnds
<1>16. CASE BatchDone
    BY <1>16, SameKeys DEF BatchDone
<1>17. CASE Limits
    BY <1>17, SameKeys DEF Limits
<1>18. CASE Record
    BY <1>18, SameKeys DEF Record
<1>19. CASE Recorded
    BY <1>19, SameKeys DEF Recorded
<1>20. CASE NextIteration
    BY <1>20, SameKeys DEF NextIteration
<1>21. CASE LeaveLoop
    BY <1>21, SameKeys DEF LeaveLoop
<1>22. CASE ResolvePort
    BY <1>22, SameKeys DEF ResolvePort
<1>23. CASE ExtractPort
    BY <1>23, SameKeys DEF ExtractPort
<1>24. CASE OutputsDone
    BY <1>24, SameKeys DEF OutputsDone
<1>25. CASE Push
    BY <1>25, SameKeys DEF Push
<1>26. CASE SetupFails
    BY <1>26, SameKeys DEF SetupFails
<1>27. CASE TimeUp
    BY <1>27, SameKeys DEF TimeUp
<1>28. ASSUME NEW tool \in Tools, NEW tasks, NEW buffers, CallBuiltin(tool, tasks, buffers)
       PROVE  OwnKeys'
    BY <1>28, SameKeys DEF CallBuiltin
<1>29. ASSUME NEW tool \in Tools, CallUnknown(tool) PROVE OwnKeys'
    BY <1>29, SameKeys DEF CallUnknown
<1>30. ASSUME NEW tool \in Tools, CallTool(tool) PROVE OwnKeys'
    BY <1>30, SameKeys DEF CallTool
<1>31. ASSUME NEW tool \in Tools, RunCode(tool) PROVE OwnKeys'
    BY <1>31, SameKeys DEF RunCode
<1>32. ASSUME NEW over \in BOOLEAN, CheckSize(over) PROVE OwnKeys'
    BY <1>32, SameKeys DEF CheckSize
<1>33. ASSUME NEW fresh \in BOOLEAN, PushFails(fresh) PROVE OwnKeys'
    BY <1>33, BeginKeys, SameKeys DEF PushFails
<1>34. CASE Crash
    BY <1>34, BeginKeys DEF Crash
<1>35. ASSUME NEW r \in queue, NEW again \in BOOLEAN, Serve(r, again) PROVE OwnKeys'
    BY <1>35, ServeKeys DEF Next
<1>36. CASE UNCHANGED vars
    BY <1>36, SameKeys DEF vars, callVars
<1>37. CASE Progress
    BY <1>37, <1>1, <1>2, <1>3, <1>4, <1>5, <1>6, <1>7, <1>8, <1>9, <1>10, <1>11, <1>12, <1>13,
       <1>14, <1>15, <1>16, <1>17, <1>18, <1>19, <1>20, <1>21, <1>22, <1>23, <1>24, <1>25,
       <1>27, <1>28, <1>29, <1>30, <1>31, <1>32, <1>33,
       Zenon DEF Progress
<1> QED
    BY <1>11, <1>26, <1>27, <1>34, <1>35, <1>36, <1>37 DEF Next

\* A handler that waits pops the answer to its own request, whatever is answered late or
\* twice, unless a run went to a process whose counter names the lists anew
\* (dispatchAndWait and its likes; seqCounter).
THEOREM AnswersOwned == Spec => []AnswersAreOwn
<1>1. OwnKeys => AnswersAreOwn
    BY DEF OwnKeys, AnswersAreOwn
<1> QED
    BY <1>1, InitKeys, StepKeys, PTL DEF Spec

-----------------------------------------------------------------------------
(* The invariant behind the promise.                                       *)

BatchSteps == {"calls", "tool", "code", "nested"}
LoopSteps == {"head", "model", "limits", "stuck", "evaluate", "reflect", "flush", "summary", "size",
              "tail"} \union BatchSteps
EndSteps == {"left", "outputs", "extract", "push"}

\* The calls that n of a batch may come to, each of them code that calls tools.
Cost(n) == n * (1 + MaxNested)

Context ==
    /\ sctx = [messages |-> sctx.messages, iteration |-> sctx.iteration, total |-> sctx.total,
               reflections |-> sctx.reflections, history |-> sctx.history,
               lastResp |-> sctx.lastResp, tasks |-> sctx.tasks, buffers |-> sctx.buffers]
    /\ sctx.iteration \in Nat /\ sctx.total \in Nat

\* What is left of an iteration where the handler is in a side step of it.
Continues ==
    /\ pc = "reflect" => after \in {<<"stuck">>, <<"size">>, <<"flush", "size">>}
    /\ pc \in {"flush", "summary"} => after \in {<<"size">>, <<"tail">>}

\* Until the agent ends there is no reason, and room for another iteration; the limit of
\* all calls is looked at whenever a batch or an iteration is over.
Working ==
    /\ pc \in Steps
    /\ pc \in LoopSteps \union {"list"} => finish = "none"
    /\ pc \in LoopSteps => sctx.iteration < MaxIterations
    /\ pc = "list" => sctx.iteration = 0 /\ sctx.total = 0
    /\ pc \in LoopSteps \ (BatchSteps \union {"limits"}) => sctx.total < MaxTotalCalls
    /\ pc \in EndSteps => finish # "none"

\* In a batch what is left of it fits into the burst.
Budget ==
    /\ pc \notin {"code", "nested"} => nested = 0
    /\ pc \in BatchSteps =>
        /\ todo \in Nat /\ nested \in 0 .. MaxNested
        /\ sctx.total + Cost(todo) <= MaxTotalCalls - 1 + Burst + nested
    /\ pc \in {"tool", "code", "nested"} => todo > 0
    /\ pc = "nested" => sctx.total + Cost(todo) < MaxTotalCalls - 1 + Burst + nested

IInv == Context /\ Continues /\ Working /\ Budget

LEMMA CostFacts ==
    /\ Cost(0) = 0
    /\ \A n \in Nat : Cost(n) \in Nat /\ Cost(n + 1) = Cost(n) + 1 + MaxNested
    /\ \A n \in 0 .. MaxBatch : Cost(n) <= Burst
    /\ Burst \in Nat
<1>1. MaxNested \in Nat /\ MaxBatch \in Nat
    OBVIOUS
<1>2. \A n \in Nat : Cost(n) \in Nat
    BY <1>1 DEF Cost
<1>3. \A n \in Nat : Cost(n + 1) = Cost(n) + 1 + MaxNested
    BY <1>1 DEF Cost
<1>4. \A n \in 0 .. MaxBatch : Cost(n) <= Burst
    <2> TAKE n \in 0 .. MaxBatch
    <2>1. MaxBatch - n \in Nat /\ n \in Nat
        BY <1>1
    <2>2. (MaxBatch - n) * (1 + MaxNested) \in Nat
        BY <1>1, <2>1
    <2>3. MaxBatch * (1 + MaxNested) = n * (1 + MaxNested) + (MaxBatch - n) * (1 + MaxNested)
        BY <1>1, <2>1
    <2> QED
        BY <1>1, <2>1, <2>2, <2>3 DEF Cost, Burst
<1>5. Burst \in Nat
    BY <1>1 DEF Burst
<1> QED
    BY <1>1, <1>2, <1>3, <1>4, <1>5 DEF Cost

LEMMA InitIInv == Init => IInv
BY DEF Init, Fresh, IInv, Context, Continues, Working, Budget,
       Steps, Asking, LoopSteps, BatchSteps, EndSteps

\* What is left of the iteration after a verdict.
Rest(v) ==
    (IF v.stuck THEN <<"reflect">> ELSE << >>)
        \o (IF v.compact THEN <<"flush">> ELSE << >>) \o <<"size">>
Rests == {<<"size">>, <<"flush", "size">>, <<"reflect", "size">>, <<"reflect", "flush", "size">>}

LEMMA RestOf ==
    ASSUME NEW v \in Verdicts
    PROVE  Rest(v) \in Rests
<1> USE DEF Rests
<1>1. CASE v.stuck /\ v.compact
    BY <1>1, JoinPair, JoinTriple DEF Rest
<1>2. CASE v.stuck /\ ~ v.compact
    BY <1>2, JoinNone, JoinPair DEF Rest
<1>3. CASE ~ v.stuck /\ v.compact
    BY <1>3, JoinNone, JoinPair DEF Rest
<1>4. CASE ~ v.stuck /\ ~ v.compact
    BY <1>4, JoinNone DEF Rest
<1> QED
    BY <1>1, <1>2, <1>3, <1>4 DEF Verdicts

LEMMA RestFirst ==
    ASSUME NEW v \in Verdicts, Goto(Rest(v))
    PROVE  \/ pc' = "size"
           \/ pc' = "flush" /\ after' = <<"size">>
           \/ pc' = "reflect" /\ after' \in {<<"size">>, <<"flush", "size">>}
<1>1. Rest(v) \in Rests
    BY RestOf
<1>2. pc' = Head(Rest(v)) /\ after' = Tail(Rest(v))
    BY DEF Goto
<1>3. CASE Rest(v) = <<"size">>
    BY <1>2, <1>3, Lists
<1>4. CASE Rest(v) = <<"flush", "size">>
    BY <1>2, <1>4, Lists
<1>5. CASE Rest(v) = <<"reflect", "size">>
    BY <1>2, <1>5, Lists
<1>6. CASE Rest(v) = <<"reflect", "flush", "size">>
    BY <1>2, <1>6, Lists
<1> QED
    BY <1>1, <1>3, <1>4, <1>5, <1>6 DEF Rests

\* Where the handler goes on after a reflection.
LEMMA AfterReflection ==
    ASSUME after \in {<<"stuck">>, <<"size">>, <<"flush", "size">>}, Goto(after)
    PROVE  \/ pc' = "stuck" \/ pc' = "size"
           \/ pc' = "flush" /\ after' = <<"size">>
<1>1. pc' = Head(after) /\ after' = Tail(after)
    BY DEF Goto
<1>2. CASE after = <<"stuck">>
    BY <1>1, <1>2, Lists
<1>3. CASE after = <<"size">>
    BY <1>1, <1>3, Lists
<1>4. CASE after = <<"flush", "size">>
    BY <1>1, <1>4, Lists
<1> QED
    BY <1>2, <1>3, <1>4

\* In a compaction the summary follows the flush, and what was left the summary.
LEMMA AfterFlush ==
    ASSUME after \in {<<"size">>, <<"tail">>}, Goto(<<"summary">> \o after)
    PROVE  pc' = "summary" /\ after' \in {<<"size">>, <<"tail">>}
<1>1. <<"summary">> \o after \in {<<"summary", "size">>, <<"summary", "tail">>}
    BY JoinPair
<1> QED
    BY <1>1, Lists DEF Goto

LEMMA AfterSummary ==
    ASSUME after \in {<<"size">>, <<"tail">>}, Goto(after)
    PROVE  pc' \in {"size", "tail"}
BY Lists DEF Goto

-----------------------------------------------------------------------------
(* The invariant is inductive.                                             *)

\* The steps of a run, as the proofs go through them.
SetupStep ==
    \/ Listed \/ StartLoop \/ SetupFails
    \/ \E broken \in BOOLEAN : ListFails(broken)
BatchStep ==
    \/ BeginIteration
    \/ \E blank \in BOOLEAN : ModelText(blank)
    \/ \E n \in 1 .. MaxBatch : ModelCalls(n)
    \/ \E tool \in Tools :
        \/ \E tasks \in BOOLEAN, buffers \in SUBSET (1 .. Ports) : CallBuiltin(tool, tasks, buffers)
        \/ CallUnknown(tool) \/ CallTool(tool) \/ RunCode(tool)
    \/ \E kind \in SUBSET Tools : ToolAnswered(kind)
    \/ CodeCallsTool \/ CodeEnds \/ BatchDone
    \/ \E broken \in BOOLEAN : ModelFails(broken) \/ ToolFails(broken) \/ CodeToolAnswered(broken)
LoopStep ==
    \/ Limits \/ Record \/ Recorded
    \/ \E v \in Verdicts : Evaluated(v)
    \/ Reflected \/ Summarised
    \/ \E over \in BOOLEAN : CheckSize(over)
    \/ NextIteration
    \/ \E broken \in BOOLEAN :
        EvaluateFails(broken) \/ ReflectFails(broken) \/ Flush(broken) \/ SummaryFails(broken)
EndStep ==
    \/ LeaveLoop \/ ResolvePort \/ ExtractPort \/ Extracted \/ OutputsDone
    \/ \E broken \in BOOLEAN : ExtractFails(broken)
    \/ Push
    \/ \E fresh \in BOOLEAN : Begin(fresh) \/ PushFails(fresh)

LEMMA StepKinds ==
    Next => \/ Ask \/ SetupStep \/ BatchStep \/ LoopStep \/ EndStep
            \/ TimeUp \/ \E r \in queue, again \in BOOLEAN : Serve(r, again)
<1>1. Crash => EndStep
    BY DEF Crash, EndStep
<1>2. ASSUME NEW broken \in BOOLEAN, Handler(broken)
      PROVE  SetupStep \/ BatchStep \/ LoopStep \/ EndStep
    BY <1>2 DEF Handler, SetupStep, BatchStep, LoopStep, EndStep
<1>3. MCPToolAnswered \/ APIToolAnswered => BatchStep
    <2>1. MCPTools \ APITools \in SUBSET Tools /\ APITools \in SUBSET Tools
        BY DEF Tools
    <2> QED
        BY <2>1, Zenon DEF MCPToolAnswered, APIToolAnswered, BatchStep
<1>4. Progress => Ask \/ SetupStep \/ BatchStep \/ LoopStep \/ EndStep
    BY <1>2, <1>3, Zenon DEF Progress, SetupStep, BatchStep, LoopStep, EndStep
<1> QED
    BY <1>1, <1>2, <1>4, Zenon DEF Next, SetupStep

\* One call of the batch is accounted for.
LEMMA Spend ==
    ASSUME todo \in Nat, todo > 0
    PROVE  /\ Cost(todo) = Cost(todo - 1) + 1 + MaxNested
           /\ Cost(todo - 1) \in Nat /\ Cost(todo) \in Nat
<1>1. todo - 1 \in Nat /\ todo = (todo - 1) + 1
    OBVIOUS
<1> QED
    BY <1>1, CostFacts

LEMMA Spent ==
    ASSUME IInv, pc \in {"calls", "tool", "code"}, todo > 0, pc' = "calls", todo' = todo - 1,
           (nested' = nested /\ pc = "calls") \/ nested' = 0, UNCHANGED finish,
           Context', sctx'.iteration = sctx.iteration,
           sctx'.total = sctx.total \/ (pc = "tool" /\ sctx'.total = sctx.total + 1)
    PROVE  IInv'
<1> USE DEF IInv, Context, Continues, Working, Budget,
        Steps, Asking, LoopSteps, BatchSteps, EndSteps
<1>1. todo \in Nat /\ nested \in 0 .. MaxNested /\ MaxNested \in Nat /\ Burst \in Nat
    BY CostFacts
<1>2. /\ Cost(todo) = Cost(todo') + 1 + MaxNested
      /\ Cost(todo') \in Nat /\ Cost(todo) \in Nat /\ todo' \in Nat
    BY <1>1, Spend
<1>3. nested' = 0
    OBVIOUS
<1>4. Budget'
    BY <1>1, <1>2, <1>3
<1> QED
    BY <1>4

LEMMA AnsweredContext ==
    ASSUME Context, NEW tool, NEW n \in Nat, Answered(tool, n)
    PROVE  Context' /\ sctx'.iteration = sctx.iteration /\ sctx'.total = sctx.total + n
<1>1. sctx' = [messages |-> Append(sctx.messages, ToolAnswer), iteration |-> sctx.iteration,
               total |-> sctx.total + n, reflections |-> sctx.reflections,
               history |-> Append(sctx.history, tool), lastResp |-> sctx.lastResp,
               tasks |-> sctx.tasks, buffers |-> sctx.buffers]
    BY DEF Context, Answered
<1>2. sctx'.iteration = sctx.iteration /\ sctx'.total = sctx.total + n
    BY <1>1
<1>3. sctx' = [messages |-> sctx'.messages, iteration |-> sctx'.iteration, total |-> sctx'.total,
               reflections |-> sctx'.reflections, history |-> sctx'.history,
               lastResp |-> sctx'.lastResp, tasks |-> sctx'.tasks, buffers |-> sctx'.buffers]
    BY <1>1
<1>4. sctx'.iteration \in Nat /\ sctx'.total \in Nat
    BY <1>2 DEF Context
<1> QED
    BY <1>2, <1>3, <1>4 DEF Context

LEMMA Levels ==
    \A n \in {breaches + 1} : Level(n) \in {"warn", "reflect", "force_exit"}
BY DEF Level

\* A run up to its loop.
LEMMA SetupKeeps ==
    ASSUME IInv, SetupStep
    PROVE  IInv'
<1> USE DEF IInv, Context, Continues, Working, Budget,
        Steps, Asking, LoopSteps, BatchSteps, EndSteps,
        loopVars, batchVars, detector, taskVars, runVars, callVars
<1>1. CASE Listed
    BY <1>1 DEF Listed
<1>2. CASE StartLoop
    <2>1. CASE MaxIterations = 0
        BY <1>2, <2>1 DEF StartLoop, Finish
    <2>2. CASE MaxIterations # 0
        <3>1. pc' = "head"
            BY <1>2, <2>2, Lists DEF StartLoop, Goto
        <3> QED
            BY <1>2, <2>2, <3>1 DEF StartLoop
    <2> QED
        BY <2>1, <2>2
<1>3. ASSUME NEW broken, ListFails(broken) PROVE IInv'
    BY <1>3 DEF ListFails, Fail
<1>4. CASE SetupFails
    BY <1>4 DEF SetupFails, Fail
<1> QED
    BY <1>1, <1>2, <1>3, <1>4
       DEF SetupStep

\* The responses and calls of an iteration.
LEMMA BatchKeeps ==
    ASSUME IInv, BatchStep
    PROVE  IInv'
<1> USE DEF IInv, Context, Continues, Working, Budget,
        Steps, Asking, LoopSteps, BatchSteps, EndSteps,
        loopVars, batchVars, detector, taskVars, runVars, callVars
<1>1. CASE BeginIteration
    <2>1. CASE Finish(Ended)
        BY <1>1, <2>1 DEF BeginIteration, Finish, Ended
    <2>2. CASE Goto(<<"model">>) /\ UNCHANGED finish
        <3>1. pc' = "model"
            BY <2>2, Lists DEF Goto
        <3> QED
            BY <1>1, <2>2, <3>1 DEF BeginIteration
    <2> QED
        BY <1>1, <2>1, <2>2 DEF BeginIteration
<1>2. ASSUME NEW broken, ModelFails(broken) PROVE IInv'
    <2>1. CASE Finish(Ended)
        BY <1>2, <2>1 DEF ModelFails, Finish, Ended
    <2>2. CASE Fail
        BY <1>2, <2>2 DEF ModelFails, Fail
    <2> QED
        BY <1>2, <2>1, <2>2 DEF ModelFails, EndOrFail
<1>3. ASSUME NEW blank \in BOOLEAN, ModelText(blank) PROVE IInv'
    <2>1. pc' = "limits"
        BY <1>3, Lists DEF ModelText, Goto
    <2> QED
        BY <1>3, <2>1 DEF ModelText
<1>4. ASSUME NEW n \in 1 .. MaxBatch, ModelCalls(n) PROVE IInv'
    <2>1. pc' = "calls" /\ todo' = n /\ n \in 0 .. MaxBatch /\ MaxBatch \in Nat
        BY <1>4, Lists DEF ModelCalls, Goto
    <2>2. Cost(todo') \in Nat /\ Cost(todo') <= Burst /\ Burst \in Nat
        BY <2>1, CostFacts
    <2>3. Context' /\ sctx'.iteration = sctx.iteration /\ sctx'.total = sctx.total
        BY <1>4 DEF ModelCalls
    <2>4. sctx.total < MaxTotalCalls /\ nested = 0 /\ nested' = 0 /\ UNCHANGED finish
        BY <1>4 DEF ModelCalls
    <2>5. Budget'
        BY <2>1, <2>2, <2>3, <2>4
    <2>6. Working' /\ Continues'
        BY <1>4, <2>1, <2>3, <2>4 DEF ModelCalls
    <2> QED
        BY <2>3, <2>5, <2>6
<1>5. ASSUME NEW tool \in Tools, NEW ts, NEW bs, CallBuiltin(tool, ts, bs) PROVE IInv'
    <2>1. /\ pc = "calls" /\ todo > 0 /\ todo' = todo - 1 /\ UNCHANGED <<pc, after, nested, finish>>
          /\ Context' /\ sctx'.iteration = sctx.iteration /\ sctx'.total = sctx.total
        BY <1>5 DEF CallBuiltin
    <2> QED
        BY <2>1, Spent
<1>6. ASSUME NEW tool \in Tools, CallUnknown(tool) PROVE IInv'
    <2>1. pc = "calls" /\ todo > 0 /\ UNCHANGED <<pc, finish>> /\ Answered(tool, 0)
        BY <1>6 DEF CallUnknown
    <2>2. todo' = todo - 1 /\ nested' = 0
        BY <2>1 DEF Answered
    <2>3. Context' /\ sctx'.iteration = sctx.iteration /\ sctx'.total = sctx.total
        BY <2>1, AnsweredContext
    <2> QED
        BY <2>1, <2>2, <2>3, Spent
<1>7. ASSUME NEW tool \in Tools, CallTool(tool) PROVE IInv'
    <2>1. pc' = "tool"
        BY <1>7, Lists DEF CallTool, Goto
    <2> QED
        BY <1>7, <2>1 DEF CallTool
<1>8. ASSUME NEW kind, ToolAnswered(kind) PROVE IInv'
    <2>1. pc' = "calls"
        BY <1>8, Lists DEF ToolAnswered, Goto
    <2>2. pc = "tool" /\ UNCHANGED finish /\ Answered(call, 1)
        BY <1>8 DEF ToolAnswered
    <2>3. todo' = todo - 1 /\ nested' = 0
        BY <2>2 DEF Answered
    <2>4. Context' /\ sctx'.iteration = sctx.iteration /\ sctx'.total = sctx.total + 1
        BY <2>2, AnsweredContext
    <2>5. todo > 0
        BY <2>2
    <2> QED
        BY <2>1, <2>2, <2>3, <2>4, <2>5, Spent
<1>9. ASSUME NEW broken, ToolFails(broken) PROVE IInv'
    <2>1. CASE Finish(Ended)
        BY <1>9, <2>1 DEF ToolFails, Finish, Ended
    <2>2. CASE Fail
        BY <1>9, <2>2 DEF ToolFails, Fail
    <2> QED
        BY <1>9, <2>1, <2>2 DEF ToolFails, EndOrFail
<1>10. ASSUME NEW tool \in Tools, RunCode(tool) PROVE IInv'
    <2>1. pc' = "code"
        BY <1>10, Lists DEF RunCode, Goto
    <2> QED
        BY <1>10, <2>1 DEF RunCode
<1>11. CASE CodeCallsTool
    <2>1. pc' = "nested" /\ pc = "code" /\ UNCHANGED <<sctx, todo, finish>> /\ nested < MaxNested
          /\ nested' = nested + 1
        BY <1>11, Lists DEF CodeCallsTool, Goto
    <2>2. Cost(todo) \in Nat /\ Cost(todo') = Cost(todo) /\ Burst \in Nat /\ MaxNested \in Nat
        BY <2>1, Spend, CostFacts
    <2> QED
        BY <2>1, <2>2
<1>12. ASSUME NEW broken, CodeToolAnswered(broken) PROVE IInv'
    <2>1. pc' = "code" /\ pc = "nested" /\ UNCHANGED <<todo, nested, finish>>
        BY <1>12, Lists DEF CodeToolAnswered, Goto
    <2>2. Context' /\ sctx'.iteration = sctx.iteration /\ sctx'.total = sctx.total + 1
        BY <1>12 DEF CodeToolAnswered
    <2>3. Cost(todo) \in Nat /\ Cost(todo') = Cost(todo) /\ Burst \in Nat /\ MaxNested \in Nat
        BY <2>1, Spend, CostFacts
    <2> QED
        BY <2>1, <2>2, <2>3
<1>13. CASE CodeEnds
    <2>1. pc' = "calls"
        BY <1>13, Lists DEF CodeEnds, Goto
    <2>2. pc = "code" /\ UNCHANGED finish /\ Answered(call, 0)
        BY <1>13 DEF CodeEnds
    <2>3. todo' = todo - 1 /\ nested' = 0
        BY <2>2 DEF Answered
    <2>4. Context' /\ sctx'.iteration = sctx.iteration /\ sctx'.total = sctx.total
        BY <2>2, AnsweredContext
    <2>5. todo > 0
        BY <2>2
    <2> QED
        BY <2>1, <2>2, <2>3, <2>4, <2>5, Spent
<1>14. CASE BatchDone
    <2>1. CASE Finish("max_tool_calls")
        BY <1>14, <2>1 DEF BatchDone, Finish
    <2>2. CASE Goto(<<"limits">>) /\ UNCHANGED finish
        <3>1. pc' = "limits"
            BY <2>2, Lists DEF Goto
        <3> QED
            BY <1>14, <2>2, <3>1 DEF BatchDone
    <2>3. CASE Goto(<<"model">>) /\ UNCHANGED finish /\ ~ (sctx.total >= MaxTotalCalls)
        <3>1. pc' = "model"
            BY <2>3, Lists DEF Goto
        <3> QED
            BY <1>14, <2>3, <3>1 DEF BatchDone
    <2> QED
        BY <1>14, <2>1, <2>2, <2>3 DEF BatchDone
<1> QED
    BY <1>1, <1>2, <1>3, <1>4, <1>5, <1>6, <1>7, <1>8, <1>9, <1>10, <1>11, <1>12, <1>13,
       <1>14
       DEF BatchStep

\* The limits, the detector and the evaluation.
LEMMA LoopKeeps ==
    ASSUME IInv, LoopStep
    PROVE  IInv'
<1> USE DEF IInv, Context, Continues, Working, Budget,
        Steps, Asking, LoopSteps, BatchSteps, EndSteps,
        loopVars, batchVars, detector, taskVars, runVars, callVars
<1>1. CASE Limits
    <2>1. CASE sctx.total >= MaxTotalCalls
        BY <1>1, <2>1 DEF Limits, Finish
    <2>2. CASE ~ (sctx.total >= MaxTotalCalls)
        <3>1. pc' = "stuck"
            BY <1>1, <2>2, Lists DEF Limits, Goto
        <3> QED
            BY <1>1, <2>2, <3>1 DEF Limits
    <2> QED
        BY <2>1, <2>2
<1>2. CASE Record
    <2>1. /\ pc = "stuck" /\ UNCHANGED nested
          /\ Context' /\ sctx'.iteration = sctx.iteration /\ sctx'.total = sctx.total
        BY <1>2, Levels DEF Record
    <2>2. CASE UNCHANGED <<pc, after, finish>>
        BY <2>1, <2>2
    <2>3. CASE Goto(<<"reflect", "stuck">>) /\ UNCHANGED finish
        BY <2>1, <2>3, Lists DEF Goto
    <2>4. CASE Finish("stuck")
        BY <2>1, <2>4 DEF Finish
    <2> QED
        BY <1>2, Levels, <2>2, <2>3, <2>4 DEF Record
<1>3. CASE Recorded
    <2>1. CASE Finish("done")
        BY <1>3, <2>1 DEF Recorded, Finish
    <2>2. CASE Goto(<<IF EvaluatorDisabled THEN "tail" ELSE "evaluate">>) /\ UNCHANGED finish
        <3>1. pc' \in {"tail", "evaluate"}
            BY <2>2, Lists DEF Goto
        <3> QED
            BY <1>3, <2>2, <3>1 DEF Recorded
    <2> QED
        BY <1>3, <2>1, <2>2 DEF Recorded
<1>4. ASSUME NEW broken, EvaluateFails(broken) PROVE IInv'
    <2>1. CASE Finish(Ended)
        BY <1>4, <2>1 DEF EvaluateFails, Finish, Ended
    <2>2. CASE Goto(<<"size">>) /\ UNCHANGED finish
        <3>1. pc' = "size"
            BY <2>2, Lists DEF Goto
        <3> QED
            BY <1>4, <2>2, <3>1 DEF EvaluateFails
    <2> QED
        BY <1>4, <2>1, <2>2 DEF EvaluateFails
<1>5. ASSUME NEW v \in Verdicts, Evaluated(v) PROVE IInv'
    <2>1. CASE Finish("done") \/ Finish("stuck")
        BY <1>5, <2>1 DEF Evaluated, Finish
    <2>2. CASE Goto(Rest(v)) /\ UNCHANGED finish
        BY <1>5, <2>2, RestFirst DEF Evaluated
    <2> QED
        BY <1>5, <2>1, <2>2 DEF Evaluated, Rest
<1>6. ASSUME NEW broken, ReflectFails(broken) PROVE IInv'
    BY <1>6 DEF ReflectFails, Fail
<1>7. CASE Reflected
    <2>1. \/ pc' = "stuck" \/ pc' = "size"
          \/ pc' = "flush" /\ after' = <<"size">>
        BY <1>7, AfterReflection DEF Reflected
    <2> QED
        BY <1>7, <2>1 DEF Reflected
<1>8. ASSUME NEW broken, Flush(broken) PROVE IInv'
    <2>1. pc' = "summary" /\ after' \in {<<"size">>, <<"tail">>}
        BY <1>8, AfterFlush DEF Flush
    <2> QED
        BY <1>8, <2>1 DEF Flush
<1>9. CASE Summarised
    <2>1. pc' \in {"size", "tail"}
        BY <1>9, AfterSummary DEF Summarised
    <2> QED
        BY <1>9, <2>1 DEF Summarised
<1>10. ASSUME NEW broken, SummaryFails(broken) PROVE IInv'
    <2>1. pc' \in {"size", "tail"}
        BY <1>10, AfterSummary DEF SummaryFails
    <2> QED
        BY <1>10, <2>1 DEF SummaryFails
<1>11. ASSUME NEW over \in BOOLEAN, CheckSize(over) PROVE IInv'
    <2>1. pc' = "tail" \/ (pc' = "flush" /\ after' = <<"tail">>)
        BY <1>11, Lists DEF CheckSize, Goto
    <2> QED
        BY <1>11, <2>1 DEF CheckSize
<1>12. CASE NextIteration
    <2>1. CASE Finish("stuck") /\ UNCHANGED sctx
        BY <1>12, <2>1 DEF NextIteration, Finish
    <2>2. CASE Finish("max_iterations") /\ sctx' = [sctx EXCEPT !.iteration = sctx.iteration + 1]
        BY <1>12, <2>2 DEF NextIteration, Finish
    <2>3. CASE /\ Goto(<<"head">>) /\ UNCHANGED finish /\ sctx.iteration + 1 # MaxIterations
               /\ sctx' = [sctx EXCEPT !.iteration = sctx.iteration + 1]
        <3>1. pc' = "head"
            BY <2>3, Lists DEF Goto
        <3> QED
            BY <1>12, <2>3, <3>1 DEF NextIteration
    <2> QED
        BY <1>12, <2>1, <2>2, <2>3 DEF NextIteration
<1> QED
    BY <1>1, <1>2, <1>3, <1>4, <1>5, <1>6, <1>7, <1>8, <1>9, <1>10, <1>11, <1>12
       DEF LoopStep

\* The outputs and the report, and runs that follow.
LEMMA EndKeeps ==
    ASSUME IInv, EndStep
    PROVE  IInv'
<1> USE DEF IInv, Context, Continues, Working, Budget,
        Steps, Asking, LoopSteps, BatchSteps, EndSteps,
        loopVars, batchVars, detector, taskVars, runVars, callVars
<1>1. CASE LeaveLoop
    <2>1. pc' = "outputs"
        BY <1>1, Lists DEF LeaveLoop, Goto
    <2> QED
        BY <1>1, <2>1 DEF LeaveLoop, Locals
<1>2. CASE ResolvePort
    BY <1>2 DEF ResolvePort
<1>3. CASE ExtractPort
    <2>1. pc' = "extract"
        BY <1>3, Lists DEF ExtractPort, Goto
    <2> QED
        BY <1>3, <2>1 DEF ExtractPort
<1>4. CASE Extracted
    <2>1. pc' = "outputs"
        BY <1>4, Lists DEF Extracted, Goto
    <2> QED
        BY <1>4, <2>1 DEF Extracted
<1>5. ASSUME NEW broken, ExtractFails(broken) PROVE IInv'
    BY <1>5 DEF ExtractFails, Fail
<1>6. CASE OutputsDone
    <2>1. pc' = "push"
        BY <1>6, Lists DEF OutputsDone, Goto
    <2> QED
        BY <1>6, <2>1 DEF OutputsDone
<1>7. CASE Push
    <2>1. pc' = "returned"
        BY <1>7, Lists DEF Push, Goto
    <2> QED
        BY <1>7, <2>1 DEF Push, Fresh, Locals
<1>8. ASSUME NEW fresh, Begin(fresh) PROVE IInv'
    BY <1>8 DEF Begin, Fresh, Locals
<1>9. ASSUME NEW fresh, PushFails(fresh) PROVE IInv'
    <2>1. CASE Begin(fresh)
        BY <2>1 DEF Begin, Fresh, Locals
    <2>2. CASE ~ Begin(fresh)
        <3>1. pc' = "returned"
            BY <1>9, <2>2, Lists DEF PushFails, Goto
        <3> QED
            BY <1>9, <2>2, <3>1 DEF PushFails
    <2> QED
        BY <2>1, <2>2
<1> QED
    BY <1>1, <1>2, <1>3, <1>4, <1>5, <1>6, <1>7, <1>8, <1>9
       DEF EndStep

LEMMA StepKeeps == IInv /\ [Next]_vars => IInv'
<1> SUFFICES ASSUME IInv, [Next]_vars PROVE IInv'
    OBVIOUS
<1> USE DEF IInv, Context, Continues, Working, Budget,
        Steps, Asking, LoopSteps, BatchSteps, EndSteps,
        loopVars, batchVars, detector, taskVars, runVars, callVars
<1>1. CASE Ask
    BY <1>1 DEF Ask
<1>2. CASE TimeUp
    BY <1>2 DEF TimeUp
<1>3. ASSUME NEW r, NEW again, Serve(r, again) PROVE IInv'
    BY <1>3 DEF Serve
<1>4. CASE UNCHANGED vars
    BY <1>4 DEF vars
<1> QED
    BY <1>1, <1>2, <1>3, <1>4, StepKinds, SetupKeeps, BatchKeeps, LoopKeeps, EndKeeps

-----------------------------------------------------------------------------
(* The promise.                                                            *)

LEMMA InitPromise == Init => P!Init
BY DEF Init, Fresh, P!Init

\* What changes neither the counters nor the reason nor the results, the promise does not
\* see.
LEMMA Silent ==
    ASSUME sctx'.iteration = sctx.iteration, sctx'.total = sctx.total, UNCHANGED <<finish, results>>
    PROVE  [P!Next]_P!promiseVars
BY DEF P!promiseVars

\* A call that counts is one of the burst.
LEMMA Counting ==
    ASSUME IInv, pc \in {"tool", "nested"}, sctx'.iteration = sctx.iteration,
           sctx'.total = sctx.total + 1, UNCHANGED <<finish, results>>
    PROVE  [P!Next]_P!promiseVars
<1>1. /\ todo \in Nat /\ todo > 0 /\ nested \in 0 .. MaxNested /\ MaxNested \in Nat
      /\ finish = "none" /\ sctx.total \in Nat
      /\ sctx.total + Cost(todo) <= MaxTotalCalls - 1 + Burst + nested
    BY DEF IInv, Context, Working, Budget, BatchSteps, LoopSteps
<1>2. Cost(todo) \in Nat /\ Cost(todo) >= 1 + MaxNested /\ Burst \in Nat
    BY <1>1, Spend, CostFacts
<1>3. sctx.total + 1 <= MaxTotalCalls - 1 + Burst
    BY <1>1, <1>2
<1>4. sctx'.total \in sctx.total + 1 .. MaxTotalCalls - 1 + Burst
    BY <1>1, <1>2, <1>3
<1>5. P!Work
    BY <1>1, <1>4 DEF P!Work
<1> QED
    BY <1>5 DEF P!Next

\* The loop is left for a reason that is true.
LEMMA Ending ==
    ASSUME NEW why \in P!Reasons, Finish(why), finish = "none", UNCHANGED results,
           sctx.iteration \in Nat, sctx'.iteration \in {sctx.iteration, sctx.iteration + 1},
           sctx'.total = sctx.total,
           why = "max_iterations" <=> sctx'.iteration = MaxIterations,
           why \in {"timeout", "cancelled"} \/ sctx.total < MaxTotalCalls,
           why # "max_tool_calls"
    PROVE  [P!Next]_P!promiseVars
<1>1. P!End(why)
    BY DEF Finish, P!End, P!True, P!Reasons
<1> QED
    BY <1>1 DEF P!Next

LEMMA LimitEnds ==
    ASSUME Finish("max_tool_calls"), sctx.total >= MaxTotalCalls, finish = "none",
           UNCHANGED <<sctx, results>>, sctx.iteration \in Nat, sctx.iteration < MaxIterations
    PROVE  [P!Next]_P!promiseVars
<1>1. P!End("max_tool_calls")
    BY DEF Finish, P!End, P!True
<1> QED
    BY <1>1 DEF P!Next, P!Reasons

\* What a context ends with is a reason.
LEMMA EndedReason == Ended \in P!Reasons /\ Ended \in {"timeout", "cancelled"}
BY DEF Ended, P!Reasons

\* A run up to its loop.
LEMMA SetupPromise ==
    ASSUME IInv, SetupStep
    PROVE  [P!Next]_P!promiseVars
<1> USE DEF IInv, Context, Working, Steps, LoopSteps, BatchSteps, EndSteps,
        loopVars, batchVars, detector, taskVars, runVars, callVars
<1>1. CASE Listed
    BY <1>1, Silent DEF Listed
<1>2. CASE StartLoop
    <2>1. /\ pc = "list" /\ UNCHANGED <<sctx, results>>
          /\ sctx.iteration = 0 /\ sctx.total = 0 /\ finish = "none"
        BY <1>2 DEF StartLoop
    <2>2. CASE Finish("max_iterations") /\ MaxIterations = 0
        <3>1. P!End("max_iterations")
            BY <2>1, <2>2 DEF Finish, P!End, P!True
        <3> QED
            BY <3>1 DEF P!Next, P!Reasons
    <2>3. CASE UNCHANGED finish
        BY <2>1, <2>3, Silent
    <2> QED
        BY <1>2, <2>2, <2>3 DEF StartLoop
<1>3. ASSUME NEW broken, ListFails(broken) PROVE [P!Next]_P!promiseVars
    BY <1>3, Silent DEF ListFails, Fail
<1>4. CASE SetupFails
    BY <1>4, Silent DEF SetupFails, Fail
<1> QED
    BY <1>1, <1>2, <1>3, <1>4
       DEF SetupStep

\* The responses and calls of an iteration.
LEMMA BatchPromise ==
    ASSUME IInv, BatchStep
    PROVE  [P!Next]_P!promiseVars
<1> USE DEF IInv, Context, Working, Steps, LoopSteps, BatchSteps, EndSteps,
        loopVars, batchVars, detector, taskVars, runVars, callVars
<1>1. CASE BeginIteration
    <2>1. Context' /\ sctx'.iteration = sctx.iteration /\ sctx'.total = sctx.total
        BY <1>1 DEF BeginIteration
    <2>2. CASE Finish(Ended)
        BY <1>1, <2>1, <2>2, Ending, EndedReason DEF BeginIteration
    <2>3. CASE UNCHANGED finish
        BY <1>1, <2>1, <2>3, Silent DEF BeginIteration
    <2> QED
        BY <1>1, <2>2, <2>3 DEF BeginIteration
<1>2. ASSUME NEW broken, ModelFails(broken) PROVE [P!Next]_P!promiseVars
    <2>1. CASE Finish(Ended)
        BY <1>2, <2>1, Ending, EndedReason DEF ModelFails
    <2>2. CASE UNCHANGED finish
        BY <1>2, <2>2, Silent DEF ModelFails
    <2> QED
        BY <1>2, <2>1, <2>2 DEF ModelFails, EndOrFail, Fail
<1>3. ASSUME NEW blank \in BOOLEAN, ModelText(blank) PROVE [P!Next]_P!promiseVars
    BY <1>3, Silent DEF ModelText
<1>4. ASSUME NEW n \in 1 .. MaxBatch, ModelCalls(n) PROVE [P!Next]_P!promiseVars
    BY <1>4, Silent DEF ModelCalls
<1>5. ASSUME NEW tool \in Tools, NEW ts, NEW bs, CallBuiltin(tool, ts, bs)
      PROVE  [P!Next]_P!promiseVars
    BY <1>5, Silent DEF CallBuiltin
<1>6. ASSUME NEW tool \in Tools, CallUnknown(tool) PROVE [P!Next]_P!promiseVars
    <2>1. Answered(tool, 0) /\ UNCHANGED <<finish, results>>
        BY <1>6 DEF CallUnknown
    <2> QED
        BY <2>1, AnsweredContext, Silent
<1>7. ASSUME NEW tool \in Tools, CallTool(tool) PROVE [P!Next]_P!promiseVars
    BY <1>7, Silent DEF CallTool
<1>8. ASSUME NEW kind, ToolAnswered(kind) PROVE [P!Next]_P!promiseVars
    <2>1. pc = "tool" /\ Answered(call, 1) /\ UNCHANGED <<finish, results>>
        BY <1>8 DEF ToolAnswered
    <2>2. sctx'.iteration = sctx.iteration /\ sctx'.total = sctx.total + 1
        BY <2>1, AnsweredContext
    <2> QED
        BY <2>1, <2>2, Counting
<1>9. ASSUME NEW broken, ToolFails(broken) PROVE [P!Next]_P!promiseVars
    <2>1. CASE Finish(Ended)
        BY <1>9, <2>1, Ending, EndedReason DEF ToolFails
    <2>2. CASE UNCHANGED finish
        BY <1>9, <2>2, Silent DEF ToolFails
    <2> QED
        BY <1>9, <2>1, <2>2 DEF ToolFails, EndOrFail, Fail
<1>10. ASSUME NEW tool \in Tools, RunCode(tool) PROVE [P!Next]_P!promiseVars
    BY <1>10, Silent DEF RunCode
<1>11. CASE CodeCallsTool
    BY <1>11, Silent DEF CodeCallsTool
<1>12. ASSUME NEW broken, CodeToolAnswered(broken) PROVE [P!Next]_P!promiseVars
    <2>1. pc = "nested" /\ UNCHANGED <<finish, results>>
        BY <1>12 DEF CodeToolAnswered
    <2>2. sctx'.iteration = sctx.iteration /\ sctx'.total = sctx.total + 1
        BY <1>12 DEF CodeToolAnswered, IInv, Context
    <2> QED
        BY <2>1, <2>2, Counting
<1>13. CASE CodeEnds
    <2>1. Answered(call, 0) /\ UNCHANGED <<finish, results>>
        BY <1>13 DEF CodeEnds
    <2> QED
        BY <2>1, AnsweredContext, Silent
<1>14. CASE BatchDone
    <2>1. CASE Finish("max_tool_calls") /\ sctx.total >= MaxTotalCalls
        BY <1>14, <2>1, LimitEnds DEF BatchDone
    <2>2. CASE UNCHANGED finish
        BY <1>14, <2>2, Silent DEF BatchDone
    <2> QED
        BY <1>14, <2>1, <2>2 DEF BatchDone
<1> QED
    BY <1>1, <1>2, <1>3, <1>4, <1>5, <1>6, <1>7, <1>8, <1>9, <1>10, <1>11, <1>12, <1>13,
       <1>14
       DEF BatchStep

\* The limits, the detector and the evaluation.
LEMMA LoopPromise ==
    ASSUME IInv, LoopStep
    PROVE  [P!Next]_P!promiseVars
<1> USE DEF IInv, Context, Working, Steps, LoopSteps, BatchSteps, EndSteps,
        loopVars, batchVars, detector, taskVars, runVars, callVars
<1>1. CASE Limits
    <2>1. CASE Finish("max_tool_calls") /\ sctx.total >= MaxTotalCalls
        BY <1>1, <2>1, LimitEnds DEF Limits
    <2>2. CASE UNCHANGED finish
        BY <1>1, <2>2, Silent DEF Limits
    <2> QED
        BY <1>1, <2>1, <2>2 DEF Limits
<1>2. CASE Record
    <2>1. /\ pc = "stuck" /\ UNCHANGED results
          /\ sctx'.iteration = sctx.iteration /\ sctx'.total = sctx.total
        BY <1>2, Levels DEF Record, IInv, Context
    <2>2. CASE UNCHANGED finish
        BY <2>1, <2>2, Silent
    <2>3. CASE Finish("stuck")
        BY <2>1, <2>3, Ending DEF P!Reasons
    <2> QED
        BY <1>2, Levels, <2>2, <2>3 DEF Record
<1>3. CASE Recorded
    <2>1. CASE Finish("done")
        BY <1>3, <2>1, Ending DEF Recorded, P!Reasons
    <2>2. CASE UNCHANGED finish
        BY <1>3, <2>2, Silent DEF Recorded
    <2> QED
        BY <1>3, <2>1, <2>2 DEF Recorded
<1>4. ASSUME NEW broken, EvaluateFails(broken) PROVE [P!Next]_P!promiseVars
    <2>1. CASE Finish(Ended)
        BY <1>4, <2>1, Ending, EndedReason DEF EvaluateFails
    <2>2. CASE UNCHANGED finish
        BY <1>4, <2>2, Silent DEF EvaluateFails
    <2> QED
        BY <1>4, <2>1, <2>2 DEF EvaluateFails, EndOrFail, Fail
<1>5. ASSUME NEW v \in Verdicts, Evaluated(v) PROVE [P!Next]_P!promiseVars
    <2>1. CASE Finish("done") \/ Finish("stuck")
        BY <1>5, <2>1, Ending DEF Evaluated, P!Reasons
    <2>2. CASE UNCHANGED finish
        BY <1>5, <2>2, Silent DEF Evaluated
    <2> QED
        BY <1>5, <2>1, <2>2 DEF Evaluated
<1>6. ASSUME NEW broken, ReflectFails(broken) PROVE [P!Next]_P!promiseVars
    BY <1>6, Silent DEF ReflectFails, Fail
<1>7. CASE Reflected
    BY <1>7, Silent DEF Reflected
<1>8. ASSUME NEW broken, Flush(broken) PROVE [P!Next]_P!promiseVars
    BY <1>8, Silent DEF Flush
<1>9. CASE Summarised
    BY <1>9, Silent DEF Summarised
<1>10. ASSUME NEW broken, SummaryFails(broken) PROVE [P!Next]_P!promiseVars
    BY <1>10, Silent DEF SummaryFails
<1>11. ASSUME NEW over \in BOOLEAN, CheckSize(over) PROVE [P!Next]_P!promiseVars
    BY <1>11, Silent DEF CheckSize
<1>12. CASE NextIteration
    <2>1. /\ pc = "tail" /\ UNCHANGED results /\ sctx.iteration \in Nat
          /\ finish = "none" /\ sctx.iteration < MaxIterations /\ sctx.total < MaxTotalCalls
        BY <1>12 DEF NextIteration
    <2>2. CASE sctx.reflections > MaxReflections
        BY <1>12, <2>1, <2>2, Ending DEF NextIteration, P!Reasons
    <2>3. CASE ~ (sctx.reflections > MaxReflections)
        <3>1. sctx'.iteration = sctx.iteration + 1 /\ sctx'.total = sctx.total
            BY <1>12, <2>3 DEF NextIteration
        <3>2. CASE Finish("max_iterations") /\ sctx.iteration + 1 = MaxIterations
            BY <2>1, <3>1, <3>2, Ending DEF P!Reasons
        <3>3. CASE UNCHANGED finish /\ sctx.iteration + 1 # MaxIterations
            <4>1. P!NextRound
                BY <2>1, <3>1, <3>3 DEF P!NextRound
            <4> QED
                BY <4>1 DEF P!Next
        <3> QED
            BY <1>12, <2>3, <3>2, <3>3 DEF NextIteration
    <2> QED
        BY <2>2, <2>3
<1> QED
    BY <1>1, <1>2, <1>3, <1>4, <1>5, <1>6, <1>7, <1>8, <1>9, <1>10, <1>11, <1>12
       DEF LoopStep

\* The outputs and the report, and runs that follow.
LEMMA EndPromise ==
    ASSUME IInv, EndStep
    PROVE  [P!Next]_P!promiseVars
<1> USE DEF IInv, Context, Working, Steps, LoopSteps, BatchSteps, EndSteps,
        loopVars, batchVars, detector, taskVars, runVars, callVars
<1>1. CASE LeaveLoop
    BY <1>1, Silent DEF LeaveLoop
<1>2. CASE ResolvePort
    BY <1>2, Silent DEF ResolvePort
<1>3. CASE ExtractPort
    BY <1>3, Silent DEF ExtractPort
<1>4. CASE Extracted
    BY <1>4, Silent DEF Extracted
<1>5. ASSUME NEW broken, ExtractFails(broken) PROVE [P!Next]_P!promiseVars
    BY <1>5, Silent DEF ExtractFails, Fail
<1>6. CASE OutputsDone
    BY <1>6, Silent DEF OutputsDone
<1>7. CASE Push
    <2>1. pc = "push" => finish # "none"
        OBVIOUS
    <2>2. finish' = "none" /\ sctx'.iteration = 0 /\ sctx'.total = 0
        BY <1>7 DEF Push, Fresh
    <2>3. CASE pc = "push"
        <3>1. P!Report("completed")
            BY <1>7, <2>1, <2>2, <2>3 DEF Push, Completed, P!Report, P!Made
        <3> QED
            BY <3>1 DEF P!Next
    <2>4. CASE pc # "push"
        <3>1. P!Report("failed")
            BY <1>7, <2>2, <2>4 DEF Push, Failure, P!Report, P!Failed
        <3> QED
            BY <3>1 DEF P!Next
    <2> QED
        BY <2>3, <2>4
<1>8. ASSUME NEW fresh, Begin(fresh) PROVE [P!Next]_P!promiseVars
    <2>1. P!Again
        BY <1>8 DEF Begin, Fresh, P!Again
    <2> QED
        BY <2>1 DEF P!Next
<1>9. ASSUME NEW fresh, PushFails(fresh) PROVE [P!Next]_P!promiseVars
    <2>1. CASE Begin(fresh)
        BY <1>8, <2>1
    <2>2. CASE ~ Begin(fresh)
        BY <1>9, <2>2, Silent DEF PushFails
    <2> QED
        BY <2>1, <2>2
<1> QED
    BY <1>1, <1>2, <1>3, <1>4, <1>5, <1>6, <1>7, <1>8, <1>9
       DEF EndStep

\* The superagent of the distributed engine keeps the promise of the node, for any limits,
\* tools and answers, whatever the infrastructure refuses, answers late or twice, and
\* however often the task is run again: what a run reports is what that run did
\* (runAgentLoop, pushResult).
THEOREM PromiseKept == Spec => KeepsPromise
<1>1. IInv /\ [Next]_vars => [P!Next]_P!promiseVars
    <2> SUFFICES ASSUME IInv, [Next]_vars PROVE [P!Next]_P!promiseVars
        OBVIOUS
    <2> USE DEF loopVars, batchVars, detector, taskVars, runVars, callVars
    <2>1. CASE Ask
        BY <2>1, Silent DEF Ask
    <2>2. CASE TimeUp
        BY <2>2, Silent DEF TimeUp
    <2>3. ASSUME NEW r, NEW again, Serve(r, again) PROVE [P!Next]_P!promiseVars
        BY <2>3, Silent DEF Serve
    <2>4. CASE UNCHANGED vars
        BY <2>4, Silent DEF vars
    <2> QED
        BY <2>1, <2>2, <2>3, <2>4, StepKinds, SetupPromise, BatchPromise, LoopPromise, EndPromise
<1> QED
    BY <1>1, InitPromise, InitIInv, StepKeeps, PTL DEF Spec, KeepsPromise, P!Promise
-----------------------------------------------------------------------------
(* What the model is sent.                                                 *)

Speaking == LoopSteps \union {"list"}

\* The calls of the last response that have no answer yet.
Unanswered == IF pc \in BatchSteps THEN todo ELSE 0

Talked ==
    /\ pc \in Speaking => Talk(sctx.messages, Unanswered)
    /\ pc \in EndSteps =>
        /\ OrphansAtSeam(sctx.messages)
        /\ AllAnswered(sctx.messages) \/ finish \in {"timeout", "cancelled"}

\* The conversation a run starts with: the calls of a history that is not whole do not
\* count, those of a whole one have their answers in it.
LEMMA OpeningTalk == Talk(Opening, 0)
<1> DEFINE o == Opening
<1>1. /\ History \in Seq(Message) /\ Len(History) \in Nat
      /\ \A i \in 1 .. Len(History) : History[i] \in Message /\ Count(History[i]) \in Nat
    <2>1. History \in Seq(Message)
        BY HistoryAssumption, Zenon
    <2> QED
        BY <2>1, Said, LenProperties
<1>a. ASSUME NEW i \in 1 .. Len(History)
      PROVE  /\ IsCalls(History[i]) <=> History[i].role = "calls" /\ Whole
             /\ IsTool(History[i]) <=> History[i].role = "tool" /\ Whole
    <2>1. DOMAIN History = 1 .. Len(History)
        BY HistoryAssumption
    <2>2. History[i].given
        BY <2>1, HistoryAssumption, Zenon
    <2> QED
        BY <2>2, Zenon DEF IsCalls, IsTool, Asks, Answers, Counts
<1>2. /\ <<System, User>> \in Seq(Message) /\ Len(<<System, User>>) = 2
      /\ <<System, User>>[1] = System /\ <<System, User>>[2] = User
    BY MessageFacts
<1>3. /\ o \in Seq(Message) /\ Len(o) = Len(History) + 2 /\ o[1] = System /\ o[2] = User
      /\ \A i \in 3 .. Len(o) : i - 2 \in 1 .. Len(History) /\ o[i] = History[i - 2]
    BY <1>1, <1>2, ConcatProperties DEF Opening
<1> HIDE DEF o
<1>4. ASSUME NEW i \in 1 .. Len(o), IsCalls(o[i]) \/ IsTool(o[i])
      PROVE  i \in 3 .. Len(o) /\ o[i] = History[i - 2] /\ Whole /\ i - 2 \in 1 .. Len(History)
    <2>1. i # 1 /\ i # 2
        BY <1>3, <1>4, MessageFacts
    <2>2. i \in 3 .. Len(o)
        BY <1>1, <1>3, <2>1
    <2> QED
        BY <1>a, <1>3, <1>4, <2>2
<1>b. Len(History) \in Nat /\ Len(o) = Len(History) + 2
    BY <1>1, <1>3
<1>5. ASSUME NEW i \in 1 .. Len(o), IsCalls(o[i])
      PROVE  /\ i + Count(o[i]) <= Len(o) + 0
             /\ \A j \in i + 1 .. i + Count(o[i]) : j <= Len(o) => IsTool(o[j])
    <2> DEFINE q == i - 2
    <2>1. i \in 3 .. Len(o) /\ q \in 1 .. Len(History) /\ o[i] = History[q] /\ Whole
        BY <1>4, <1>5
    <2>2. Count(o[i]) \in Nat /\ Count(o[i]) = History[q].n /\ History[q].role = "calls"
        BY <1>1, <1>a, <1>5, <2>1 DEF Count
    <2>3. \A j \in q + 1 .. q + Count(o[i]) : j \in 1 .. Len(History) /\ History[j].role = "tool"
        <3>1. DOMAIN History = 1 .. Len(History)
            BY <1>1
        <3> QED
            BY <2>1, <2>2, <3>1, Zenon DEF Whole, AnswersOf
    <2> DEFINE n == Count(o[i])
    <2>4. n \in Nat /\ i \in 3 .. Len(o) /\ \A j \in q + 1 .. q + n : j <= Len(History)
        BY <2>1, <2>2, <2>3
    <2> HIDE DEF n
    <2>5. i + n <= Len(o)
        <3>1. n = 0 \/ q + n \in q + 1 .. q + n
            BY <1>b, <2>4
        <3>2. n = 0 \/ q + n <= Len(History)
            BY <2>4, <3>1
        <3> QED
            BY <1>b, <2>4, <3>2
    <2>6. ASSUME NEW j \in i + 1 .. i + n PROVE IsTool(o[j])
        <3>0. n \in Nat /\ i \in Nat /\ i >= 3 /\ Len(o) \in Nat /\ i + n <= Len(o)
            BY <1>b, <2>4, <2>5
        <3>1. j \in 3 .. Len(o) /\ j - 2 \in q + 1 .. q + n
            BY <2>6, <3>0
        <3>2. j - 2 \in 1 .. Len(History) /\ o[j] = History[j - 2]
            BY <1>3, <3>1
        <3>3. History[j - 2].role = "tool"
            BY <2>3, <3>1 DEF n
        <3> QED
            BY <1>a, <2>1, <3>2, <3>3
    <2>7. i + n <= Len(o) + 0
        BY <1>b, <2>4, <2>5
    <2> QED
        BY <2>6, <2>7 DEF n
<1>6. Open(o, 0)
    BY <1>1, <1>3, <1>5 DEF Open
<1>7. ASSUME NEW j \in 1 .. Len(o), Orphan(o, j) PROVE FALSE
    <2> DEFINE q == j - 2
    <2>1. IsTool(o[j])
        BY <1>7, OrphanIs
    <2>2. j \in 3 .. Len(o) /\ q \in 1 .. Len(History) /\ o[j] = History[q] /\ Whole
        BY <1>4, <2>1
    <2>3. DOMAIN History = 1 .. Len(History) /\ History[q].role = "tool"
        BY <1>1, <1>a, <2>1, <2>2
    <2>4. PICK c \in 1 .. q - 1 : History[c].role = "calls" /\ q \in c + 1 .. c + History[c].n
        BY <2>2, <2>3, Zenon DEF Whole, AnswersOf
    <2>5. c \in 1 .. q - 1 /\ j \in 3 .. Len(o)
        BY <2>2
    <2>6. c \in 1 .. Len(History) /\ c + 2 \in 3 .. Len(o) /\ c + 2 \in 1 .. j - 1
        BY <1>b, <2>5
    <2> DEFINE i == c + 2
    <2>7. o[i] = History[c] /\ Count(History[c]) \in Nat
        <3>1. i - 2 = c
            BY <2>6
        <3> QED
            BY <1>1, <1>3, <2>6, <3>1
    <2>8. j \in i + 1 .. i + Count(o[i])
        <3> DEFINE n == Count(History[c])
        <3>1. n \in Nat /\ q \in c + 1 .. c + n
            BY <2>4, <2>7 DEF Count
        <3> HIDE DEF n
        <3>a. n \in Nat /\ j \in Nat /\ c \in Nat /\ j - 2 >= c + 1 /\ j - 2 <= c + n
            BY <1>b, <2>5, <3>1
        <3>2. j \in i + 1 .. i + n
            BY <3>a
        <3> QED
            BY <2>7, <3>2 DEF n
    <2>9. IsCalls(o[i])
        BY <1>a, <2>2, <2>4, <2>6, <2>7
    <2> QED
        BY <1>7, <2>6, <2>8, <2>9, OrphanIs
<1>8. Seam(o)
    BY <1>7 DEF Seam
<1> QED
    BY <1>6, <1>8 DEF Talk, o

LEMMA InitTalked == Init => Talked
BY OpeningTalk DEF Init, Fresh, Talked, Unanswered, Speaking, LoopSteps, BatchSteps, EndSteps

\* What becomes of the conversation: it stays, is left, is over or begins anew, or goes on.
LEMMA StaysTalked ==
    ASSUME Talked, pc \in Speaking, pc' \in Speaking, sctx'.messages = sctx.messages,
           Unanswered' = Unanswered
    PROVE  Talked'
BY DEF Talked, Speaking, LoopSteps, BatchSteps, EndSteps

LEMMA LeavesTalked ==
    ASSUME Talked, pc \in Speaking, NEW why, Finish(why), sctx'.messages = sctx.messages,
           Unanswered = 0 \/ why \in {"timeout", "cancelled"}
    PROVE  Talked'
<1>1. pc' = "left" /\ finish' = why
    BY DEF Finish
<1>2. OrphansAtSeam(sctx.messages) /\ (AllAnswered(sctx.messages) \/ why \in {"timeout", "cancelled"})
    BY TalkSays, TalkSeam DEF Talked
<1> QED
    BY <1>1, <1>2 DEF Talked, Speaking, LoopSteps, BatchSteps, EndSteps

LEMMA SilentTalked ==
    ASSUME pc' \in {"failure", "returned"}
    PROVE  Talked'
BY DEF Talked, Speaking, LoopSteps, BatchSteps, EndSteps

LEMMA AfterTalked ==
    ASSUME Talked, pc \in EndSteps, pc' \in EndSteps, sctx'.messages = sctx.messages,
           UNCHANGED finish
    PROVE  Talked'
BY DEF Talked, Speaking, LoopSteps, BatchSteps, EndSteps

LEMMA AnewTalked ==
    ASSUME pc' = "list", sctx' = Fresh
    PROVE  Talked'
BY OpeningTalk DEF Fresh, Talked, Unanswered, Speaking, LoopSteps, BatchSteps, EndSteps

LEMMA MoreTalked ==
    ASSUME Talked, pc \in Speaking \ BatchSteps, pc' \in Speaking \ BatchSteps,
           NEW e \in {System, Text}, sctx'.messages = Append(sctx.messages, e)
    PROVE  Talked'
<1>1. Talk(sctx.messages, 0)
    BY DEF Talked, Unanswered
<1>2. e \in Message /\ ~ IsCalls(e) /\ ~ IsTool(e) /\ sctx.messages \in Seq(Message)
    BY <1>1, MessageFacts DEF Talk, Open
<1>3. Talk(sctx'.messages, 0)
    BY <1>1, <1>2, AppendGrows, TalkGoesOn
<1> QED
    BY <1>3 DEF Talked, Unanswered, Speaking, LoopSteps, BatchSteps, EndSteps

LEMMA AnswerTalked ==
    ASSUME Talked, pc \in BatchSteps, pc' = "calls", todo \in Nat, todo > 0, todo' = todo - 1,
           sctx'.messages = Append(sctx.messages, ToolAnswer)
    PROVE  Talked'
<1>1. Talk(sctx.messages, todo)
    BY DEF Talked, Unanswered, Speaking, LoopSteps
<1>2. ToolAnswer \in Message /\ sctx.messages \in Seq(Message)
    BY <1>1, MessageFacts DEF Talk, Open
<1>3. Talk(sctx'.messages, todo - 1)
    BY <1>1, <1>2, AppendGrows, TalkAnswers
<1> QED
    BY <1>3 DEF Talked, Unanswered, Speaking, LoopSteps, BatchSteps, EndSteps

LEMMA CallsTalked ==
    ASSUME Talked, pc = "model", pc' = "calls", NEW n \in Nat, todo' = n,
           sctx'.messages = Append(sctx.messages, Calls(n))
    PROVE  Talked'
<1>1. Talk(sctx.messages, 0)
    BY DEF Talked, Unanswered, Speaking, LoopSteps, BatchSteps
<1>2. /\ Calls(n) \in Message /\ IsCalls(Calls(n)) /\ ~ IsTool(Calls(n)) /\ Count(Calls(n)) = n
      /\ sctx.messages \in Seq(Message)
    BY <1>1, MessageFacts DEF Talk, Open
<1>3. Talk(sctx'.messages, n)
    BY <1>1, <1>2, AppendGrows, TalkCalls
<1> QED
    BY <1>3 DEF Talked, Unanswered, Speaking, LoopSteps, BatchSteps, EndSteps

\* A run up to its loop.
LEMMA SetupTalks ==
    ASSUME IInv, Talked, SetupStep
    PROVE  Talked'
<1> USE DEF Speaking, LoopSteps, BatchSteps, Unanswered
<1>1. CASE Listed
    BY <1>1, StaysTalked DEF Listed
<1>2. CASE StartLoop
    <2>1. pc = "list" /\ UNCHANGED sctx
        BY <1>2 DEF StartLoop
    <2>2. CASE Finish("max_iterations")
        BY <2>1, <2>2, LeavesTalked
    <2>3. CASE Goto(<<"head">>)
        <3>1. pc' = "head"
            BY <2>3, Lists DEF Goto
        <3> QED
            BY <2>1, <3>1, StaysTalked
    <2> QED
        BY <1>2, <2>2, <2>3 DEF StartLoop
<1>3. ASSUME NEW broken, ListFails(broken) PROVE Talked'
    BY <1>3, SilentTalked DEF ListFails, Fail
<1>4. CASE SetupFails
    BY <1>4, SilentTalked DEF SetupFails, Fail
<1> QED
    BY <1>1, <1>2, <1>3, <1>4 DEF SetupStep

\* The responses and calls of an iteration.
LEMMA BatchTalks ==
    ASSUME IInv, Talked, BatchStep
    PROVE  Talked'
<1> USE DEF Speaking, LoopSteps, BatchSteps, Unanswered
<1>1. CASE BeginIteration
    <2>1. CASE Finish(Ended) /\ UNCHANGED sctx
        BY <1>1, <2>1, LeavesTalked DEF BeginIteration, Ended
    <2>2. CASE Goto(<<"model">>) /\ ctx = "live"
        <3>1. pc' = "model" /\ pc = "head"
            BY <1>1, <2>2, Lists DEF BeginIteration, Goto
        <3>2. \/ sctx'.messages = sctx.messages
              \/ sctx'.messages = Append(sctx.messages, System)
            BY <1>1, <2>2 DEF BeginIteration, IInv, Context
        <3>3. CASE sctx'.messages = sctx.messages
            BY <3>1, <3>3, StaysTalked
        <3>4. CASE sctx'.messages = Append(sctx.messages, System)
            BY <3>1, <3>4, MoreTalked
        <3> QED
            BY <3>2, <3>3, <3>4
    <2> QED
        BY <1>1, <2>1, <2>2 DEF BeginIteration
<1>2. ASSUME NEW broken, ModelFails(broken) PROVE Talked'
    <2>1. CASE Finish(Ended)
        BY <1>2, <2>1, LeavesTalked DEF ModelFails, Ended
    <2>2. CASE Fail
        BY <2>2, SilentTalked DEF Fail
    <2> QED
        BY <1>2, <2>1, <2>2 DEF ModelFails, EndOrFail
<1>3. ASSUME NEW blank \in BOOLEAN, ModelText(blank) PROVE Talked'
    <2>1. pc' = "limits" /\ pc = "model"
        BY <1>3, Lists DEF ModelText, Goto
    <2>2. sctx'.messages = Append(sctx.messages, Text)
        BY <1>3 DEF ModelText, IInv, Context
    <2> QED
        BY <2>1, <2>2, MoreTalked
<1>4. ASSUME NEW n \in 1 .. MaxBatch, ModelCalls(n) PROVE Talked'
    <2>1. pc' = "calls" /\ pc = "model" /\ todo' = n /\ n \in Nat
        BY <1>4, Lists DEF ModelCalls, Goto
    <2>2. sctx'.messages = Append(sctx.messages, Calls(n))
        BY <1>4 DEF ModelCalls, IInv, Context
    <2> QED
        BY <2>1, <2>2, CallsTalked
<1>5. pc \in BatchSteps => todo \in Nat
    BY DEF IInv, Budget
<1>6. ASSUME NEW tool \in Tools, NEW ts, NEW bs, CallBuiltin(tool, ts, bs) PROVE Talked'
    <2>1. sctx'.messages = Append(sctx.messages, ToolAnswer)
        BY <1>6 DEF CallBuiltin, IInv, Context
    <2> QED
        BY <1>5, <1>6, <2>1, AnswerTalked DEF CallBuiltin
<1>7. ASSUME NEW tool, NEW n, Answered(tool, n)
      PROVE  todo' = todo - 1 /\ sctx'.messages = Append(sctx.messages, ToolAnswer)
    BY <1>7 DEF Answered, IInv, Context
<1>8. pc \in {"tool", "code", "nested"} => todo > 0
    BY DEF IInv, Budget
<1>9. ASSUME NEW tool \in Tools, CallUnknown(tool) PROVE Talked'
    BY <1>5, <1>7, <1>9, AnswerTalked DEF CallUnknown
<1>10. ASSUME NEW tool \in Tools, CallTool(tool) PROVE Talked'
    <2>1. pc = "calls" /\ pc' = "tool" /\ UNCHANGED <<sctx, todo>>
        BY <1>10, Lists DEF CallTool, Goto
    <2> QED
        BY <2>1, StaysTalked
<1>11. ASSUME NEW kind, ToolAnswered(kind) PROVE Talked'
    <2>1. pc = "tool" /\ pc' = "calls" /\ Answered(call, 1)
        BY <1>11, Lists DEF ToolAnswered, Goto
    <2> QED
        BY <1>5, <1>7, <1>8, <2>1, AnswerTalked
<1>12. ASSUME NEW broken, ToolFails(broken) PROVE Talked'
    <2>1. CASE Finish(Ended)
        BY <1>12, <2>1, LeavesTalked DEF ToolFails, Ended
    <2>2. CASE Fail
        BY <2>2, SilentTalked DEF Fail
    <2> QED
        BY <1>12, <2>1, <2>2 DEF ToolFails, EndOrFail
<1>13. ASSUME NEW tool \in Tools, RunCode(tool) PROVE Talked'
    <2>1. pc = "calls" /\ pc' = "code" /\ UNCHANGED <<sctx, todo>>
        BY <1>13, Lists DEF RunCode, Goto
    <2> QED
        BY <2>1, StaysTalked
<1>14. CASE CodeCallsTool
    <2>1. pc = "code" /\ pc' = "nested" /\ UNCHANGED <<sctx, todo>>
        BY <1>14, Lists DEF CodeCallsTool, Goto
    <2> QED
        BY <2>1, StaysTalked
<1>15. ASSUME NEW broken, CodeToolAnswered(broken) PROVE Talked'
    <2>1. pc = "nested" /\ pc' = "code" /\ UNCHANGED todo
        BY <1>15, Lists DEF CodeToolAnswered, Goto, loopVars, batchVars
    <2>2. sctx'.messages = sctx.messages
        BY <1>15 DEF CodeToolAnswered, IInv, Context
    <2> QED
        BY <2>1, <2>2, StaysTalked
<1>16. CASE CodeEnds
    <2>1. pc = "code" /\ pc' = "calls" /\ Answered(call, 0)
        BY <1>16, Lists DEF CodeEnds, Goto
    <2> QED
        BY <1>5, <1>7, <1>8, <2>1, AnswerTalked
<1>17. CASE BatchDone
    <2>1. pc = "calls" /\ todo = 0 /\ UNCHANGED sctx
        BY <1>17 DEF BatchDone
    <2>2. CASE Finish("max_tool_calls")
        BY <2>1, <2>2, LeavesTalked
    <2>3. CASE Goto(<<"limits">>) \/ Goto(<<"model">>)
        <3>1. pc' = "limits" \/ pc' = "model"
            BY <2>3, Lists DEF Goto
        <3> QED
            BY <2>1, <3>1, StaysTalked
    <2> QED
        BY <1>17, <2>2, <2>3 DEF BatchDone
<1> QED
    BY <1>1, <1>2, <1>3, <1>4, <1>6, <1>9, <1>10, <1>11, <1>12, <1>13, <1>14, <1>15, <1>16, <1>17
       DEF BatchStep

\* The limits, the detector and the evaluation: no call is open.
LEMMA LoopTalks ==
    ASSUME IInv, Talked, LoopStep
    PROVE  Talked'
<1> USE DEF Speaking, LoopSteps, BatchSteps, Unanswered
<1>1. CASE Limits
    <2>1. pc = "limits" /\ UNCHANGED sctx
        BY <1>1 DEF Limits
    <2>2. CASE Finish("max_tool_calls")
        BY <2>1, <2>2, LeavesTalked
    <2>3. CASE Goto(<<"stuck">>)
        <3>1. pc' = "stuck"
            BY <2>3, Lists DEF Goto
        <3> QED
            BY <2>1, <3>1, StaysTalked
    <2> QED
        BY <1>1, <2>2, <2>3 DEF Limits
<1>2. CASE Record
    <2>1. pc = "stuck"
        BY <1>2 DEF Record
    <2>2. CASE pc' = pc /\ UNCHANGED sctx
        BY <2>1, <2>2, StaysTalked
    <2>3. CASE pc' = pc /\ sctx' = [sctx EXCEPT !.messages = Append(@, System)]
        <3>1. sctx'.messages = Append(sctx.messages, System)
            BY <2>3 DEF IInv, Context
        <3> QED
            BY <2>1, <2>3, <3>1, MoreTalked
    <2>4. CASE Goto(<<"reflect", "stuck">>) /\ UNCHANGED sctx
        <3>1. pc' = "reflect"
            BY <2>4, Lists DEF Goto
        <3> QED
            BY <2>1, <2>4, <3>1, StaysTalked
    <2>5. CASE Finish("stuck") /\ UNCHANGED sctx
        BY <2>1, <2>5, LeavesTalked
    <2> QED
        BY <1>2, Levels, <2>2, <2>3, <2>4, <2>5 DEF Record
<1>3. CASE Recorded
    <2>1. pc = "stuck" /\ UNCHANGED sctx
        BY <1>3 DEF Recorded
    <2>2. CASE Finish("done")
        BY <2>1, <2>2, LeavesTalked
    <2>3. CASE Goto(<<IF EvaluatorDisabled THEN "tail" ELSE "evaluate">>)
        <3>1. pc' \in {"tail", "evaluate"}
            BY <2>3, Lists DEF Goto
        <3> QED
            BY <2>1, <3>1, StaysTalked
    <2> QED
        BY <1>3, <2>2, <2>3 DEF Recorded
<1>4. ASSUME NEW broken, EvaluateFails(broken) PROVE Talked'
    <2>1. pc = "evaluate" /\ UNCHANGED sctx
        BY <1>4 DEF EvaluateFails
    <2>2. CASE Finish(Ended)
        BY <2>1, <2>2, LeavesTalked
    <2>3. CASE Goto(<<"size">>)
        <3>1. pc' = "size"
            BY <2>3, Lists DEF Goto
        <3> QED
            BY <2>1, <3>1, StaysTalked
    <2> QED
        BY <1>4, <2>2, <2>3 DEF EvaluateFails
<1>5. ASSUME NEW v \in Verdicts, Evaluated(v) PROVE Talked'
    <2>1. pc = "evaluate" /\ UNCHANGED sctx
        BY <1>5 DEF Evaluated
    <2>2. CASE Finish("done") \/ Finish("stuck")
        BY <2>1, <2>2, LeavesTalked
    <2>3. CASE Goto(Rest(v))
        BY <2>1, <2>3, RestFirst, StaysTalked
    <2> QED
        BY <1>5, <2>2, <2>3 DEF Evaluated, Rest
<1>6. ASSUME NEW broken, ReflectFails(broken) PROVE Talked'
    BY <1>6, SilentTalked DEF ReflectFails, Fail
<1>7. CASE Reflected
    <2>1. pc = "reflect" /\ pc' \in {"stuck", "size", "flush"}
        BY <1>7, AfterReflection DEF Reflected, IInv, Continues
    <2>2. sctx'.messages = Append(sctx.messages, System)
        BY <1>7 DEF Reflected, IInv, Context
    <2> QED
        BY <2>1, <2>2, MoreTalked
<1>8. ASSUME NEW broken, Flush(broken) PROVE Talked'
    <2>1. pc = "flush" /\ pc' = "summary" /\ UNCHANGED sctx
        BY <1>8, AfterFlush DEF Flush, IInv, Continues
    <2> QED
        BY <2>1, StaysTalked
<1>9. CASE Summarised
    <2>1. pc = "summary" /\ pc' \in {"size", "tail"}
        BY <1>9, AfterSummary DEF Summarised, IInv, Continues
    <2>2. sctx'.messages = Compacted(sctx.messages)
        BY <1>9 DEF Summarised, IInv, Context
    <2>3. Talk(sctx.messages, 0)
        BY <2>1 DEF Talked
    <2>4. Talk(sctx'.messages, 0)
        BY <2>2, <2>3, TalkCompacted
    <2> QED
        BY <2>1, <2>4 DEF Talked, EndSteps
<1>10. ASSUME NEW broken, SummaryFails(broken) PROVE Talked'
    <2>1. pc = "summary" /\ pc' \in {"size", "tail"} /\ UNCHANGED sctx
        BY <1>10, AfterSummary DEF SummaryFails, IInv, Continues
    <2> QED
        BY <2>1, StaysTalked
<1>11. ASSUME NEW over \in BOOLEAN, CheckSize(over) PROVE Talked'
    <2>1. pc = "size" /\ pc' \in {"tail", "flush"} /\ UNCHANGED sctx
        BY <1>11, Lists DEF CheckSize, Goto
    <2> QED
        BY <2>1, StaysTalked
<1>12. CASE NextIteration
    <2>1. pc = "tail" /\ sctx'.messages = sctx.messages
        BY <1>12 DEF NextIteration, IInv, Context
    <2>2. CASE Finish("stuck") \/ Finish("max_iterations")
        BY <2>1, <2>2, LeavesTalked
    <2>3. CASE Goto(<<"head">>)
        <3>1. pc' = "head"
            BY <2>3, Lists DEF Goto
        <3> QED
            BY <2>1, <3>1, StaysTalked
    <2> QED
        BY <1>12, <2>2, <2>3 DEF NextIteration
<1> QED
    BY <1>1, <1>2, <1>3, <1>4, <1>5, <1>6, <1>7, <1>8, <1>9, <1>10, <1>11, <1>12
       DEF LoopStep

\* The outputs and the report, and runs that follow.
LEMMA EndTalks ==
    ASSUME IInv, Talked, EndStep
    PROVE  Talked'
<1> USE DEF EndSteps
<1>1. CASE LeaveLoop
    <2>1. pc = "left" /\ pc' = "outputs" /\ UNCHANGED finish
        BY <1>1, Lists DEF LeaveLoop, Goto
    <2>2. sctx'.messages = sctx.messages
        BY <1>1 DEF LeaveLoop, IInv, Context
    <2> QED
        BY <2>1, <2>2, AfterTalked
<1>2. CASE ResolvePort
    BY <1>2, AfterTalked DEF ResolvePort
<1>3. CASE ExtractPort
    <2>1. pc = "outputs" /\ pc' = "extract" /\ UNCHANGED <<sctx, finish>>
        BY <1>3, Lists DEF ExtractPort, Goto, loopVars
    <2> QED
        BY <2>1, AfterTalked
<1>4. CASE Extracted
    <2>1. pc = "extract" /\ pc' = "outputs" /\ UNCHANGED <<sctx, finish>>
        BY <1>4, Lists DEF Extracted, Goto
    <2> QED
        BY <2>1, AfterTalked
<1>5. ASSUME NEW broken, ExtractFails(broken) PROVE Talked'
    BY <1>5, SilentTalked DEF ExtractFails, Fail
<1>6. CASE OutputsDone
    <2>1. pc = "outputs" /\ pc' = "push" /\ UNCHANGED <<sctx, finish>>
        BY <1>6, Lists DEF OutputsDone, Goto, loopVars
    <2> QED
        BY <2>1, AfterTalked
<1>7. CASE Push
    BY <1>7, Lists, SilentTalked DEF Push, Goto
<1>8. ASSUME NEW fresh, Begin(fresh) PROVE Talked'
    BY <1>8, AnewTalked DEF Begin
<1>9. ASSUME NEW fresh, PushFails(fresh) PROVE Talked'
    <2>1. CASE Goto(<<"returned">>)
        BY <2>1, Lists, SilentTalked DEF Goto
    <2> QED
        BY <1>8, <1>9, <2>1 DEF PushFails
<1> QED
    BY <1>1, <1>2, <1>3, <1>4, <1>5, <1>6, <1>7, <1>8, <1>9 DEF EndStep

LEMMA StepTalks == IInv /\ Talked /\ [Next]_vars => Talked'
<1> SUFFICES ASSUME IInv, Talked, [Next]_vars PROVE Talked'
    OBVIOUS
<1>1. ASSUME UNCHANGED <<pc, sctx, todo, finish>> PROVE Talked'
    BY <1>1 DEF Talked, Unanswered
<1>2. CASE Ask
    BY <1>1, <1>2 DEF Ask, loopVars, batchVars
<1>3. CASE TimeUp
    BY <1>1, <1>3 DEF TimeUp, loopVars, batchVars
<1>4. ASSUME NEW r, NEW again, Serve(r, again) PROVE Talked'
    BY <1>1, <1>4 DEF Serve, loopVars, batchVars
<1>5. CASE UNCHANGED vars
    BY <1>1, <1>5 DEF vars, batchVars
<1> QED
    BY <1>2, <1>3, <1>4, <1>5, StepKinds, SetupTalks, BatchTalks, LoopTalks, EndTalks

\* What the model is sent has an answer to every tool call of the agent, right behind it,
\* whatever history it was given, and to every call at all when that history is whole; it
\* has answers without a call only where a compaction cut, whatever the tools, the limits,
\* the detector and the evaluator do.  After a loop that ran out of time in a batch the
\* extraction sees calls without an answer (runAgentLoop, compactContext, extractOutputs).
THEOREM ConversationHolds == Spec => []Conversation
<1>1. Talked => Conversation
    <2> SUFFICES ASSUME Talked, pc \in {"model", "evaluate", "reflect", "flush", "summary", "extract"}
                 PROVE  /\ AllAnswered(sctx.messages) \/ (pc = "extract" /\ finish \in {"timeout", "cancelled"})
                        /\ OrphansAtSeam(sctx.messages)
        BY DEF Conversation
    <2>1. CASE pc = "extract"
        BY <2>1 DEF Talked, EndSteps
    <2>2. CASE pc # "extract"
        <3>1. Talk(sctx.messages, 0)
            BY <2>2 DEF Talked, Speaking, LoopSteps, BatchSteps, Unanswered
        <3> QED
            BY <3>1, TalkSays
    <2> QED
        BY <2>1, <2>2
<1> QED
    BY <1>1, InitIInv, StepKeeps, InitTalked, StepTalks, PTL DEF Spec
=============================================================================
