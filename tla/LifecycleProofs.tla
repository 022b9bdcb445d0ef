--------------------------- MODULE LifecycleProofs ---------------------------
(***************************************************************************)
(* Proofs about the execution record for any number of cancelling requests *)
(* and streaming clients: the types, that a sync request which subscribes  *)
(* first cannot miss the end, that copies written over each other never    *)
(* mix an output or an error with another status, that the answer to a     *)
(* sync request is what the row says, and that the row left standing is an *)
(* end which was published.  Last the step writer, which is closed         *)
(* before the record is written, for every buffer and number of steps: the *)
(* types, the exactness of the WaitGroup, and that no accepted step is     *)
(* overtaken by the record.                                                *)
(***************************************************************************)
EXTENDS Lifecycle, StepWriter, Integers, Sequences, SequenceTheorems, TLAPS

-----------------------------------------------------------------------------
(* What a list holds.                                                      *)

Elems(s) == {s[i] : i \in 1 .. Len(s)}

\* The length of a sequence is a natural number, zero exactly for the empty one.
LEMMA LenFacts ==
    ASSUME NEW S, NEW s \in Seq(S)
    PROVE  Len(s) \in Nat /\ (s = << >> <=> Len(s) = 0) /\ Elems(s) \subseteq S
BY DEF Elems

\* The empty sequence holds nothing.
LEMMA ElemsEmpty == Elems(<< >>) = {}
BY DEF Elems

\* Append adds one element at the end.
LEMMA ElemsAppend ==
    ASSUME NEW S, NEW s \in Seq(S), NEW e \in S
    PROVE  /\ Append(s, e) \in Seq(S)
           /\ Len(Append(s, e)) = Len(s) + 1
           /\ Elems(Append(s, e)) = Elems(s) \cup {e}
<1> DEFINE t == Append(s, e)
<1>1. /\ t \in Seq(S) /\ Len(t) = Len(s) + 1 /\ Len(s) \in Nat
      /\ \A i \in 1 .. Len(s) : t[i] = s[i]
      /\ t[Len(s) + 1] = e
    BY AppendProperties, LenFacts
<1> HIDE DEF t
<1>2. 1 .. Len(t) = (1 .. Len(s)) \cup {Len(s) + 1}
    BY <1>1
<1>3. Elems(t) = Elems(s) \cup {e}
    BY <1>1, <1>2 DEF Elems
<1> QED
    BY <1>1, <1>3 DEF t

\* Tail takes the first element away; it may be there again further back.
LEMMA ElemsTail ==
    ASSUME NEW S, NEW s \in Seq(S), s # << >>
    PROVE  /\ Head(s) \in S /\ Tail(s) \in Seq(S)
           /\ Len(Tail(s)) = Len(s) - 1 /\ Len(s) \in Nat \ {0}
           /\ Elems(s) = {Head(s)} \cup Elems(Tail(s))
<1> DEFINE t == Tail(s)
<1>1. /\ Head(s) \in S /\ t \in Seq(S) /\ Len(t) = Len(s) - 1 /\ Len(s) \in Nat \ {0}
      /\ \A i \in 1 .. Len(t) : t[i] = s[i + 1]
      /\ Head(s) = s[1]
    BY HeadTailProperties, LenFacts
<1> HIDE DEF t
<1>2. /\ \A i \in 1 .. Len(s) : i = 1 \/ (i - 1 \in 1 .. Len(t) /\ s[i] = t[i - 1])
      /\ 1 \in 1 .. Len(s) /\ \A i \in 1 .. Len(t) : i + 1 \in 1 .. Len(s)
    BY <1>1
<1>3. Elems(s) = {Head(s)} \cup Elems(t)
    BY <1>1, <1>2 DEF Elems
<1> QED
    BY <1>1, <1>3 DEF t

-----------------------------------------------------------------------------

USE LifecycleAssumption

\* What publishing an event does to the channel and to the inboxes.
LEMMA PublishFacts ==
    ASSUME TypeOK, NEW e \in Event, Publish(e)
    PROVE  /\ inbox' \in [Listener -> Seq(Event)]
           /\ published' \in Seq(Event)
           /\ Elems(published') = Elems(published) \cup {e}
           /\ \A l \in Listener : Elems(inbox[l]) \subseteq Elems(inbox'[l])
           /\ EventsLost = FALSE => \A l \in Listening : e \in Elems(inbox'[l])
<1>1. published \in Seq(Event) /\ inbox \in [Listener -> Seq(Event)]
    BY DEF TypeOK
<1>2. /\ Append(published, e) \in Seq(Event)
      /\ Elems(Append(published, e)) = Elems(published) \cup {e}
    BY <1>1, ElemsAppend
<1>3. \A l \in Listener : /\ Append(inbox[l], e) \in Seq(Event)
                          /\ Elems(Append(inbox[l], e)) = Elems(inbox[l]) \cup {e}
    BY <1>1, ElemsAppend
<1>4. PICK missed \in IF EventsLost THEN SUBSET Listening ELSE {{}} :
        /\ inbox' = [l \in Listener |->
                        IF l \in Listening \ missed THEN Append(inbox[l], e) ELSE inbox[l]]
        /\ published' = Append(published, e)
    BY DEF Publish
<1>5. Listening \subseteq Listener
    BY DEF Listening, Listener
<1>6. EventsLost = FALSE => missed = {}
    BY <1>4
<1> QED
    BY <1>1, <1>2, <1>3, <1>4, <1>5, <1>6

-----------------------------------------------------------------------------
(* Types.  They need to know that the event published last is one.         *)

Decided == orch \in {"ending", "saving", "telling"} => outcome # "none"
TypeInv == TypeOK /\ Decided

LEMMA InitTypes == Init => TypeInv
<1> SUFFICES ASSUME Init PROVE TypeInv
    OBVIOUS
<1>1. NoRow \in Row
    BY DEF NoRow, Row
<1>2. << >> \in Seq(Event)
    OBVIOUS
<1> QED
    BY <1>1, <1>2 DEF Init, TypeInv, Decided, TypeOK, Answers

\* Every statement on the row leaves a row.
LEMMA SaveTypes ==
    ASSUME TypeOK, NEW new \in Row, NEW ok, Save(new, ok)
    PROVE  row' \in Row
BY DEF Save, TypeOK

LEMMA RequestTypes == TypeInv /\ (Requesting \/ SyncTimeout) => TypeInv'
<1> SUFFICES ASSUME TypeInv, Requesting \/ SyncTimeout PROVE TypeInv'
    OBVIOUS
<1> USE DEF TypeInv, Decided, requestVars, orchVars, cancelVars, streamVars, eventVars
<1>1. CASE Create
    <2>1. row' \in Row
        <3>1. [NoRow EXCEPT !.status = "pending"] \in Row
            BY DEF NoRow, Row
        <3> QED
            BY <1>1, <3>1, SaveTypes DEF Create
    <2>2. /\ mode' = mode
          /\ \/ invoker' \in {"subscribe", "enqueue"} /\ answer' = "none"
             \/ invoker' = "answered" /\ answer' = "error"
        BY <1>1 DEF Create, Answer, TypeOK
    <2> QED
        BY <1>1, <2>1, <2>2 DEF Create, TypeOK, Answers
<1>2. CASE Subscribe
    <2>1. /\ mode' = mode
          /\ \/ invoker' = "enqueue" /\ answer' = "none"
             \/ invoker' = "answered" /\ answer' = "error"
        BY <1>2 DEF Subscribe, Answer, TypeOK
    <2> QED
        BY <1>2, <2>1 DEF Subscribe, TypeOK, Answers
<1>3. CASE Enqueue
    BY <1>3 DEF Enqueue, TypeOK, Answers
<1>4. CASE Queued
    <2>1. /\ mode' = mode
          /\ \/ invoker' = "waiting" /\ answer' = "none"
             \/ invoker' = "answered" /\ answer' = "accepted"
        BY <1>4 DEF Queued, Answer, TypeOK
    <2> QED
        BY <1>4, <2>1 DEF Queued, TypeOK, Answers
<1>5. CASE RecordEnqueueFailure
    <2>1. row' \in Row
        <3>1. [NoRow EXCEPT !.status = "failed", !.error = TRUE] \in Row
            BY DEF NoRow, Row, Final
        <3> QED
            BY <1>5, <3>1, SaveTypes DEF RecordEnqueueFailure
    <2> QED
        BY <1>5, <2>1 DEF RecordEnqueueFailure, Answer, TypeOK, Answers
<1>6. CASE Receive
    <2>1. Api \in Listener /\ inbox[Api] \in Seq(Event) /\ inbox[Api] # << >>
        BY <1>6 DEF Receive, TypeOK, Listener
    <2>2. Tail(inbox[Api]) \in Seq(Event) /\ Head(inbox[Api]) \in Event
        BY <2>1, ElemsTail
    <2>3. inbox' \in [Listener -> Seq(Event)]
        BY <1>6, <2>1, <2>2 DEF Receive, TypeOK
    <2>4. /\ mode' = mode
          /\ \/ invoker' = invoker /\ answer' = answer
             \/ invoker' = "answered" /\ answer' \in Final
        BY <1>6 DEF Receive, Answer
    <2> QED
        BY <1>6, <2>3, <2>4 DEF Receive, TypeOK, Answers, Final
<1>7. CASE SyncTimeout
    BY <1>7 DEF SyncTimeout, Answer, TypeOK, Answers
<1> QED
    BY <1>1, <1>2, <1>3, <1>4, <1>5, <1>6, <1>7 DEF Requesting

LEMMA OrchestratorTypes == TypeInv /\ (Orchestrating \/ EmitNode \/ Die) => TypeInv'
<1> SUFFICES ASSUME TypeInv, Orchestrating \/ EmitNode \/ Die PROVE TypeInv'
    OBVIOUS
<1> USE DEF TypeInv, Decided, requestVars, orchVars, cancelVars, streamVars, eventVars
<1>1. CASE Take
    BY <1>1 DEF Take, TypeOK
<1>2. CASE ReadStart
    BY <1>2 DEF ReadStart, TypeOK
<1>3. CASE WriteStart
    <2>1. row' \in Row
        <3>1. [copy EXCEPT !.status = "running"] \in Row
            BY DEF TypeOK, Row
        <3> QED
            BY <1>3, <3>1, SaveTypes DEF WriteStart
    <2> QED
        BY <1>3, <2>1 DEF WriteStart, TypeOK
<1>4. CASE Announce
    <2>1. inbox' \in [Listener -> Seq(Event)] /\ published' \in Seq(Event)
        BY <1>4, PublishFacts DEF Announce, Event
    <2> QED
        BY <1>4, <2>1 DEF Announce, TypeOK
<1>5. CASE EndGraph
    BY <1>5 DEF EndGraph, TypeOK
<1>6. CASE ReadFinal
    BY <1>6 DEF ReadFinal, TypeOK
<1>7. CASE WriteFinal
    <2>1. row' \in Row
        <3>1. /\ [copy EXCEPT !.status = "completed", !.output = TRUE] \in Row
              /\ [copy EXCEPT !.status = "failed", !.error = TRUE] \in Row
            BY DEF TypeOK, Row, Final
        <3> QED
            BY <1>7, <3>1, SaveTypes DEF WriteFinal
    <2> QED
        BY <1>7, <2>1 DEF WriteFinal, TypeOK
<1>8. CASE PublishFinal
    <2>1. outcome \in Event
        BY <1>8 DEF PublishFinal, TypeOK, Event, Final
    <2>2. inbox' \in [Listener -> Seq(Event)] /\ published' \in Seq(Event)
        BY <1>8, <2>1, PublishFacts DEF PublishFinal
    <2> QED
        BY <1>8, <2>2 DEF PublishFinal, TypeOK
<1>9. CASE EmitNode
    <2>1. inbox' \in [Listener -> Seq(Event)] /\ published' \in Seq(Event)
        BY <1>9, PublishFacts DEF EmitNode, Event
    <2> QED
        BY <1>9, <2>1 DEF EmitNode, TypeOK
<1>10. CASE Die
    BY <1>10 DEF Die, TypeOK
<1> QED
    BY <1>1, <1>2, <1>3, <1>4, <1>5, <1>6, <1>7, <1>8, <1>9, <1>10 DEF Orchestrating

LEMMA CancelTypes ==
    ASSUME TypeInv, NEW c \in Canceller, CancelRead(c) \/ Cancelling(c) PROVE TypeInv'
<1> USE DEF TypeInv, Decided, requestVars, orchVars, cancelVars, streamVars, eventVars
<1>1. CASE CancelRead(c)
    BY <1>1 DEF CancelRead, TypeOK
<1>2. CASE CancelWrite(c)
    <2>1. row' \in Row
        <3>1. [read[c] EXCEPT !.status = "cancelled"] \in Row
            <4>1. read[c] \in Row
                BY DEF TypeOK
            <4> QED
                BY <4>1 DEF Row, Final
        <3> QED
            BY <1>2, <3>1, SaveTypes DEF CancelWrite
    <2> QED
        BY <1>2, <2>1 DEF CancelWrite, TypeOK
<1>3. CASE CancelPublish(c)
    <2>1. inbox' \in [Listener -> Seq(Event)] /\ published' \in Seq(Event)
        BY <1>3, PublishFacts DEF CancelPublish, Event, Final
    <2> QED
        BY <1>3, <2>1 DEF CancelPublish, TypeOK
<1> QED
    BY <1>1, <1>2, <1>3 DEF Cancelling

LEMMA StreamTypes ==
    ASSUME TypeInv, NEW s \in Streamer, Connect(s) \/ Deliver(s) \/ Disconnect(s)
    PROVE  TypeInv'
<1> USE DEF TypeInv, Decided, requestVars, orchVars, cancelVars, streamVars, eventVars
<1>1. CASE Connect(s)
    BY <1>1 DEF Connect, TypeOK
<1>2. CASE Deliver(s)
    <2>1. s \in Listener /\ inbox[s] \in Seq(Event) /\ inbox[s] # << >> /\ seen[s] \in Seq(Event)
        BY <1>2 DEF Deliver, TypeOK, Listener
    <2>2. Tail(inbox[s]) \in Seq(Event) /\ Head(inbox[s]) \in Event
        BY <2>1, ElemsTail
    <2>3. Append(seen[s], Head(inbox[s])) \in Seq(Event)
        BY <2>1, <2>2, ElemsAppend
    <2>4. inbox' \in [Listener -> Seq(Event)] /\ seen' \in [Streamer -> Seq(Event)]
        BY <1>2, <2>1, <2>2, <2>3 DEF Deliver, TypeOK
    <2>5. stream' \in [Streamer -> {"idle", "open", "gone", "closed"}]
        BY <1>2 DEF Deliver, TypeOK
    <2> QED
        BY <1>2, <2>4, <2>5 DEF Deliver, TypeOK
<1>3. CASE Disconnect(s)
    <2>1. inbox' \in [Listener -> Seq(Event)]
        <3>1. << >> \in Seq(Event) /\ s \in Listener
            BY DEF Listener
        <3>2. inbox \in [Listener -> Seq(Event)]
            BY DEF TypeOK
        <3> QED
            BY <1>3, <3>1, <3>2 DEF Disconnect
    <2> QED
        BY <1>3, <2>1 DEF Disconnect, TypeOK
<1> QED
    BY <1>1, <1>2, <1>3

\* A step of Next is one of a request, of the orchestrator, of a canceller or of a client.
LEMMA TypesKept == TypeInv /\ [Next]_vars => TypeInv'
<1> SUFFICES ASSUME TypeInv, [Next]_vars PROVE TypeInv'
    OBVIOUS
<1>1. CASE UNCHANGED vars
    BY <1>1 DEF vars, TypeInv, Decided, TypeOK, requestVars, orchVars, cancelVars, streamVars, eventVars
<1> QED
    BY <1>1, RequestTypes, OrchestratorTypes, CancelTypes, StreamTypes DEF Next

\* The types of the state are an invariant, for any cancellers and streaming clients.
THEOREM TypeCorrect == Spec => []TypeOK
<1>1. TypeInv => TypeOK
    BY DEF TypeInv
<1> QED
    BY <1>1, InitTypes, TypesKept, PTL DEF Spec

THEOREM TypesInvariant == Spec => []TypeInv
BY InitTypes, TypesKept, PTL DEF Spec

-----------------------------------------------------------------------------
(* Copies written over each other.                                         *)

Clean(r) == r.output = FALSE /\ r.error = FALSE

\* The request has not met an error: one of the queue would write an error into the row.
NoRefusal == invoker # "record" /\ answer # "error"

\* Until the orchestrator writes the end, the row and every copy of it that will be
\* written back is clean.
CopiesClean ==
    /\ invoker \in {"create", "subscribe", "enqueue"} => orch = "none"
    /\ orch \notin {"telling", "done", "dead"} => Clean(row)
    /\ orch \in {"starting", "saving"} => Clean(copy)
    /\ \A c \in Canceller : cancel[c] = "checked" => Clean(read[c])

Rows ==
    /\ row.output = (row.status = "completed")
    /\ row.error = (row.status = "failed")

ConsistentInv == NoRefusal => Rows /\ CopiesClean

LEMMA RequestsConsistent ==
    ASSUME TypeInv, ConsistentInv, Requesting \/ SyncTimeout
    PROVE  ConsistentInv'
<1> SUFFICES ASSUME NoRefusal' PROVE Rows' /\ CopiesClean'
    BY DEF ConsistentInv
<1>0. NoRefusal /\ Rows /\ CopiesClean
    <2>1. answer' = "error" \/ invoker' = "record" \/ (answer # "error" /\ invoker # "record")
        BY DEF Requesting, SyncTimeout, Create, Subscribe, Enqueue, Queued, RecordEnqueueFailure,
               Receive, Answer, TypeInv, TypeOK, requestVars
    <2> QED
        BY <2>1 DEF NoRefusal, ConsistentInv
<1> USE <1>0 DEF TypeInv, CopiesClean, requestVars, orchVars, cancelVars, streamVars, eventVars
<1>1. CASE Create
    <2>1. row' \in {row, [NoRow EXCEPT !.status = "pending"]} /\ invoker' # "record"
        BY <1>1 DEF Create, Save, Answer
    <2>2. Clean([NoRow EXCEPT !.status = "pending"]) /\ [NoRow EXCEPT !.status = "pending"].status = "pending"
        BY DEF NoRow, Clean
    <2>3. Rows'
        BY <2>1, <2>2 DEF Rows, Clean
    <2> QED
        BY <1>1, <2>1, <2>2, <2>3 DEF Create, Clean
<1>2. CASE Subscribe
    BY <1>2 DEF Subscribe, Answer, Rows, Clean
<1>3. CASE Enqueue
    BY <1>3 DEF Enqueue, NoRefusal, Rows, Clean
<1>4. CASE Queued
    BY <1>4 DEF Queued, Answer, Rows, Clean
<1>5. CASE RecordEnqueueFailure
    BY <1>5 DEF RecordEnqueueFailure, NoRefusal
<1>6. CASE Receive
    BY <1>6 DEF Receive, Answer, Rows, Clean
<1>7. CASE SyncTimeout
    BY <1>7 DEF SyncTimeout, Answer, Rows, Clean
<1> QED
    BY <1>1, <1>2, <1>3, <1>4, <1>5, <1>6, <1>7 DEF Requesting

LEMMA OrchestratorConsistent ==
    ASSUME TypeInv, Rows, CopiesClean, Orchestrating \/ EmitNode \/ Die
    PROVE  Rows' /\ CopiesClean'
<1> USE DEF TypeInv, CopiesClean, requestVars, orchVars, cancelVars, streamVars, eventVars
<1>1. CASE Take
    BY <1>1 DEF Take, Rows, Clean
<1>2. CASE ReadStart
    BY <1>2 DEF ReadStart, Rows, Clean
<1>3. CASE WriteStart
    <2>1. row' \in {row, [copy EXCEPT !.status = "running"]}
        BY <1>3 DEF WriteStart, Save
    <2>2. copy \in Row /\ Clean(copy)
        BY <1>3 DEF WriteStart, TypeOK
    <2>3. /\ Clean([copy EXCEPT !.status = "running"])
          /\ [copy EXCEPT !.status = "running"].status = "running"
        BY <2>2 DEF Row, Clean
    <2> QED
        BY <1>3, <2>1, <2>3 DEF WriteStart, Rows, Clean
<1>4. CASE Announce
    BY <1>4 DEF Announce, Rows, Clean
<1>5. CASE EndGraph
    BY <1>5 DEF EndGraph, Rows, Clean
<1>6. CASE ReadFinal
    BY <1>6 DEF ReadFinal, Rows, Clean
<1>7. CASE WriteFinal
    <2> DEFINE done == [copy EXCEPT !.status = "completed", !.output = TRUE]
               bad  == [copy EXCEPT !.status = "failed", !.error = TRUE]
    <2>1. row' \in {row, done, bad}
        BY <1>7 DEF WriteFinal, Save
    <2>2. copy \in Row /\ Clean(copy)
        BY <1>7 DEF WriteFinal, TypeOK
    <2>3. /\ done.status = "completed" /\ done.output = TRUE /\ done.error = FALSE
          /\ bad.status = "failed" /\ bad.output = FALSE /\ bad.error = TRUE
        BY <2>2 DEF Row, Clean
    <2>4. Rows'
        BY <2>1, <2>3 DEF Rows
    <2> QED
        BY <1>7, <2>4 DEF WriteFinal, Clean
<1>8. CASE PublishFinal
    BY <1>8 DEF PublishFinal, Rows, Clean
<1>9. CASE EmitNode
    BY <1>9 DEF EmitNode, Rows, Clean
<1>10. CASE Die
    BY <1>10 DEF Die, Rows, Clean
<1> QED
    BY <1>1, <1>2, <1>3, <1>4, <1>5, <1>6, <1>7, <1>8, <1>9, <1>10 DEF Orchestrating

\* A request that cancels goes on only with a row that is not final, so its copy is clean.
LEMMA CancelConsistent ==
    ASSUME TypeInv, Rows, CopiesClean, NEW c \in Canceller, CancelRead(c) \/ Cancelling(c)
    PROVE  Rows' /\ CopiesClean'
<1> USE DEF TypeInv, CopiesClean, requestVars, orchVars, cancelVars, streamVars, eventVars
<1>0. cancel \in [Canceller -> {"idle", "checked", "telling", "ok", "conflict", "error"}]
      /\ read \in [Canceller -> Row]
    BY DEF TypeOK
<1>1. CASE CancelRead(c)
    <2>1. cancel'[c] = "checked" => Clean(read'[c])
        <3> SUFFICES ASSUME cancel'[c] = "checked" PROVE Clean(read'[c])
            OBVIOUS
        <3>1. read'[c] = row /\ row.status \in {"pending", "running"}
            BY <1>0, <1>1 DEF CancelRead
        <3>2. row \in Row
            BY DEF TypeOK
        <3> QED
            BY <3>1, <3>2 DEF Rows, Clean, Row
    <2>2. \A d \in Canceller : d # c => cancel'[d] = cancel[d] /\ read'[d] = read[d]
        BY <1>0, <1>1 DEF CancelRead
    <2> QED
        BY <1>1, <2>1, <2>2 DEF CancelRead, Rows, Clean
<1>2. CASE CancelWrite(c)
    <2>1. row' \in {row, [read[c] EXCEPT !.status = "cancelled"]}
        BY <1>2 DEF CancelWrite, Save
    <2>2. read[c] \in Row /\ Clean(read[c])
        BY <1>0, <1>2 DEF CancelWrite
    <2>3. /\ Clean([read[c] EXCEPT !.status = "cancelled"])
          /\ [read[c] EXCEPT !.status = "cancelled"].status = "cancelled"
        BY <2>2 DEF Row, Clean
    <2>4. \A d \in Canceller : cancel'[d] = "checked" => cancel[d] = "checked"
        BY <1>0, <1>2 DEF CancelWrite
    <2> QED
        BY <1>2, <2>1, <2>3, <2>4 DEF CancelWrite, Rows, Clean
<1>3. CASE CancelPublish(c)
    <2>1. \A d \in Canceller : cancel'[d] = "checked" => cancel[d] = "checked"
        BY <1>0, <1>3 DEF CancelPublish
    <2> QED
        BY <1>3, <2>1 DEF CancelPublish, Rows, Clean
<1> QED
    BY <1>1, <1>2, <1>3 DEF Cancelling

\* Nobody but the request itself changes what it answered.
LEMMA OthersKeepAnswer ==
    /\ Orchestrating \/ EmitNode \/ Die => UNCHANGED <<invoker, answer>>
    /\ \A c \in Canceller : CancelRead(c) \/ Cancelling(c) => UNCHANGED <<invoker, answer>>
    /\ \A s \in Streamer : Connect(s) \/ Deliver(s) \/ Disconnect(s)
            => UNCHANGED <<invoker, answer, row, orch, copy, cancel, read>>
BY DEF Orchestrating, Take, ReadStart, WriteStart, Announce, EndGraph, ReadFinal, WriteFinal,
       PublishFinal, EmitNode, Die, CancelRead, Cancelling, CancelWrite, CancelPublish,
       Connect, Deliver, Disconnect, requestVars, orchVars, cancelVars

\* A row is completed exactly when it has an output and failed exactly when it has an
\* error, for any number of cancelling requests, whatever calls of the store return and
\* wherever the worker dies, unless the request answered an error.
THEOREM RowConsistent == Spec => []ConsistentRow
<1>1. Init => ConsistentInv
    <2> SUFFICES ASSUME Init PROVE ConsistentInv
        OBVIOUS
    <2>1. Rows /\ Clean(row)
        BY DEF Init, Rows, NoRow, Clean
    <2>2. invoker = "create" /\ orch = "none" /\ \A c \in Canceller : cancel[c] = "idle"
        BY DEF Init
    <2> QED
        BY <2>1, <2>2 DEF ConsistentInv, CopiesClean
<1>2. TypeInv /\ ConsistentInv /\ [Next]_vars => ConsistentInv'
    <2> SUFFICES ASSUME TypeInv, ConsistentInv, [Next]_vars PROVE ConsistentInv'
        OBVIOUS
    <2>1. CASE UNCHANGED <<invoker, answer, row, orch, copy, cancel, read>>
        BY <2>1 DEF ConsistentInv, NoRefusal, Rows, CopiesClean, Clean
    <2>2. UNCHANGED vars => UNCHANGED <<invoker, answer, row, orch, copy, cancel, read>>
        BY DEF vars, requestVars, orchVars, cancelVars
    <2>3. CASE Orchestrating \/ EmitNode \/ Die
        BY <2>3, OrchestratorConsistent, OthersKeepAnswer DEF ConsistentInv, NoRefusal
    <2>4. CASE \E c \in Canceller : CancelRead(c) \/ Cancelling(c)
        BY <2>4, CancelConsistent, OthersKeepAnswer DEF ConsistentInv, NoRefusal
    <2> QED
        BY <2>1, <2>2, <2>3, <2>4, RequestsConsistent, OthersKeepAnswer DEF Next
<1>3. ConsistentInv => ConsistentRow
    BY DEF ConsistentInv, ConsistentRow, NoRefusal, Rows
<1> QED
    BY <1>1, <1>2, <1>3, TypesInvariant, PTL DEF Spec

-----------------------------------------------------------------------------
(* The end that cannot be missed.                                          *)

\* Before the orchestrator publishes the end nobody has; from the moment a sync request
\* has queued the task, what is published after that reaches it.
EndReaches ==
    /\ invoker \in {"create", "subscribe", "enqueue"} => orch = "none"
    /\ invoker = "waiting" => mode = "sync"
    /\ orch \notin {"telling", "done", "dead"} => Elems(published) \cap {"completed", "failed"} = {}
    /\ /\ invoker \in {"queued", "waiting"} /\ mode = "sync"
       /\ Elems(published) \cap {"completed", "failed"} # {}
       => Elems(inbox[Api]) \cap Final # {}

LEMMA RequestsReach ==
    ASSUME TypeInv, EndReaches, Requesting \/ SyncTimeout
    PROVE  EndReaches'
<1> USE DEF TypeInv, EndReaches, requestVars, orchVars, cancelVars, streamVars, eventVars
<1>1. CASE Create
    BY <1>1 DEF Create, Answer
<1>2. CASE Subscribe
    BY <1>2 DEF Subscribe, Answer
<1>3. CASE Enqueue
    BY <1>3 DEF Enqueue
<1>4. CASE Queued
    BY <1>4 DEF Queued, Answer
<1>5. CASE RecordEnqueueFailure
    BY <1>5 DEF RecordEnqueueFailure, Answer
<1>6. CASE Receive
    <2>1. Api \in Listener /\ inbox \in [Listener -> Seq(Event)] /\ inbox[Api] # << >>
        BY <1>6 DEF Receive, TypeOK, Listener
    <2>2. Elems(inbox[Api]) = {Head(inbox[Api])} \cup Elems(Tail(inbox[Api]))
        BY <2>1, ElemsTail
    <2>3. inbox'[Api] = Tail(inbox[Api])
        BY <1>6, <2>1 DEF Receive
    <2>4. CASE Head(inbox[Api]) \in Final
        BY <1>6, <2>4 DEF Receive, Answer
    <2>5. CASE Head(inbox[Api]) \notin Final
        <3>1. Elems(inbox'[Api]) \cap Final = Elems(inbox[Api]) \cap Final
            BY <2>2, <2>3, <2>5
        <3> QED
            BY <1>6, <2>5, <3>1 DEF Receive
    <2> QED
        BY <2>4, <2>5
<1>7. CASE SyncTimeout
    BY <1>7 DEF SyncTimeout, Answer
<1> QED
    BY <1>1, <1>2, <1>3, <1>4, <1>5, <1>6, <1>7 DEF Requesting

\* Publishing anything but the end disturbs nothing, and the end reaches who listens.
LEMMA PublishReaches ==
    ASSUME EventsLost = FALSE, TypeInv, EndReaches, NEW e \in Event, Publish(e),
           UNCHANGED <<mode, invoker>>,
           e \in {"completed", "failed"} => orch' \in {"telling", "done", "dead"},
           orch \in {"telling", "done", "dead"} => orch' \in {"telling", "done", "dead"},
           invoker \in {"create", "subscribe", "enqueue"} => orch' = "none"
    PROVE  EndReaches'
<1> DEFINE ends == {"completed", "failed"}
<1>1. /\ Elems(published') = Elems(published) \cup {e}
      /\ \A l \in Listener : Elems(inbox[l]) \subseteq Elems(inbox'[l])
      /\ \A l \in Listening : e \in Elems(inbox'[l])
    BY PublishFacts DEF TypeInv
<1>2. orch' \notin {"telling", "done", "dead"} => Elems(published') \cap ends = {}
    BY <1>1 DEF EndReaches
<1>3. ASSUME invoker \in {"queued", "waiting"}, mode = "sync", Elems(published') \cap ends # {}
      PROVE  Elems(inbox'[Api]) \cap Final # {}
    <2>1. Api \in Listening /\ Api \in Listener
        BY <1>3 DEF Listening, Listener
    <2>2. CASE e \in ends
        BY <1>1, <2>1, <2>2 DEF Final
    <2>3. CASE e \notin ends
        BY <1>1, <1>3, <2>1, <2>3 DEF EndReaches
    <2> QED
        BY <2>2, <2>3
<1> QED
    BY <1>2, <1>3 DEF EndReaches

LEMMA OrchestratorReaches ==
    ASSUME EventsLost = FALSE, TypeInv, EndReaches, Orchestrating \/ EmitNode \/ Die
    PROVE  EndReaches'
<1> USE DEF requestVars, orchVars, cancelVars, streamVars, eventVars
<1>1. CASE Take \/ ReadStart \/ WriteStart \/ EndGraph \/ ReadFinal \/ WriteFinal \/ Die
    <2>1. /\ UNCHANGED <<mode, invoker, inbox, published>> /\ orch # "none"
          /\ orch \in {"telling", "done", "dead"} => orch' \in {"telling", "done", "dead"}
        BY <1>1 DEF Take, ReadStart, WriteStart, EndGraph, ReadFinal, WriteFinal, Die
    <2> QED
        BY <2>1 DEF EndReaches
<1>2. CASE Announce
    <2>1. "started" \in Event /\ "started" \notin {"completed", "failed"}
        BY DEF Event
    <2>2. Publish("started") /\ UNCHANGED <<mode, invoker>> /\ orch = "announcing"
        BY <1>2 DEF Announce
    <2> QED
        BY <2>1, <2>2, PublishReaches DEF EndReaches
<1>3. CASE EmitNode
    <2>1. "node" \in Event /\ "node" \notin {"completed", "failed"}
        BY DEF Event
    <2>2. Publish("node") /\ UNCHANGED <<mode, invoker>> /\ orch = "running" /\ orch' = orch
        BY <1>3 DEF EmitNode
    <2> QED
        BY <2>1, <2>2, PublishReaches DEF EndReaches
<1>4. CASE PublishFinal
    <2>1. outcome \in Event
        BY <1>4 DEF PublishFinal, TypeInv, Decided, TypeOK, Event, Final
    <2>2. Publish(outcome) /\ UNCHANGED <<mode, invoker>> /\ orch = "telling" /\ orch' = "done"
        BY <1>4 DEF PublishFinal
    <2> QED
        BY <2>1, <2>2, PublishReaches DEF EndReaches
<1> QED
    BY <1>1, <1>2, <1>3, <1>4 DEF Orchestrating

LEMMA CancelReaches ==
    ASSUME EventsLost = FALSE, TypeInv, EndReaches, NEW c \in Canceller,
           CancelRead(c) \/ Cancelling(c)
    PROVE  EndReaches'
<1> USE DEF requestVars, orchVars, cancelVars, streamVars, eventVars
<1>1. CASE CancelRead(c) \/ CancelWrite(c)
    <2>1. UNCHANGED <<mode, invoker, inbox, published, orch>>
        BY <1>1 DEF CancelRead, CancelWrite
    <2> QED
        BY <2>1 DEF EndReaches
<1>2. CASE CancelPublish(c)
    <2>1. "cancelled" \in Event /\ "cancelled" \notin {"completed", "failed"}
        BY DEF Event, Final
    <2>2. Publish("cancelled") /\ UNCHANGED <<mode, invoker, orch>>
        BY <1>2 DEF CancelPublish
    <2> QED
        BY <2>1, <2>2, PublishReaches DEF EndReaches
<1> QED
    BY <1>1, <1>2 DEF Cancelling

LEMMA StreamReaches ==
    ASSUME TypeInv, EndReaches, NEW s \in Streamer, Connect(s) \/ Deliver(s) \/ Disconnect(s)
    PROVE  EndReaches'
<1>1. /\ UNCHANGED <<mode, invoker, orch, published>>
      /\ inbox'[Api] = inbox[Api]
    <2>1. s # Api /\ Api \in Listener /\ inbox \in [Listener -> Seq(Event)]
        BY DEF TypeInv, TypeOK, Listener
    <2> QED
        BY <2>1 DEF Connect, Deliver, Disconnect, requestVars, orchVars, eventVars
<1> QED
    BY <1>1 DEF EndReaches

\* While no event is lost, a sync request that still waits after the end was published has
\* a terminal event in front of it, whatever cancels, fails, dies or streams meanwhile.
THEOREM CompletionNotMissed ==
    ASSUME EventsLost = FALSE
    PROVE  Spec => []NoMissedCompletion
<1>1. Init => EndReaches
    BY ElemsEmpty DEF Init, EndReaches
<1>2. TypeInv /\ EndReaches /\ [Next]_vars => EndReaches'
    <2> SUFFICES ASSUME TypeInv, EndReaches, [Next]_vars PROVE EndReaches'
        OBVIOUS
    <2>1. CASE UNCHANGED vars
        BY <2>1 DEF vars, requestVars, orchVars, eventVars, EndReaches
    <2> QED
        BY <2>1, RequestsReach, OrchestratorReaches, CancelReaches, StreamReaches DEF Next
<1>3. TypeInv /\ EndReaches => NoMissedCompletion
    <2> SUFFICES ASSUME TypeInv, EndReaches, invoker = "waiting", Told
                 PROVE  \E i \in DOMAIN inbox[Api] : inbox[Api][i] \in Final
        BY DEF NoMissedCompletion
    <2>1. published \in Seq(Event) /\ inbox[Api] \in Seq(Event)
        BY DEF TypeInv, TypeOK, Listener
    <2>2. DOMAIN published = 1 .. Len(published) /\ DOMAIN inbox[Api] = 1 .. Len(inbox[Api])
        BY <2>1
    <2>3. outcome \in Elems(published)
        BY <2>2 DEF Told, ToSet, Elems
    <2>4. outcome \in {"completed", "failed"}
        <3>1. Elems(published) \subseteq Event
            BY <2>1, LenFacts
        <3>2. outcome \in {"none", "completed", "failed"}
            BY DEF TypeInv, TypeOK
        <3> QED
            BY <2>3, <3>1, <3>2 DEF Event, Final
    <2>5. PICK e \in Elems(inbox[Api]) : e \in Final
        BY <2>3, <2>4 DEF EndReaches
    <2> QED
        BY <2>2, <2>5 DEF Elems
<1> QED
    BY <1>1, <1>2, <1>3, TypesInvariant, PTL DEF Spec

-----------------------------------------------------------------------------
(* The answer and the row, until a request has cancelled.                  *)

\* An event of the end is published last, after the row was written, and nothing is
\* written then: what waits in front of the request, and what it answered, is in the row.
Uncancelled == \A c \in Canceller : cancel[c] \notin {"telling", "ok"}

Answered ==
    /\ invoker \in {"create", "subscribe", "enqueue"} => orch = "none"
    /\ NoRefusal /\ Uncancelled =>
        /\ orch = "telling" => row.status = outcome
        /\ \A e \in Elems(inbox[Api]) \cap Final : orch = "done" /\ row.status = e
    /\ Uncancelled /\ answer \in Final => orch = "done" /\ row.status = answer

\* Whoever listens has what it had, and perhaps the event.
LEMMA PublishAdds ==
    ASSUME TypeOK, NEW e \in Event, Publish(e)
    PROVE  Elems(inbox'[Api]) \subseteq Elems(inbox[Api]) \cup {e}
<1>1. Api \in Listener /\ inbox[Api] \in Seq(Event)
    BY DEF TypeOK, Listener
<1>2. inbox'[Api] \in {inbox[Api], Append(inbox[Api], e)}
    BY <1>1 DEF Publish
<1>3. Elems(Append(inbox[Api], e)) = Elems(inbox[Api]) \cup {e}
    BY <1>1, ElemsAppend
<1> QED
    BY <1>2, <1>3

LEMMA RequestsAnswered ==
    ASSUME TypeInv, Answered, Requesting \/ SyncTimeout
    PROVE  Answered'
<1> USE DEF TypeInv, Answered, NoRefusal, requestVars, orchVars, cancelVars, streamVars, eventVars
<1>0. Uncancelled' = Uncancelled
    BY DEF Requesting, Create, Subscribe, Enqueue, Queued, RecordEnqueueFailure, Receive,
           SyncTimeout, Uncancelled
<1>1. CASE Create
    <2>1. /\ orch = "none" /\ invoker # "record" /\ answer = "none"
          /\ answer' \in {"none", "error"} /\ UNCHANGED <<orch, inbox, outcome>>
        BY <1>1 DEF Create, Answer, TypeOK
    <2>2. "none" \notin Final /\ "error" \notin Final
        BY DEF Final
    <2> QED
        BY <1>0, <2>1, <2>2
<1>2. CASE Subscribe
    BY <1>0, <1>2 DEF Subscribe, Answer, Final
<1>3. CASE Enqueue
    <2>1. /\ answer = "none" /\ invoker # "record" /\ orch = "none"
          /\ invoker' \in {"queued", "record"} /\ orch' \in {"none", "queued"}
          /\ UNCHANGED <<answer, row, inbox>>
        BY <1>3 DEF Enqueue, TypeOK
    <2>2. "none" \notin Final
        BY DEF Final
    <2> QED
        BY <1>0, <2>1, <2>2
<1>4. CASE Queued
    <2>1. /\ answer = "none" /\ invoker # "record" /\ invoker' # "record"
          /\ answer' \notin Final /\ UNCHANGED <<row, orch, outcome, inbox>>
        BY <1>4 DEF Queued, Answer, TypeOK, Final
    <2>2. invoker' \notin {"create", "subscribe", "enqueue"}
        BY <1>4 DEF Queued, Answer
    <2> QED
        BY <1>0, <2>1, <2>2
<1>5. CASE RecordEnqueueFailure
    BY <1>0, <1>5 DEF RecordEnqueueFailure, Answer, Final
<1>6. CASE Receive
    <2>1. Api \in Listener /\ inbox \in [Listener -> Seq(Event)] /\ inbox[Api] # << >>
        BY <1>6 DEF Receive, TypeOK, Listener
    <2>2. Elems(inbox[Api]) = {Head(inbox[Api])} \cup Elems(Tail(inbox[Api]))
        BY <2>1, ElemsTail
    <2>3. inbox'[Api] = Tail(inbox[Api])
        BY <1>6, <2>1 DEF Receive
    <2>4. NoRefusal /\ answer = "none" /\ UNCHANGED <<row, orch, outcome>>
        BY <1>6 DEF Receive, TypeOK
    <2>5. \/ Head(inbox[Api]) \in Final /\ invoker' = "answered" /\ answer' = Head(inbox[Api])
          \/ invoker' = invoker /\ answer' = answer
        BY <1>6 DEF Receive, Answer
    <2>6. invoker = "waiting" /\ "none" \notin Final
        BY <1>6 DEF Receive, Final
    <2>7. Uncancelled => \A e \in Elems(inbox[Api]) \cap Final : orch = "done" /\ row.status = e
        BY <2>4
    <2>8. Uncancelled =>
            /\ \A e \in Elems(inbox'[Api]) \cap Final : orch' = "done" /\ row'.status = e
            /\ orch' = "telling" => row'.status = outcome'
        BY <2>2, <2>3, <2>4, <2>7
    <2>9. Uncancelled /\ answer' \in Final => orch' = "done" /\ row'.status = answer'
        BY <2>2, <2>4, <2>5, <2>6, <2>7
    <2> QED
        BY <1>0, <2>5, <2>6, <2>8, <2>9
<1>7. CASE SyncTimeout
    <2>1. /\ answer = "none" /\ invoker # "record" /\ invoker' # "record"
          /\ answer' \notin Final /\ UNCHANGED <<row, orch, outcome, inbox>>
        BY <1>7 DEF SyncTimeout, Answer, TypeOK, Final
    <2>2. invoker' \notin {"create", "subscribe", "enqueue"}
        BY <1>7 DEF SyncTimeout, Answer
    <2> QED
        BY <1>0, <2>1, <2>2
<1> QED
    BY <1>1, <1>2, <1>3, <1>4, <1>5, <1>6, <1>7 DEF Requesting

LEMMA OrchestratorAnswered ==
    ASSUME StoreFails = FALSE, TypeInv, Answered, Orchestrating \/ EmitNode \/ Die
    PROVE  Answered'
<1> USE DEF requestVars, orchVars, cancelVars, streamVars, eventVars
<1>0. UNCHANGED <<invoker, answer>> /\ Uncancelled' = Uncancelled
    <2>1. UNCHANGED cancel
        BY DEF Orchestrating, Take, ReadStart, WriteStart, Announce, EndGraph, ReadFinal,
               WriteFinal, PublishFinal, EmitNode, Die
    <2> QED
        BY <2>1, OthersKeepAnswer DEF Uncancelled
<1>1. CASE Take \/ ReadStart \/ WriteStart \/ EndGraph \/ ReadFinal \/ Die
    <2>1. /\ orch \notin {"none", "done"} /\ orch' \notin {"telling"} /\ UNCHANGED inbox
          /\ orch \in {"telling"} => row' = row
        BY <1>1, StoreFails = FALSE
        DEF Take, ReadStart, WriteStart, EndGraph, ReadFinal, Die, Outcomes
    <2> QED
        BY <1>0, <2>1 DEF Answered, NoRefusal
<1>2. CASE WriteFinal
    <2>1. row' = IF outcome = "completed"
                 THEN [copy EXCEPT !.status = "completed", !.output = TRUE]
                 ELSE [copy EXCEPT !.status = "failed", !.error = TRUE]
        BY <1>2, StoreFails = FALSE DEF WriteFinal, Save, Outcomes
    <2>2. copy \in Row /\ outcome \in {"completed", "failed"}
        BY <1>2 DEF WriteFinal, TypeInv, TypeOK, Decided
    <2>3. row'.status = outcome
        BY <2>1, <2>2 DEF Row
    <2>4. orch = "saving" /\ orch' = "telling" /\ UNCHANGED <<inbox, outcome>>
        BY <1>2 DEF WriteFinal
    <2> QED
        BY <1>0, <2>3, <2>4 DEF Answered, NoRefusal
<1>3. ASSUME NEW e \in Event, e \notin Final, Publish(e), UNCHANGED <<row, outcome>>,
             orch' # "telling", orch \notin {"none", "done"}
      PROVE  Answered'
    <2>1. Elems(inbox'[Api]) \cap Final \subseteq Elems(inbox[Api]) \cap Final
        BY <1>3, PublishAdds DEF TypeInv
    <2> QED
        BY <1>0, <1>3, <2>1 DEF Answered, NoRefusal
<1>4. CASE Announce
    BY <1>3, <1>4 DEF Announce, Event, Final
<1>5. CASE EmitNode
    BY <1>3, <1>5 DEF EmitNode, Event, Final
<1>6. CASE PublishFinal
    <2>1. /\ outcome \in Event /\ Publish(outcome) /\ orch = "telling" /\ orch' = "done"
          /\ UNCHANGED <<row, outcome>>
        BY <1>6 DEF PublishFinal, TypeInv, TypeOK, Decided, Event, Final
    <2>2. Elems(inbox'[Api]) \subseteq Elems(inbox[Api]) \cup {outcome}
        BY <2>1, PublishAdds DEF TypeInv
    <2> QED
        BY <1>0, <2>1, <2>2 DEF Answered, NoRefusal
<1> QED
    BY <1>1, <1>2, <1>4, <1>5, <1>6 DEF Orchestrating

LEMMA StreamAnswered ==
    ASSUME TypeInv, Answered, NEW s \in Streamer, Connect(s) \/ Deliver(s) \/ Disconnect(s)
    PROVE  Answered'
<1>1. /\ UNCHANGED <<invoker, answer, row, orch, outcome, cancel>>
      /\ inbox'[Api] = inbox[Api]
    <2>1. s # Api /\ Api \in Listener /\ inbox \in [Listener -> Seq(Event)]
        BY DEF TypeInv, TypeOK, Listener
    <2> QED
        BY <2>1 DEF Connect, Deliver, Disconnect, requestVars, orchVars, cancelVars, eventVars
<1> QED
    BY <1>1 DEF Answered, NoRefusal, Uncancelled

LEMMA CancelAnswered ==
    ASSUME StoreFails = FALSE, TypeInv, Answered, NEW c \in Canceller,
           CancelRead(c) \/ Cancelling(c)
    PROVE  Answered'
<1>0. UNCHANGED <<invoker, answer, orch, outcome>>
    BY OthersKeepAnswer DEF CancelRead, Cancelling, CancelWrite, CancelPublish, orchVars
<1>1. cancel \in [Canceller -> {"idle", "checked", "telling", "ok", "conflict", "error"}]
    BY DEF TypeInv, TypeOK
<1>2. CASE CancelRead(c)
    <2>1. UNCHANGED <<row, inbox>> /\ cancel[c] = "idle"
        BY <1>2 DEF CancelRead, eventVars
    <2>2. \A d \in Canceller \ {c} : cancel'[d] = cancel[d]
        BY <1>1, <1>2 DEF CancelRead
    <2>3. Uncancelled' => Uncancelled
        BY <2>1, <2>2 DEF Uncancelled
    <2> QED
        BY <1>0, <2>1, <2>3 DEF Answered, NoRefusal
<1>3. CASE Cancelling(c)
    <2>1. cancel'[c] \in {"telling", "ok"}
        BY <1>1, <1>3, StoreFails = FALSE DEF Cancelling, CancelWrite, CancelPublish, Outcomes
    <2>2. ~ Uncancelled'
        BY <2>1 DEF Uncancelled
    <2> QED
        BY <1>0, <2>2 DEF Answered, NoRefusal
<1> QED
    BY <1>2, <1>3

\* While no call of the store fails, and until a request has written the row as cancelled,
\* the status a sync request answers is the row's from then on, for any number of requests
\* that cancel, whatever the queue and pub/sub lose and whenever the worker dies: the row is
\* written before the event is published.
THEOREM AnswerInRow ==
    ASSUME StoreFails = FALSE
    PROVE  Spec => []AnswerMatchesRow
<1>1. Init => Answered
    <2> SUFFICES ASSUME Init PROVE Answered
        OBVIOUS
    <2>1. inbox[Api] = << >> /\ orch = "none" /\ answer = "none" /\ "none" \notin Final
        BY DEF Init, Listener, Final
    <2> QED
        BY <2>1, ElemsEmpty DEF Answered
<1>2. TypeInv /\ Answered /\ [Next]_vars => Answered'
    <2> SUFFICES ASSUME TypeInv, Answered, [Next]_vars PROVE Answered'
        OBVIOUS
    <2>1. CASE UNCHANGED vars
        BY <2>1 DEF vars, requestVars, orchVars, cancelVars, eventVars, Answered, NoRefusal, Uncancelled
    <2> QED
        BY <2>1, RequestsAnswered, OrchestratorAnswered, StreamAnswered, CancelAnswered DEF Next
<1>3. Answered => AnswerMatchesRow
    BY DEF Answered, Uncancelled, AnswerMatchesRow
<1> QED
    BY <1>1, <1>2, <1>3, TypesInvariant, PTL DEF Spec

-----------------------------------------------------------------------------
(* The end, with requests that cancel.                                     *)

\* Who writes the row of an end publishes it, the orchestrator before it is done, a request
\* that cancels in its next step; and what is left of the row after the orchestrator's last
\* write is an end.
EndKnown ==
    /\ orch # "dead"
    /\ invoker \in {"create", "subscribe", "enqueue"} => orch = "none"
    /\ orch = "done" => outcome \in Elems(published) \cap Final
    /\ answer # "error" =>
        /\ orch \in {"telling", "done"} => row.status \in Final
        /\ row.status \in {"completed", "failed"} => orch \in {"telling", "done"} /\ row.status = outcome
        /\ row.status = "cancelled" =>
            "cancelled" \in Elems(published) \/ \E c \in Canceller : cancel[c] = "telling"

LEMMA PublishedGrows ==
    ASSUME TypeInv, NEW e \in Event, Publish(e)
    PROVE  Elems(published') = Elems(published) \cup {e}
<1>1. published \in Seq(Event) /\ published' = Append(published, e)
    BY DEF TypeInv, TypeOK, Publish
<1> QED
    BY <1>1, ElemsAppend

LEMMA RequestsEnd ==
    ASSUME StoreFails = FALSE, TypeInv, EndKnown, Requesting \/ SyncTimeout
    PROVE  EndKnown'
<1> USE DEF requestVars, orchVars, cancelVars, streamVars, eventVars
<1>1. CASE Create
    <2>1. row' = [NoRow EXCEPT !.status = "pending"] /\ invoker' \in {"subscribe", "enqueue"}
        BY <1>1, StoreFails = FALSE DEF Create, Save, Outcomes
    <2>2. row'.status = "pending"
        BY <2>1 DEF NoRow
    <2>3. orch = "none" /\ UNCHANGED <<orch, outcome, cancel, published>>
        BY <1>1 DEF Create, EndKnown
    <2> QED
        BY <2>2, <2>3 DEF EndKnown
<1>2. CASE Subscribe \/ Queued \/ Receive \/ SyncTimeout
    <2>1. /\ UNCHANGED <<row, orch, outcome, cancel, published>>
          /\ invoker \notin {"record"}
          /\ invoker' \in {"create", "subscribe", "enqueue"}
                => invoker \in {"create", "subscribe", "enqueue"}
        BY <1>2 DEF Subscribe, Queued, Receive, SyncTimeout, Answer
    <2>2. answer # "error"
        BY <1>2 DEF Subscribe, Queued, Receive, SyncTimeout, TypeInv, TypeOK
    <2> QED
        BY <2>1, <2>2 DEF EndKnown
<1>3. CASE Enqueue
    <2>1. /\ invoker' \in {"queued", "record"} /\ orch' \in {"none", "queued"} /\ orch = "none"
          /\ UNCHANGED <<answer, row, outcome, cancel, published>>
        BY <1>3 DEF Enqueue, EndKnown
    <2>2. answer # "error"
        BY <1>3 DEF Enqueue, TypeInv, TypeOK
    <2> QED
        BY <2>1, <2>2 DEF EndKnown
<1>4. CASE RecordEnqueueFailure
    <2>1. /\ answer' = "error" /\ invoker' = "answered"
          /\ UNCHANGED <<orch, outcome, published>>
        BY <1>4 DEF RecordEnqueueFailure, Answer
    <2> QED
        BY <2>1 DEF EndKnown
<1> QED
    BY <1>1, <1>2, <1>3, <1>4 DEF Requesting

LEMMA OrchestratorEnds ==
    ASSUME StoreFails = FALSE, MayStop = FALSE, TypeInv, EndKnown, Orchestrating \/ EmitNode \/ Die
    PROVE  EndKnown'
<1> USE DEF requestVars, orchVars, cancelVars, streamVars, eventVars
<1>0. UNCHANGED <<invoker, answer>> /\ cancel' = cancel
    <2>1. cancel' = cancel
        BY DEF Orchestrating, Take, ReadStart, WriteStart, Announce, EndGraph, ReadFinal, WriteFinal,
               PublishFinal, EmitNode, Die
    <2> QED
        BY <2>1, OthersKeepAnswer
<1>1. CASE Take \/ ReadStart \/ EndGraph \/ ReadFinal
    <2>1. /\ orch \notin {"none", "telling", "done"} /\ orch' \notin {"telling", "done", "dead"}
          /\ UNCHANGED <<row, published>>
        BY <1>1, StoreFails = FALSE, MayStop = FALSE DEF Take, ReadStart, EndGraph, ReadFinal, Outcomes
    <2> QED
        BY <1>0, <2>1 DEF EndKnown
<1>2. CASE WriteStart
    <2>1. row' = [copy EXCEPT !.status = "running"] /\ copy \in Row
        BY <1>2, StoreFails = FALSE DEF WriteStart, Save, Outcomes, TypeInv, TypeOK
    <2>2. row'.status = "running"
        BY <2>1 DEF Row
    <2>3. orch = "starting" /\ orch' = "announcing" /\ UNCHANGED published
        BY <1>2 DEF WriteStart
    <2> QED
        BY <1>0, <2>2, <2>3 DEF EndKnown
<1>3. CASE WriteFinal
    <2>1. row' = IF outcome = "completed"
                 THEN [copy EXCEPT !.status = "completed", !.output = TRUE]
                 ELSE [copy EXCEPT !.status = "failed", !.error = TRUE]
        BY <1>3, StoreFails = FALSE DEF WriteFinal, Save, Outcomes
    <2>2. copy \in Row /\ outcome \in {"completed", "failed"}
        BY <1>3 DEF WriteFinal, TypeInv, TypeOK, Decided
    <2>3. row'.status = outcome
        BY <2>1, <2>2 DEF Row
    <2>4. orch = "saving" /\ orch' = "telling" /\ UNCHANGED <<outcome, published>>
        BY <1>3 DEF WriteFinal
    <2> QED
        BY <1>0, <2>2, <2>3, <2>4 DEF EndKnown, Final
<1>4. CASE Announce \/ EmitNode
    <2>1. PICK e \in {"started", "node"} : Publish(e)
        BY <1>4 DEF Announce, EmitNode
    <2>2. Elems(published) \subseteq Elems(published')
        BY <2>1, PublishedGrows DEF Event
    <2>3. /\ orch \in {"announcing", "running"} /\ orch' = "running" /\ UNCHANGED <<row, outcome>>
        BY <1>4 DEF Announce, EmitNode
    <2> QED
        BY <1>0, <2>2, <2>3 DEF EndKnown
<1>5. CASE PublishFinal
    <2>1. /\ outcome \in {"completed", "failed"} /\ Publish(outcome) /\ orch = "telling" /\ orch' = "done"
          /\ UNCHANGED <<row, outcome>>
        BY <1>5 DEF PublishFinal, TypeInv, TypeOK, Decided
    <2>2. Elems(published') = Elems(published) \cup {outcome}
        BY <2>1, PublishedGrows DEF Event, Final
    <2> QED
        BY <1>0, <2>1, <2>2 DEF EndKnown, Final
<1>6. ~ Die
    BY MayStop = FALSE DEF Die
<1> QED
    BY <1>1, <1>2, <1>3, <1>4, <1>5, <1>6 DEF Orchestrating

LEMMA CancelEnds ==
    ASSUME StoreFails = FALSE, TypeInv, EndKnown, NEW c \in Canceller, CancelRead(c) \/ Cancelling(c)
    PROVE  EndKnown'
<1>1. UNCHANGED <<invoker, answer, orch, outcome>>
    BY DEF CancelRead, Cancelling, CancelWrite, CancelPublish, requestVars, orchVars
<1>2. cancel \in [Canceller -> {"idle", "checked", "telling", "ok", "conflict", "error"}]
    BY DEF TypeInv, TypeOK
<1>3. CASE CancelRead(c)
    <2>1. /\ cancel[c] = "idle" /\ UNCHANGED <<row, published>>
          /\ \A d \in Canceller : d # c => cancel'[d] = cancel[d]
        BY <1>2, <1>3 DEF CancelRead, eventVars
    <2> QED
        BY <1>1, <2>1 DEF EndKnown
<1>4. CASE CancelWrite(c)
    <2>1. row' = [read[c] EXCEPT !.status = "cancelled"] /\ cancel' = [cancel EXCEPT ![c] = "telling"]
        BY <1>4, StoreFails = FALSE DEF CancelWrite, Save, Outcomes
    <2>2. read[c] \in Row
        BY DEF TypeInv, TypeOK
    <2>3. row'.status = "cancelled" /\ cancel'[c] = "telling"
        BY <1>2, <2>1, <2>2 DEF Row
    <2>4. UNCHANGED published
        BY <1>4 DEF CancelWrite, eventVars
    <2> QED
        BY <1>1, <2>3, <2>4 DEF EndKnown, Final
<1>5. CASE CancelPublish(c)
    <2>1. Publish("cancelled") /\ UNCHANGED row
        BY <1>5 DEF CancelPublish
    <2>2. Elems(published') = Elems(published) \cup {"cancelled"}
        BY <2>1, PublishedGrows DEF Event, Final
    <2> QED
        BY <1>1, <2>1, <2>2 DEF EndKnown
<1> QED
    BY <1>3, <1>4, <1>5 DEF Cancelling

\* While no call of the store fails and the worker does not stop, a row whose orchestrator
\* has ended says how the execution ended, and an event of that end was published, however
\* many requests cancel the execution and whatever the queue and pub/sub lose.
THEOREM EndOnRecord ==
    ASSUME StoreFails = FALSE, MayStop = FALSE
    PROVE  Spec => []EndIsTold
<1>1. Init => EndKnown
    <2> SUFFICES ASSUME Init PROVE EndKnown
        OBVIOUS
    <2>1. row.status = "none" /\ orch = "none" /\ invoker = "create"
        BY DEF Init, NoRow
    <2> QED
        BY <2>1 DEF EndKnown
<1>2. TypeInv /\ EndKnown /\ [Next]_vars => EndKnown'
    <2> SUFFICES ASSUME TypeInv, EndKnown, [Next]_vars PROVE EndKnown'
        OBVIOUS
    <2>1. CASE UNCHANGED vars
        BY <2>1 DEF vars, requestVars, orchVars, cancelVars, eventVars, EndKnown
    <2>2. CASE \E s \in Streamer : Connect(s) \/ Deliver(s) \/ Disconnect(s)
        <3>1. UNCHANGED <<invoker, answer, row, orch, outcome, cancel, published>>
            BY <2>2 DEF Connect, Deliver, Disconnect, requestVars, orchVars, cancelVars, eventVars
        <3> QED
            BY <3>1 DEF EndKnown
    <2> QED
        BY <2>1, <2>2, RequestsEnd, OrchestratorEnds, CancelEnds DEF Next
<1>3. TypeInv /\ EndKnown => EndIsTold
    <2> SUFFICES ASSUME TypeInv, EndKnown, orch = "done", answer # "error",
                        \A c \in Canceller : cancel[c] # "telling"
                 PROVE  row.status \in Final \cap ToSet(published)
        BY DEF EndIsTold
    <2>1. published \in Seq(Event)
        BY DEF TypeInv, TypeOK
    <2>2. DOMAIN published = 1 .. Len(published)
        BY <2>1
    <2>3. Elems(published) = ToSet(published)
        BY <2>2 DEF ToSet, Elems
    <2> QED
        BY <2>3 DEF EndKnown, Final
<1> QED
    BY <1>1, <1>2, <1>3, TypesInvariant, PTL DEF Spec

-----------------------------------------------------------------------------
(* The step writer.                                                        *)

InHand == IF hand = 0 THEN {} ELSE {hand}

\* Every accepted step is in exactly the places a step can be in.
Accounted == Accepted = Elems(stored) \cup lost \cup Elems(ch) \cup InHand

\* What the two program counters say about the data.
Phases ==
    /\ writer = "inserting" <=> hand # 0
    /\ caller = "writing" => next <= MaxSteps
    /\ dropped \subseteq 1 .. next - 1
    /\ caller \in {"closing", "joining", "closed", "recorded"} => ch = << >> /\ hand = 0

\* The inductive invariant.  CountIsExact alone is not enough: that Flush returns with
\* a count of zero says the channel is empty, and what that means for the steps is
\* Accounted.
WriterInv == WriterTypes /\ CountIsExact /\ Accounted /\ Phases

LEMMA WriterInitHolds == WriterInit => WriterInv
<1> SUFFICES ASSUME WriterInit PROVE WriterInv
    OBVIOUS
<1>1. WriterTypes
    <2>1. closed \in BOOLEAN
        BY DEF WriterInit
    <2> QED
        BY <2>1, SizesAssumption DEF WriterInit, WriterTypes, Callers, Writers
<1>2. CountIsExact /\ Phases
    BY SizesAssumption DEF WriterInit, CountIsExact, Phases
<1>3. Accounted
    BY ElemsEmpty DEF WriterInit, Accounted, Accepted, InHand
<1> QED
    BY <1>1, <1>2, <1>3 DEF WriterInv

LEMMA WriteAddKeeps == WriterInv /\ WriteAdd => WriterInv'
<1> SUFFICES ASSUME WriterInv, WriteAdd PROVE WriterInv'
    OBVIOUS
<1>1. Len(ch) \in Nat
    BY LenFacts DEF WriterInv, WriterTypes
<1>2. WriterTypes' /\ CountIsExact' /\ Phases'
    BY <1>1 DEF WriterInv, WriteAdd, WriterTypes, Callers, CountIsExact, Phases
<1>3. Accounted'
    BY DEF WriterInv, WriteAdd, Accounted, Accepted, InHand
<1> QED
    BY <1>2, <1>3 DEF WriterInv

\* Queueing puts the step in the channel, turning it away puts it among the drops.
LEMMA WriteSendKeeps == WriterInv /\ WriteSend => WriterInv'
<1> SUFFICES ASSUME WriterInv, WriteSend PROVE WriterInv'
    OBVIOUS
<1>1. next \in 1 .. MaxSteps /\ Len(ch) \in Nat /\ next' = next + 1
    BY LenFacts DEF WriterInv, WriterTypes, Phases, WriteSend
<1>2. CASE Len(ch) < BufSize
    <2>1. ch' = Append(ch, next) /\ wg' = wg /\ dropped' = dropped
        BY <1>2 DEF WriteSend
    <2>2. /\ ch' \in Seq(1 .. MaxSteps) /\ Len(ch') = Len(ch) + 1
          /\ Elems(ch') = Elems(ch) \cup {next}
        <3>1. ch \in Seq(1 .. MaxSteps)
            BY DEF WriterInv, WriterTypes
        <3>2. /\ Append(ch, next) \in Seq(1 .. MaxSteps) /\ Len(Append(ch, next)) = Len(ch) + 1
              /\ Elems(Append(ch, next)) = Elems(ch) \cup {next}
            BY <1>1, <3>1, SizesAssumption, ElemsAppend
        <3> QED
            BY <2>1, <3>2
    <2>3. Accepted' = Accepted \cup {next}
        BY <1>1, <2>1 DEF WriterInv, Accepted, Phases
    <2>4. Accounted'
        BY <2>2, <2>3 DEF WriterInv, Accounted, InHand, WriteSend
    <2>5. WriterTypes' /\ CountIsExact' /\ Phases'
        BY <1>1, <1>2, <2>1, <2>2, SizesAssumption
        DEF WriterInv, WriteSend, WriterTypes, Callers, CountIsExact, Phases
    <2> QED
        BY <2>4, <2>5 DEF WriterInv
<1>3. CASE ~(Len(ch) < BufSize)
    <2>1. ch' = ch /\ wg' = wg - 1 /\ dropped' = dropped \cup {next}
        BY <1>3 DEF WriteSend
    <2>2. Accepted' = Accepted
        BY <1>1, <2>1 DEF WriterInv, Accepted, Phases
    <2>3. Accounted'
        BY <2>1, <2>2 DEF WriterInv, Accounted, InHand, WriteSend
    <2>4. wg >= 1
        BY <1>1 DEF WriterInv, WriteSend, CountIsExact
    <2>5. WriterTypes'
        BY <1>1, <2>1, <2>4, SizesAssumption DEF WriterInv, WriteSend, WriterTypes, Callers
    <2>6. CountIsExact' /\ Phases'
        BY <1>1, <2>1, <2>4 DEF WriterInv, WriteSend, WriterTypes, CountIsExact, Phases
    <2> QED
        BY <2>3, <2>5, <2>6 DEF WriterInv
<1> QED
    BY <1>2, <1>3

\* A count of zero leaves no place for a step on its way.
LEMMA FlushKeeps == WriterInv /\ Flush => WriterInv'
<1> SUFFICES ASSUME WriterInv, Flush PROVE WriterInv'
    OBVIOUS
<1>1. ch = << >> /\ hand = 0
    BY LenFacts DEF WriterInv, Flush, CountIsExact, WriterTypes
<1>2. WriterTypes' /\ CountIsExact' /\ Phases'
    BY <1>1 DEF WriterInv, Flush, WriterTypes, Callers, CountIsExact, Phases
<1>3. Accounted'
    BY DEF WriterInv, Flush, Accounted, Accepted, InHand
<1> QED
    BY <1>2, <1>3 DEF WriterInv

LEMMA CallerKeeps == WriterInv /\ (StartClose \/ CloseChannel \/ Join \/ RecordExecution) => WriterInv'
BY DEF StartClose, CloseChannel, Join, RecordExecution, WriterInv, WriterTypes, Callers, Writers, CountIsExact,
    Accounted, Phases, Accepted, InHand

\* Receiving moves the oldest step from the channel into the hand.
LEMMA ReceiveKeeps == WriterInv /\ ReceiveStep => WriterInv'
<1> SUFFICES ASSUME WriterInv, ReceiveStep PROVE WriterInv'
    OBVIOUS
<1>1. ch \in Seq(1 .. MaxSteps) /\ ch # << >> /\ hand = 0
    BY DEF WriterInv, WriterTypes, ReceiveStep, Phases
<1>2. /\ hand' \in 1 .. MaxSteps /\ ch' \in Seq(1 .. MaxSteps)
      /\ Len(ch') = Len(ch) - 1 /\ Len(ch) \in Nat \ {0}
      /\ Elems(ch) = {hand'} \cup Elems(ch')
    BY <1>1, ElemsTail DEF ReceiveStep
<1>3. Accounted'
    BY <1>1, <1>2 DEF WriterInv, Accounted, Accepted, ReceiveStep, InHand
<1>4. hand' # 0 /\ hand' \in 0 .. MaxSteps
    BY <1>2, SizesAssumption
<1>5. WriterTypes'
    BY <1>2, <1>4, SizesAssumption DEF WriterInv, WriterTypes, Writers, ReceiveStep
<1>6. CountIsExact'
    <2>1. wg' = wg /\ caller' = caller /\ Len(ch') = Len(ch) - 1 /\ Len(ch) \in Nat
        BY <1>2 DEF ReceiveStep
    <2>2. wg = Len(ch) + (IF caller = "writing" THEN 1 ELSE 0)
        BY <1>1, <2>1 DEF WriterInv, CountIsExact
    <2> QED
        BY <1>4, <2>1, <2>2 DEF CountIsExact
<1>7. Phases'
    BY <1>1, <1>4 DEF WriterInv, ReceiveStep, Phases
<1> QED
    BY <1>3, <1>5, <1>6, <1>7 DEF WriterInv

\* Inserting moves the step from the hand to the table, or gives it up.
LEMMA InsertKeeps == WriterInv /\ Insert => WriterInv'
<1> SUFFICES ASSUME WriterInv, Insert PROVE WriterInv'
    OBVIOUS
<1>1. hand \in 1 .. MaxSteps /\ Len(ch) \in Nat
    BY LenFacts DEF WriterInv, WriterTypes, Insert, Phases
<1>2. \/ stored' = Append(stored, hand) /\ lost' = lost
      \/ stored' = stored /\ lost' = lost \cup {hand}
    BY DEF Insert
<1>3. /\ stored' \in Seq(1 .. MaxSteps) /\ lost' \subseteq 1 .. MaxSteps
      /\ Elems(stored') \cup lost' = Elems(stored) \cup lost \cup {hand}
    <2>1. stored \in Seq(1 .. MaxSteps) /\ lost \subseteq 1 .. MaxSteps
        BY DEF WriterInv, WriterTypes
    <2>2. /\ Append(stored, hand) \in Seq(1 .. MaxSteps)
          /\ Elems(Append(stored, hand)) = Elems(stored) \cup {hand}
        BY <1>1, <2>1, SizesAssumption, ElemsAppend
    <2> QED
        BY <1>1, <1>2, <2>1, <2>2
<1>4. Accounted'
    BY <1>1, <1>3 DEF WriterInv, Accounted, Accepted, Insert, InHand
<1>5. wg >= 1 /\ hand # 0
    BY <1>1, SizesAssumption DEF WriterInv, Insert, CountIsExact, Phases
<1>6. WriterTypes'
    BY <1>3, <1>5, SizesAssumption DEF WriterInv, WriterTypes, Writers, Insert
<1>7. CountIsExact' /\ Phases'
    BY <1>1, <1>5 DEF WriterInv, WriterTypes, Insert, CountIsExact, Phases
<1> QED
    BY <1>4, <1>6, <1>7 DEF WriterInv

LEMMA ExitKeeps == WriterInv /\ Exit => WriterInv'
BY DEF Exit, WriterInv, WriterTypes, Writers, CountIsExact, Accounted, Phases, Accepted, InHand

LEMMA StepKeeps == WriterInv /\ [WriterNext]_writerVars => WriterInv'
<1>1. WriterInv /\ UNCHANGED writerVars => WriterInv'
    BY DEF writerVars, WriterInv, WriterTypes, CountIsExact, Accounted, Phases, Accepted, InHand
<1> QED
    BY <1>1, WriteAddKeeps, WriteSendKeeps, FlushKeeps, CallerKeeps, ReceiveKeeps, InsertKeeps, ExitKeeps
    DEF WriterNext, CallerStep, WriterStep, Terminated

THEOREM WriterInvariance == WriterSpec => []WriterInv
<1> QED
    BY WriterInitHolds, StepKeeps, PTL DEF WriterSpec

\* The state of the two goroutines, the channel and the counter keep their types; in
\* particular the counter of the WaitGroup never becomes negative (Add would panic).
THEOREM WriterTypeCorrect == WriterSpec => []WriterTypes
<1>1. WriterInv => WriterTypes
    BY DEF WriterInv
<1> QED
    BY WriterInvariance, <1>1, PTL

\* The WaitGroup counts exactly the steps on their way (Write, run).
THEOREM CountCorrect == WriterSpec => []CountIsExact
<1>1. WriterInv => CountIsExact
    BY DEF WriterInv
<1> QED
    BY WriterInvariance, <1>1, PTL

\* When Close gets past Flush every accepted step has been tried (Flush, Close): the
\* final execution record never overtakes a step.
THEOREM NothingOvertaken == WriterSpec => []StepsBeforeRecord
<1>1. WriterInv => StepsBeforeRecord
    <2> SUFFICES ASSUME WriterInv, caller \in {"closing", "joining", "closed", "recorded"}
                 PROVE  Accepted = Inserted \cup lost
        BY DEF StepsBeforeRecord
    <2>1. ch = << >> /\ hand = 0
        BY DEF WriterInv, Phases
    <2>2. Elems(ch) = {} /\ InHand = {}
        BY <2>1, ElemsEmpty DEF InHand
    <2>3. Inserted = Elems(stored)
        BY DEF Inserted, ToSet, Elems
    <2> QED
        BY <2>2, <2>3 DEF WriterInv, Accounted
<1> QED
    BY WriterInvariance, <1>1, PTL

=============================================================================
