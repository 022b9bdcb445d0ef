----------------------------- MODULE AgentRules -----------------------------
(***************************************************************************)
(* What the two superagents share (engine/executor/superagent.go and       *)
(* worker/superagent_handler.go): the conversation, the stuck detector and *)
(* the compaction of the conversation.                                     *)
(***************************************************************************)
EXTENDS Naturals, Sequences, FiniteSets, SequencesExt

CONSTANTS
    WindowSize,      \* stuck_detection.window_size
    RepeatThreshold, \* stuck_detection.repeat_threshold
    PreserveRecent,  \* context_compaction.preserve_recent_messages
    History          \* the messages in the input of conversation_history_from_input

ASSUME AgentRulesAssumption ==
    /\ WindowSize \in Nat \ {0}
    /\ {RepeatThreshold, PreserveRecent} \subseteq Nat

-----------------------------------------------------------------------------
\* A message by its role; an assistant's message that calls n tools has the role "calls".
\* The one mark that is the model's own tells the messages of the input (given).
Message == [role : {"system", "user", "assistant", "calls", "tool"}, n : Nat, given : BOOLEAN]
System == [role |-> "system", n |-> 0, given |-> FALSE]
User == [role |-> "user", n |-> 0, given |-> FALSE]
Text == [role |-> "assistant", n |-> 0, given |-> FALSE]
Calls(n) == [role |-> "calls", n |-> n, given |-> FALSE]
ToolAnswer == [role |-> "tool", n |-> 0, given |-> FALSE]

ASSUME HistoryAssumption ==
    /\ History \in Seq(Message)
    /\ \A i \in DOMAIN History : History[i].given

\* Mutant: the last message of the history is taken off.
OpeningTrimmed == <<System, User>> \o SubSeq(History, 1, Len(History) - 1)

\* The conversation an agent starts with: its prompt, the kick-off, and the history given,
\* whatever messages that has.
Opening == <<System, User>> \o History

\* The circular buffer of the last calls, which only counts what it holds.
Slide(window, call) ==
    LET w == Append(window, call) IN IF Len(w) > WindowSize THEN Tail(w) ELSE w

\* Some call fills its share of the window, not necessarily the one just recorded.
Repeats(window) ==
    \E call \in ToSet(window) :
        Cardinality({i \in DOMAIN window : window[i] = call}) >= RepeatThreshold

\* The level of the breach after so many others: the counter, not the window, is reset.
Level(breaches) ==
    CASE breaches = 1 -> "warn" [] breaches = 2 -> "reflect" [] OTHER -> "force_exit"

\* compactContext: the prompt anew, the summary, and the last messages as they are.
Compacted(messages) ==
    <<System, System>> \o
        CASE PreserveRecent = 0 -> << >>
          [] PreserveRecent > 0 /\ Len(messages) > PreserveRecent ->
                SubSeq(messages, Len(messages) - PreserveRecent + 1, Len(messages))
          [] PreserveRecent > 0 /\ Len(messages) <= PreserveRecent -> Tail(messages)

-----------------------------------------------------------------------------
\* The places after message i that its calls need.
AnswersOf(messages, i) == i + 1 .. i + messages[i].n

\* The history given has the answers of its calls and no others.
Whole ==
    /\ \A i \in DOMAIN History : History[i].role = "calls" =>
        \A j \in AnswersOf(History, i) : j \in DOMAIN History /\ History[j].role = "tool"
    /\ \A j \in DOMAIN History : History[j].role = "tool" =>
        \E i \in 1 .. j - 1 : History[i].role = "calls" /\ j \in AnswersOf(History, i)

\* Whose calls and answers are looked at: the agent's own, and those of a whole history.
Counts(message) == ~ message.given \/ Whole
Asks(message) == message.role = "calls" /\ Counts(message)
Answers(message) == message.role = "tool" /\ Counts(message)

\* Every tool call of the conversation has its answer, right behind it.
AllAnswered(messages) ==
    \A i \in DOMAIN messages : Asks(messages[i]) =>
        \A j \in AnswersOf(messages, i) : j \in DOMAIN messages /\ Answers(messages[j])

\* An answer whose call is not in the conversation.
Orphan(messages, j) ==
    /\ Answers(messages[j])
    /\ ~ \E i \in 1 .. j - 1 : Asks(messages[i]) /\ j \in AnswersOf(messages, i)

\* A compaction cuts a round of calls at most at its own seam.
OrphansAtSeam(messages) ==
    \A j \in DOMAIN messages : Orphan(messages, j) =>
        \A k \in 3 .. j : Answers(messages[k])
=============================================================================
