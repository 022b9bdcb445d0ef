---------------------------- MODULE AgentPromise ----------------------------
(***************************************************************************)
(* What a superagent node promises whoever reads its outputs, whichever    *)
(* engine runs it: the iterations and calls it reports are those it made,  *)
(* within the limits, and the reason it gives for ending is true.          *)
(***************************************************************************)
EXTENDS Naturals, Sequences

CONSTANTS
    MaxIterations, \* max_iterations
    MaxTotalCalls, \* max_total_tool_calls
    Burst          \* calls that may follow before the limit is looked at

VARIABLES
    reason,   \* why the agent ended, "none" while it works
    rounds,   \* the iterations it made
    calls,    \* the calls it made
    reports   \* what it reported

promiseVars == <<reason, rounds, calls, reports>>

Reasons == {"timeout", "cancelled", "max_tool_calls", "stuck", "done", "max_iterations"}

\* A report: the meta outputs of the node, or a failure.
Made(why, r, c) == [status |-> "completed", reason |-> why, rounds |-> r, calls |-> c]
Failed == [status |-> "failed", reason |-> "none", rounds |-> 0, calls |-> 0]

Init == reason = "none" /\ rounds = 0 /\ calls = 0 /\ reports = << >>

\* Calls are made while the limit is not reached, or in the burst that reaches it.
Work ==
    /\ reason = "none"
    /\ calls' \in calls + 1 .. MaxTotalCalls - 1 + Burst
    /\ UNCHANGED <<reason, rounds, reports>>

\* A reason that is true of the iterations r and the calls made.
True(why, r) ==
    /\ why = "max_tool_calls" => calls >= MaxTotalCalls
    /\ why \in {"done", "stuck", "max_iterations"} => calls < MaxTotalCalls
    /\ why = "max_iterations" <=> r = MaxIterations

\* Another iteration, of those allowed, or the end after the last of them.
NextRound ==
    /\ reason = "none" /\ calls < MaxTotalCalls /\ rounds + 1 < MaxIterations
    /\ rounds' = rounds + 1
    /\ UNCHANGED <<reason, calls, reports>>

End(why) ==
    /\ reason = "none"
    /\ rounds' \in {rounds, rounds + 1} /\ True(why, rounds')
    /\ reason' = why
    /\ UNCHANGED <<calls, reports>>

\* The report of what was done, or that the node failed; nothing follows it.
Report(status) ==
    /\ status = "completed" => reason # "none"
    /\ reports' = Append(reports, IF status = "completed" THEN Made(reason, rounds, calls) ELSE Failed)
    /\ reason' = "none" /\ rounds' = 0 /\ calls' = 0

\* All is done again, and nothing of the run before is counted.
Again == reason' = "none" /\ rounds' = 0 /\ calls' = 0 /\ UNCHANGED reports

Next ==
    \/ Work \/ NextRound \/ Again
    \/ \E why \in Reasons : End(why)
    \/ \E status \in {"completed", "failed"} : Report(status)

Promise == Init /\ [][Next]_promiseVars
=============================================================================
