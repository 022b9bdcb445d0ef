------------------------------ MODULE Dataflow ------------------------------
(***************************************************************************)
(* What an execution of a graph promises: a node starts once, after        *)
(* everything it depends on has settled; a node that a branch leaves out   *)
(* settles without running; the execution completes only when every node   *)
(* has settled.  GraphRun implements this when no task is delivered twice. *)
(***************************************************************************)
CONSTANTS Node, Dep     \* Dep \in [Node -> SUBSET Node]: what a node waits for

VARIABLES
    phase,      \* Node -> "idle", "running" or "settled"
    outcome     \* "open", "completed" or "failed"

vars == <<phase, outcome>>

TypeOK ==
    /\ phase \in [Node -> {"idle", "running", "settled"}]
    /\ outcome \in {"open", "completed", "failed"}

In(p) == {n \in Node : phase[n] = p}

Init ==
    /\ phase = [n \in Node |-> "idle"]
    /\ outcome = "open"

\* The nodes S are idle, and all they wait for is settled once S is.
Bypassed(S, settling) ==
    /\ S \subseteq In("idle")
    /\ \A n \in S : Dep[n] \subseteq In("settled") \cup settling

\* The inputs of the execution are there from the start.
Provide(S) ==
    /\ outcome = "open"
    /\ Bypassed(S, S)
    /\ phase' = [n \in Node |-> IF n \in S THEN "settled" ELSE phase[n]]
    /\ UNCHANGED outcome

Run(n) ==
    /\ outcome = "open"
    /\ phase[n] = "idle" /\ Dep[n] \subseteq In("settled")
    /\ phase' = [phase EXCEPT ![n] = "running"]
    /\ UNCHANGED outcome

\* A node settles, and with it the nodes S that its outputs leave without a value.
Settle(n, S) ==
    /\ outcome = "open"
    /\ phase[n] = "running"
    /\ Bypassed(S, S \cup {n})
    /\ phase' = [m \in Node |-> IF m \in S \cup {n} THEN "settled" ELSE phase[m]]
    /\ UNCHANGED outcome

Complete ==
    /\ outcome = "open" /\ In("settled") = Node
    /\ outcome' = "completed"
    /\ UNCHANGED phase

Fail ==
    /\ outcome = "open"
    /\ outcome' = "failed"
    /\ UNCHANGED phase

Next ==
    \/ \E S \in SUBSET Node : Provide(S)
    \/ \E n \in Node : Run(n) \/ \E S \in SUBSET Node : Settle(n, S)
    \/ Complete \/ Fail

Spec == Init /\ [][Next]_vars

=============================================================================
