---------------------------- MODULE MCSuperagent ----------------------------
(***************************************************************************)
(* Histories a distributed superagent is given: one of an agent that was   *)
(* cut off in a batch, and a whole one.                                    *)
(***************************************************************************)
EXTENDS Superagent

Given(message) == [message EXCEPT !.given = TRUE]
CutOff == <<Given(Calls(2)), Given(ToolAnswer)>>
Complete == <<Given(Calls(1)), Given(ToolAnswer)>>
=============================================================================
