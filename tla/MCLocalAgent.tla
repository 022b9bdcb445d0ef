---------------------------- MODULE MCLocalAgent ----------------------------
(***************************************************************************)
(* The history an in-process superagent is given.                          *)
(***************************************************************************)
EXTENDS LocalAgent

Earlier == <<[Text EXCEPT !.given = TRUE]>>
=============================================================================
