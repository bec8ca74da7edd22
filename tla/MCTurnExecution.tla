-------------------------- MODULE MCTurnExecution --------------------------
(***************************************************************************)
(* Small instances of TurnExecution: one run of one session.               *)
(***************************************************************************)
EXTENDS TurnExecution, TLC

CONSTANTS r1, s1

OneRun == (r1 :> s1)
=============================================================================
