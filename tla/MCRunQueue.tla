----------------------------- MODULE MCRunQueue -----------------------------
(***************************************************************************)
(* Small instances of RunQueue: one run, or two runs of one session.       *)
(***************************************************************************)
EXTENDS RunQueue, TLC

CONSTANTS r1, r2, s1

OneSession == (r1 :> s1) @@ (r2 :> s1)
OneRun     == (r1 :> s1)
=============================================================================
