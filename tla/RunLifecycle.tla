---------------------------- MODULE RunLifecycle ----------------------------
(***************************************************************************)
(* What the run store (the RunStore interface of src/runs/run-store.ts)    *)
(* promises its callers, with no leases, tokens, drivers or sweeps: a run  *)
(* is submitted once, attempted one at a time and one per session, is      *)
(* retried while its error budget lasts, and ends once.                    *)
(***************************************************************************)
EXTENDS Naturals

CONSTANTS Runs, Sessions, SessionOf, MaxAttempts

VARIABLES status, attempts, errors

lifeVars == <<status, attempts, errors>>

Init == /\ status = [r \in Runs |-> "absent"]
        /\ attempts = [r \in Runs |-> 0]
        /\ errors = [r \in Runs |-> 0]

Submit(r) ==
    /\ status[r] = "absent"
    /\ status' = [status EXCEPT ![r] = "pending"]
    /\ UNCHANGED <<attempts, errors>>

SessionIdle(r) == \A q \in Runs : status[q] = "running" => SessionOf[q] # SessionOf[r]

Start(r) ==
    /\ status[r] = "pending" /\ SessionIdle(r)
    /\ status' = [status EXCEPT ![r] = "running"]
    /\ attempts' = [attempts EXCEPT ![r] = @ + 1]
    /\ UNCHANGED errors

Succeed(r) ==
    /\ status[r] = "running"
    /\ status' = [status EXCEPT ![r] = "done"]
    /\ UNCHANGED <<attempts, errors>>

\* An attempt ended without a result: by an error (charged) or because the
\* lease was lost or handed back (not charged).
Retry(r, charged) ==
    /\ status[r] = "running" /\ errors[r] + charged < MaxAttempts
    /\ status' = [status EXCEPT ![r] = "pending"]
    /\ errors' = [errors EXCEPT ![r] = @ + charged]
    /\ UNCHANGED attempts

Park(r, charged) ==
    /\ status[r] = "running"
    /\ status' = [status EXCEPT ![r] = "failed"]
    /\ errors' = [errors EXCEPT ![r] = @ + charged]
    /\ UNCHANGED attempts

Next == \E r \in Runs : \/ Submit(r) \/ Start(r) \/ Succeed(r)
                        \/ \E charged \in {0, 1} : Retry(r, charged) \/ Park(r, charged)

Spec == Init /\ [][Next]_lifeVars
=============================================================================
