--------------------------- MODULE TurnExecution ---------------------------
(***************************************************************************)
(* The run queue composed with the session store: what handleTurn does     *)
(* with the session lease and the session log between the claim of a run   *)
(* and its completion (src/core/orchestrator.ts, src/sessions/), the       *)
(* background compaction that shares the lease (src/core/orchestrator/     *)
(* compaction.ts), and the two places that take the lease away by force:   *)
(* the reaper and releaseInFlight.                                         *)
(*                                                                         *)
(* Every step is a step of RunQueue with the session part added, or a step *)
(* of the session store alone.  lock[x] is the row of session x in         *)
(* session_leases, with the attempt that took it as a history field;       *)
(* token 0 means no row.  expired says expires_at <= the current time.     *)
(***************************************************************************)
EXTENDS RunQueue, Sequences

CONSTANTS MaxLog,         \* bound: entries per session log
          MaxCompactions  \* bound: background compactions

ASSUME TurnBounds == MaxLog \in Nat /\ MaxCompactions \in Nat

VARIABLES lock,       \* session_leases
          log,        \* session_entries, as <<lease token, run, attempt>>
          turn,       \* handleTurn, per driver
          comp,       \* the lease token of a background compaction, per session
          nextLock,   \* the next fresh session-lease token
          compacted,  \* compactions so far
          result      \* "ok" or "refused", for a run that is done

sessionVars == <<lock, log, turn, comp, nextLock, compacted, result>>
turnVars == <<vars, sessionVars>>

NoLock == [token |-> 0, run |-> NoRun, attempt |-> 0, expired |-> FALSE]
NoTurn == [step |-> "none", token |-> 0, retry |-> FALSE]

TurnInit == /\ Init
            /\ lock = [x \in Sessions |-> NoLock]
            /\ log = [x \in Sessions |-> <<>>]
            /\ turn = [d \in Drivers |-> NoTurn]
            /\ comp = [x \in Sessions |-> 0]
            /\ nextLock = 1
            /\ compacted = 0
            /\ result = [r \in Runs |-> "none"]

SessionAt(d) == SessionOf[drv[d].run]

-----------------------------------------------------------------------------
(***************************************************************************)
(* The statements of the session store.                                    *)
(***************************************************************************)

\* acquireLease inserts the row, or replaces one that has expired.
LockFree(x) == lock[x].token = 0 \/ lock[x].expired

TakeLock(x, r, attempt) ==
    /\ lock' = [lock EXCEPT ![x] = [token |-> nextLock, run |-> r,
                                    attempt |-> attempt, expired |-> FALSE]]
    /\ nextLock' = nextLock + 1

\* Mutated form: any lease on the session will do.
HoldsSomeLock(x, token) == lock[x].token # 0

\* append and appendTape ask for the token, not for the expiry.
HoldsLock(x, token) == lock[x].token = token

Append1(x, token, r, attempt) ==
    /\ Len(log[x]) < MaxLog
    /\ log' = [log EXCEPT ![x] = Append(@, <<token, r, attempt>>)]
    /\ lock' = [lock EXCEPT ![x].expired = FALSE]

\* releaseLease deletes the row only if the token is still the caller's.
Unlocked(x, token) ==
    [lock EXCEPT ![x] = IF lock[x].token = token THEN NoLock ELSE @]

ForceReleaseLease(x) == lock' = [lock EXCEPT ![x] = NoLock]

LockExpires(x) ==
    /\ lock[x].token # 0 /\ ~lock[x].expired
    /\ lock' = [lock EXCEPT ![x].expired = TRUE]
    /\ UNCHANGED <<vars, log, turn, comp, nextLock, compacted, result>>

-----------------------------------------------------------------------------
(***************************************************************************)
(* handleTurn.  Before the lease: resolution and screening, which may also *)
(* throw.  Under the lease: entries are appended; one that is refused      *)
(* makes the turn throw.                                                   *)
(***************************************************************************)
Working(d) == drv[d].pc = "turn"

\* Mutated form: the turn does not keep the token it was given.
TurnLocksUnnamed(d) ==
    /\ Working(d) /\ turn[d].step = "none"
    /\ LockFree(SessionAt(d))
    /\ TakeLock(SessionAt(d), drv[d].run, drv[d].attempts)
    /\ turn' = [turn EXCEPT ![d].step = "open"]
    /\ UNCHANGED <<vars, log, comp, compacted, result>>

TurnLocks(d) ==
    /\ Working(d) /\ turn[d].step = "none"
    /\ IF LockFree(SessionAt(d))
       THEN /\ TakeLock(SessionAt(d), drv[d].run, drv[d].attempts)
            /\ turn' = [turn EXCEPT ![d].step = "open", ![d].token = nextLock]
       ELSE /\ turn' = [turn EXCEPT ![d].step = "busy"]
            /\ UNCHANGED <<lock, nextLock>>
    /\ UNCHANGED <<vars, log, comp, compacted, result>>

TurnAppends(d) ==
    /\ Working(d) /\ turn[d].step \in {"open", "wrote"}
    /\ HoldsLock(SessionAt(d), turn[d].token)
    /\ Append1(SessionAt(d), turn[d].token, drv[d].run, drv[d].attempts)
    /\ turn' = [turn EXCEPT ![d].step = "wrote"]
    /\ UNCHANGED <<vars, comp, nextLock, compacted, result>>

\* Mutated form: an append that is refused does not stop the turn.
TurnClosesUnwritten(d) ==
    /\ Working(d) /\ turn[d].step \in {"open", "wrote"}
    /\ lock' = Unlocked(SessionAt(d), turn[d].token)
    /\ turn' = [turn EXCEPT ![d].step = "over"]
    /\ UNCHANGED <<vars, log, comp, nextLock, compacted, result>>

\* A turn that wrote, or was cancelled by the lease-lost beat, ends well.
TurnCloses(d) ==
    /\ Working(d)
    /\ \/ turn[d].step = "wrote"
       \/ turn[d].step = "open" /\ drv[d].lost = LEASE_LOST_CONSECUTIVE
    /\ lock' = Unlocked(SessionAt(d), turn[d].token)
    /\ turn' = [turn EXCEPT ![d].step = "over"]
    /\ UNCHANGED <<vars, log, comp, nextLock, compacted, result>>

\* A turn that needs an approval, is denied a command or finds the project's
\* roster changed returns a refusal, whether it wrote anything or not.
TurnDeclines(d) ==
    /\ Working(d) /\ turn[d].step \in {"open", "wrote"}
    /\ lock' = Unlocked(SessionAt(d), turn[d].token)
    /\ turn' = [turn EXCEPT ![d].step = "refused"]
    /\ UNCHANGED <<vars, log, comp, nextLock, compacted, result>>

\* Any other error: a last attempt that was not cancelled leaves a
\* turn_failure entry if it still can.
TurnErrs(d, retry) ==
    /\ Working(d) /\ turn[d].step \in {"open", "wrote"}
    /\ LET x == SessionAt(d)
           records == /\ ~retry \/ drv[d].final
                      /\ drv[d].lost < LEASE_LOST_CONSECUTIVE
                      /\ HoldsLock(x, turn[d].token)
       IN  IF records
           THEN Append1(x, turn[d].token, drv[d].run, drv[d].attempts)
           ELSE UNCHANGED <<log, lock>>
    /\ turn' = [turn EXCEPT ![d].step = "closing", ![d].retry = retry]
    /\ UNCHANGED <<vars, comp, nextLock, compacted, result>>

\* The finally block after an error.
TurnUnlocks(d) ==
    /\ Working(d) /\ turn[d].step = "closing"
    /\ lock' = Unlocked(SessionAt(d), turn[d].token)
    /\ turn' = [turn EXCEPT ![d].step = "threw"]
    /\ UNCHANGED <<vars, log, comp, nextLock, compacted, result>>

\* releaseLease fails: the lease stays, and the error of the finally block
\* takes the place of whatever the turn was about to return.
TurnUnlockFails(d) ==
    /\ Working(d) /\ turn[d].step \in {"wrote", "closing"}
    /\ turn' = [turn EXCEPT ![d].step = "threw", ![d].retry = TRUE]
    /\ UNCHANGED <<vars, lock, log, comp, nextLock, compacted, result>>

\* A refusal or an error before the lease was asked for.
TurnRefusesEarly(d) ==
    /\ Working(d) /\ turn[d].step = "none"
    /\ turn' = [turn EXCEPT ![d].step = "refused"]
    /\ UNCHANGED <<vars, lock, log, comp, nextLock, compacted, result>>

TurnErrsEarly(d, retry) ==
    /\ Working(d) /\ turn[d].step = "none"
    /\ turn' = [turn EXCEPT ![d].step = "threw", ![d].retry = retry]
    /\ UNCHANGED <<vars, lock, log, comp, nextLock, compacted, result>>

\* Background compaction takes the same lease after a turn, in the process
\* of the turn but outside processRun.
CompactionLocks(x) ==
    /\ comp[x] = 0 /\ log[x] # <<>> /\ compacted < MaxCompactions
    /\ LockFree(x)
    /\ TakeLock(x, NoRun, 0)
    /\ comp' = [comp EXCEPT ![x] = nextLock]
    /\ compacted' = compacted + 1
    /\ UNCHANGED <<vars, log, turn, result>>

CompactionWrites(x) ==
    /\ comp[x] # 0 /\ HoldsLock(x, comp[x])
    /\ Append1(x, comp[x], NoRun, 0)
    /\ UNCHANGED <<vars, turn, comp, nextLock, compacted, result>>

CompactionEnds(x) ==
    /\ comp[x] # 0
    /\ lock' = Unlocked(x, comp[x])
    /\ comp' = [comp EXCEPT ![x] = 0]
    /\ UNCHANGED <<vars, log, turn, nextLock, compacted, result>>

-----------------------------------------------------------------------------
(***************************************************************************)
(* The steps of the queue with their session part.                         *)
(***************************************************************************)
Forget(d) == turn' = [turn EXCEPT ![d] = NoTurn]

TurnStarts(d) ==
    /\ (d \in Workers /\ Launch(d)) \/ (d \in Inline /\ \E r \in Runs : ClaimById(d, r))
    /\ Forget(d)
    /\ UNCHANGED <<lock, log, comp, nextLock, compacted, result>>

TurnEnds(d) ==
    /\ \/ /\ turn[d].step \in {"over", "refused", "busy"} /\ TurnReturns(d)
          /\ result' = IF row'[drv[d].run] # row[drv[d].run]
                       THEN [result EXCEPT ![drv[d].run] =
                               IF turn[d].step = "over" THEN "ok" ELSE "refused"]
                       ELSE result
       \/ turn[d].step = "threw" /\ TurnThrows(d, turn[d].retry) /\ UNCHANGED result
    /\ Forget(d)
    /\ UNCHANGED <<lock, log, comp, nextLock, compacted>>

ProcessDies(d) ==
    /\ (d \in Workers /\ WorkerCrash(d)) \/ (d \in Inline /\ InlineCrash(d))
    /\ Forget(d)
    /\ UNCHANGED <<lock, log, comp, nextLock, compacted, result>>

Drain(w) == /\ ReleaseUnlocks(w)
            /\ ForceReleaseLease(SessionOf[rel[w].run])
            /\ UNCHANGED <<log, turn, comp, nextLock, compacted, result>>

Unstrand(s, x) == /\ SweepUnlocks(s, x)
                  /\ ForceReleaseLease(x)
                  /\ UNCHANGED <<log, turn, comp, nextLock, compacted, result>>

\* Steps of the queue that the session store does not notice.
QueueOnly ==
    /\ \/ StoreNext
       \/ \E d \in Drivers : Beat(d) \/ BeatFails(d) \/ FailWrite(d) \/ Settle(d) \/ SettleFails(d)
       \/ \E w \in Workers : \/ \E r \in Runs : Claim(w, r)
                             \/ ClaimsNothing(w) \/ HandBack(w) \/ HandBackFails(w)
                             \/ LoopEnds(w) \/ Stop(w) \/ Restart(w)
                             \/ ReleaseInFlight(w) \/ ReleaseRun(w) \/ ReleaseFails(w)
       \/ \E s \in Sweeps : \/ SweepReads(s) \/ SweepSettles(s) \/ SweepEnds(s) \/ SweepCrash(s)
                            \/ \E c \in sweep[s].todo : SweepRetires(s, c)
    /\ UNCHANGED sessionVars

TurnNext ==
    \/ QueueOnly
    \/ \E d \in Drivers :
         \/ TurnStarts(d) \/ TurnLocks(d) \/ TurnAppends(d) \/ TurnCloses(d)
         \/ TurnDeclines(d) \/ TurnRefusesEarly(d) \/ TurnUnlocks(d) \/ TurnUnlockFails(d)
         \/ TurnEnds(d) \/ ProcessDies(d)
         \/ \E retry \in BOOLEAN : TurnErrs(d, retry) \/ TurnErrsEarly(d, retry)
    \/ \E w \in Workers : Drain(w)
    \/ \E s \in Sweeps, x \in Sessions : Unstrand(s, x)
    \/ \E x \in Sessions : \/ LockExpires(x) \/ CompactionLocks(x)
                           \/ CompactionWrites(x) \/ CompactionEnds(x)

TurnSpec == TurnInit /\ [][TurnNext]_turnVars

-----------------------------------------------------------------------------
(***************************************************************************)
(* Properties.                                                             *)
(***************************************************************************)

Lock == [token : Nat, run : Runs \cup {NoRun}, attempt : Nat, expired : BOOLEAN]

Turn == [step : {"none", "open", "wrote", "closing", "over", "refused", "busy", "threw"},
         token : Nat, retry : BOOLEAN]

\* The session variables have their types and a turn under way has a token.
TurnTypeOK ==
    /\ lock \in [Sessions -> Lock]
    /\ log \in [Sessions -> Seq(Nat \X (Runs \cup {NoRun}) \X Nat)]
    /\ turn \in [Drivers -> Turn]
    /\ comp \in [Sessions -> Nat]
    /\ nextLock \in Nat \ {0} /\ compacted \in Nat
    /\ result \in [Runs -> {"none", "ok", "refused"}]
    /\ \A d \in Drivers : turn[d].step \in {"open", "wrote"} => turn[d].token # 0

\* The session log is fenced: once a later lease wrote to it, no earlier
\* holder does, although leases expire under a live turn and the reaper and
\* releaseInFlight take them away by force.
LogFenced ==
    \A x \in Sessions : \A i, j \in DOMAIN log[x] : i < j => log[x][i][1] <= log[x][j][1]

\* A run that is reported done with a reply has that attempt in its session's
\* log: a turn that lost its lease half-way does not report success.
DoneIsRecorded ==
    \A r \in Runs : result[r] = "ok" =>
        \E i \in DOMAIN log[SessionOf[r]] :
            log[SessionOf[r]][i][2] = r /\ log[SessionOf[r]][i][3] = row[r].attempts

\* "session lease was released on reap, so the retry can re-acquire"
\* (test/worker-reaper.test.ts:180): the retry of a reaped run is not refused
\* because of the session lease of the attempt that was reaped.
RetryFindsLockFree ==
    [][\A d \in Drivers : turn[d].step = "none" /\ turn'[d].step = "busy"
                          => lock[SessionAt(d)].run # drv[d].run]_turnVars
=============================================================================
