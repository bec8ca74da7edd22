------------------------------ MODULE RunQueue ------------------------------
(***************************************************************************)
(* The durable run queue: the runs table (src/runs/postgres-run-store.ts), *)
(* the worker loop and processRun (src/runs/worker.ts), the inline driver  *)
(* of a synchronous request (src/api/app-helpers.ts) and the reaper        *)
(* (src/runs/reaper.ts).                                                   *)
(*                                                                         *)
(* One SQL statement is one step.  A handler that awaits between two       *)
(* statements is split there, so every other process may run in between.   *)
(* Wall-clock time is kept only as the comparisons the code makes with it: *)
(*   row[r].lapsed   lease_expires_at <= the current time                  *)
(*   row[r].aged     the run started more than maxAgeMs ago                *)
(*   sweep[s].due    the runs with lease_expires_at <= the time at which   *)
(*                   sweep s read the table; a later renewal or claim      *)
(*                   moves lease_expires_at past that time                 *)
(* A lease token is a number never used before (a fresh UUID); 0 is NULL.  *)
(***************************************************************************)
EXTENDS Integers

CONSTANTS
    Runs,         \* run ids, one per idempotency key
    NoRun,        \* "no run", not a run id
    Sessions,     \* session ids
    SessionOf,    \* the session each run belongs to
    Workers,      \* background worker loops
    Inline,       \* request handlers that drive their own run
    Sweeps,       \* reaper sweeps that may overlap
    MaxAttempts,  \* max_attempts of every run: its error budget
    MaxClaims,    \* claim cap of the store
    MaxFaults     \* bound: crashes, shutdowns and failed statements

ASSUME RunsAssumption == NoRun \notin Runs /\ SessionOf \in [Runs -> Sessions]
ASSUME DriversAssumption == Workers \cap Inline = {}
ASSUME BudgetAssumption == /\ MaxAttempts \in Nat \ {0}
                           /\ MaxClaims \in Nat \ {0}
                           /\ MaxFaults \in Nat

VARIABLES
    row,        \* the runs table
    drv,        \* processRun and the loop around it, per driver
    rel,        \* releaseInFlight, per worker
    sweep,      \* reapExpired, per sweep
    nextToken,  \* the next fresh lease token
    created,    \* runs created so far: the created_at clock
    settled,    \* terminal notifications sent, per run
    handed,     \* times a run was handed back by releaseLease, per run
    faults      \* faults so far

vars == <<row, drv, rel, sweep, nextToken, created, settled, handed, faults>>

Drivers == Workers \cup Inline

LEASE_LOST_CONSECUTIVE == 3

Statuses == {"absent", "pending", "running", "done", "failed"}
Reasons  == {"none", "ok", "error", "crash_loop", "max_age", "lease_expired"}

isTerminal(status) == status \in {"done", "failed"}

Row == [status : Statuses, attempts : Nat, errorAttempts : Nat, token : Nat,
        lapsed : BOOLEAN, aged : BOOLEAN, createdAt : Nat, reason : Reasons]

NoRow == [status |-> "absent", attempts |-> 0, errorAttempts |-> 0, token |-> 0,
          lapsed |-> FALSE, aged |-> FALSE, createdAt |-> 0, reason |-> "none"]

\* What a driver remembers: the run and token it claimed, the budget counters
\* of the row it read last, and errorParks as it was at claim time.
Idle == [pc |-> "idle", run |-> NoRun, token |-> 0, attempts |-> 0,
         errorAttempts |-> 0, final |-> FALSE, retry |-> FALSE, lost |-> 0,
         stopped |-> FALSE]

NoRelease == [pc |-> "none", run |-> NoRun, token |-> 0, released |-> 0]

NoSweep == [pc |-> "idle", todo |-> {}, due |-> {}, retired |-> {}, run |-> NoRun]

Init == /\ row = [r \in Runs |-> NoRow]
        /\ drv = [d \in Drivers |-> Idle]
        /\ rel = [w \in Workers |-> NoRelease]
        /\ sweep = [s \in Sweeps |-> NoSweep]
        /\ nextToken = 1
        /\ created = 0
        /\ settled = [r \in Runs |-> 0]
        /\ handed = [r \in Runs |-> 0]
        /\ faults = 0

-----------------------------------------------------------------------------
(***************************************************************************)
(* The statements of the run store.                                        *)
(***************************************************************************)

\* A definition whose comment says "Mutated form" is the operator after it
\* with a plausible mistake in it; only the mutants of the project use it.

\* Mutated form: the fence forgets the token.
OwnsAnyToken(r, token) == row[r].status = "running"

\* The fence of heartbeat, releaseLease and retire: id, lease_token, running.
Owns(r, token) == row[r].token = token /\ row[r].status = "running"

\* Mutated form: complete by id alone.
CompleteFenceById(r, token) == row[r].status # "absent"

\* The fence of complete: id and lease_token only.
CompleteFence(r, token) == row[r].token = token

\* Mutated form: no look at the session's other runs.
ClaimableAnySession(r) == row[r].status = "pending"

\* A claim takes a pending run whose session has no running run; the partial
\* unique index turns a claim that raced another one into "nothing claimed".
Claimable(r) == /\ row[r].status = "pending"
                /\ \A q \in Runs : row[q].status = "running" => SessionOf[q] # SessionOf[r]

\* claim() orders by created_at.
Oldest(r) == \A q \in Runs : Claimable(q) => row[r].createdAt <= row[q].createdAt

\* Would an error on this attempt park the run?
errorParks(attempts, errorAttempts) ==
    errorAttempts + 1 >= MaxAttempts \/ attempts >= MaxClaims

\* lease_expires_at moves past every sweep's read time.
Renewed(r) == [s \in Sweeps |-> [sweep[s] EXCEPT !.due = @ \ {r}]]

\* Mutated form: the claim is not counted.
ClaimRowUncounted(r) ==
    /\ row' = [row EXCEPT ![r].status = "running", ![r].token = nextToken, ![r].lapsed = FALSE]
    /\ sweep' = Renewed(r)
    /\ nextToken' = nextToken + 1

ClaimRow(r) ==
    /\ row' = [row EXCEPT ![r].status = "running",
                          ![r].token = nextToken,
                          ![r].lapsed = FALSE,
                          ![r].attempts = @ + 1]
    /\ sweep' = Renewed(r)
    /\ nextToken' = nextToken + 1

\* heartbeat by the holder; it also revives a lease that had lapsed.
RenewLease(r) == /\ row' = [row EXCEPT ![r].lapsed = FALSE]
                 /\ sweep' = Renewed(r)

CompleteRow(r) ==
    row' = [row EXCEPT ![r].status = "done",
                       ![r].token = 0,
                       ![r].lapsed = FALSE,
                       ![r].reason = "ok"]

ReleaseRow(r) ==
    /\ row' = [row EXCEPT ![r].status = "pending",
                          ![r].token = 0,
                          ![r].lapsed = FALSE]
    /\ handed' = [handed EXCEPT ![r] = @ + 1]

\* Mutated form: one error too many.
RequeuesOnceMore(c, retry, counted) ==
    retry /\ c.errorAttempts + counted <= MaxAttempts /\ c.attempts < MaxClaims

\* Mutated form: no claim cap.
RequeuesUncapped(c, retry, counted) == retry /\ c.errorAttempts + counted < MaxAttempts

\* retire() decides from the row it was given, not from the row it updates.
Requeues(c, retry, counted) ==
    retry /\ c.errorAttempts + counted < MaxAttempts /\ c.attempts < MaxClaims

\* Mutated form: the crash loop is not told from a lost lease.
RetireReasonPlain(c, error, retry, counted) == error

RetireReason(c, error, retry, counted) ==
    IF counted = 0 /\ c.attempts >= MaxClaims /\ retry /\ c.errorAttempts < MaxAttempts
    THEN "crash_loop"
    ELSE error

\* Mutated form: the lease columns are not cleared.
RetireRowKeepsToken(r, c, error, retry, counted) ==
    row' = [row EXCEPT ![r].status = IF Requeues(c, retry, counted) THEN "pending" ELSE "failed",
                       ![r].errorAttempts = @ + counted,
                       ![r].reason = IF Requeues(c, retry, counted)
                                     THEN @ ELSE RetireReason(c, error, retry, counted)]

RetireRow(r, c, error, retry, counted) ==
    IF Requeues(c, retry, counted)
    THEN row' = [row EXCEPT ![r].status = "pending",
                            ![r].token = 0,
                            ![r].lapsed = FALSE,
                            ![r].errorAttempts = @ + counted]
    ELSE row' = [row EXCEPT ![r].status = "failed",
                            ![r].token = 0,
                            ![r].lapsed = FALSE,
                            ![r].errorAttempts = @ + counted,
                            ![r].reason = RetireReason(c, error, retry, counted)]

-----------------------------------------------------------------------------
(***************************************************************************)
(* Enqueueing and time.                                                    *)
(***************************************************************************)

\* A run id stands for its idempotency key: a second enqueue finds the row
\* and changes nothing.
Enqueue(r) ==
    /\ row[r].status = "absent"
    /\ row' = [row EXCEPT ![r].status = "pending", ![r].createdAt = created]
    /\ created' = created + 1
    /\ UNCHANGED <<drv, rel, sweep, nextToken, settled, handed, faults>>

LeaseLapses(r) ==
    /\ row[r].status = "running" /\ ~row[r].lapsed
    /\ row' = [row EXCEPT ![r].lapsed = TRUE]
    /\ UNCHANGED <<drv, rel, sweep, nextToken, created, settled, handed, faults>>

\* started_at is set by the first claim and never moves.
RunAges(r) ==
    /\ row[r].status \in {"pending", "running"} /\ row[r].attempts > 0 /\ ~row[r].aged
    /\ row' = [row EXCEPT ![r].aged = TRUE]
    /\ UNCHANGED <<drv, rel, sweep, nextToken, created, settled, handed, faults>>

-----------------------------------------------------------------------------
(***************************************************************************)
(* A driver: the worker loop or an inline request, running processRun.     *)
(***************************************************************************)

\* The copy of the row that a claim returns.
Claimed(d, r, pc) ==
    [pc |-> pc, run |-> r, token |-> nextToken,
     attempts |-> row[r].attempts + 1, errorAttempts |-> row[r].errorAttempts,
     final |-> errorParks(row[r].attempts + 1, row[r].errorAttempts),
     retry |-> FALSE, lost |-> 0, stopped |-> drv[d].stopped]

\* Back to the loop: nothing in flight any more.
Finished(d) == [Idle EXCEPT !.stopped = drv[d].stopped]

Claim(w, r) ==
    /\ drv[w].pc = "idle" /\ ~drv[w].stopped
    /\ Claimable(r) /\ Oldest(r)
    /\ ClaimRow(r)
    /\ drv' = [drv EXCEPT ![w] = Claimed(w, r, "claimed")]
    /\ UNCHANGED <<rel, created, settled, handed, faults>>

\* Nothing to claim: the loop sleeps and asks again.
ClaimsNothing(w) ==
    /\ drv[w].pc = "idle" /\ ~drv[w].stopped
    /\ \A r \in Runs : ~Claimable(r)
    /\ UNCHANGED vars

\* After the await: a worker stopped meanwhile hands the run straight back.
Launch(w) ==
    /\ drv[w].pc = "claimed" /\ ~drv[w].stopped
    /\ drv' = [drv EXCEPT ![w].pc = "turn"]
    /\ UNCHANGED <<row, rel, sweep, nextToken, created, settled, handed, faults>>

HandBack(w) ==
    /\ drv[w].pc = "claimed" /\ drv[w].stopped
    /\ IF Owns(drv[w].run, drv[w].token)
       THEN ReleaseRow(drv[w].run)
       ELSE UNCHANGED <<row, handed>>
    /\ drv' = [drv EXCEPT ![w] = [Idle EXCEPT !.pc = "exited"]]
    /\ UNCHANGED <<rel, sweep, nextToken, created, settled, faults>>

\* The hand-back statement fails; the error is swallowed and the loop ends.
HandBackFails(w) ==
    /\ drv[w].pc = "claimed" /\ drv[w].stopped
    /\ faults < MaxFaults
    /\ drv' = [drv EXCEPT ![w] = [Idle EXCEPT !.pc = "exited"]]
    /\ faults' = faults + 1
    /\ UNCHANGED <<row, rel, sweep, nextToken, created, settled, handed>>

LoopEnds(w) ==
    /\ drv[w].pc = "idle" /\ drv[w].stopped
    /\ drv' = [drv EXCEPT ![w].pc = "exited"]
    /\ UNCHANGED <<row, rel, sweep, nextToken, created, settled, handed, faults>>

\* drive(): claim one's own run by id and process it at once.
ClaimById(i, r) ==
    /\ drv[i].pc = "idle"
    /\ Claimable(r)
    /\ ClaimRow(r)
    /\ drv' = [drv EXCEPT ![i] = Claimed(i, r, "turn")]
    /\ UNCHANGED <<rel, created, settled, handed, faults>>

\* A heartbeat; the third miss in a row cancels the turn and ends the beat.
Beat(d) ==
    /\ drv[d].pc = "turn" /\ drv[d].lost < LEASE_LOST_CONSECUTIVE
    /\ \/ /\ Owns(drv[d].run, drv[d].token)
          /\ RenewLease(drv[d].run)
          /\ drv' = [drv EXCEPT ![d].lost = 0]
       \/ /\ ~Owns(drv[d].run, drv[d].token)
          /\ drv' = [drv EXCEPT ![d].lost = @ + 1]
          /\ UNCHANGED <<row, sweep>>
    /\ UNCHANGED <<rel, nextToken, created, settled, handed, faults>>

\* A heartbeat statement that throws says nothing about the lease.
BeatFails(d) ==
    /\ drv[d].pc = "turn" /\ drv[d].lost < LEASE_LOST_CONSECUTIVE
    /\ faults < MaxFaults
    /\ drv' = [drv EXCEPT ![d].lost = 0]
    /\ faults' = faults + 1
    /\ UNCHANGED <<row, rel, sweep, nextToken, created, settled, handed>>

\* handleTurn returned: the beat stops and complete() runs its update.
TurnReturns(d) ==
    /\ drv[d].pc = "turn"
    /\ IF CompleteFence(drv[d].run, drv[d].token)
       THEN /\ CompleteRow(drv[d].run)
            /\ drv' = [drv EXCEPT ![d].pc = "settling"]
       ELSE /\ drv' = [drv EXCEPT ![d] = Finished(d)]
            /\ UNCHANGED row
    /\ UNCHANGED <<rel, sweep, nextToken, created, settled, handed, faults>>

\* handleTurn threw (or complete's update did): fail() reads the row first.
TurnThrows(d, retry) ==
    /\ drv[d].pc = "turn"
    /\ drv' = IF row[drv[d].run].token = drv[d].token
              THEN [drv EXCEPT ![d].pc = "failing",
                               ![d].attempts = row[drv[d].run].attempts,
                               ![d].errorAttempts = row[drv[d].run].errorAttempts,
                               ![d].retry = retry]
              ELSE [drv EXCEPT ![d] = Finished(d)]
    /\ UNCHANGED <<row, rel, sweep, nextToken, created, settled, handed, faults>>

\* The guarded update of fail(), decided by the row read before.
FailWrite(d) ==
    /\ drv[d].pc = "failing"
    /\ IF Owns(drv[d].run, drv[d].token)
       THEN /\ RetireRow(drv[d].run, drv[d], "error", drv[d].retry, 1)
            /\ drv' = [drv EXCEPT ![d] = IF Requeues(drv[d], drv[d].retry, 1)
                                         THEN Finished(d)
                                         ELSE [@ EXCEPT !.pc = "settling"]]
       ELSE /\ drv' = [drv EXCEPT ![d] = Finished(d)]
            /\ UNCHANGED row
    /\ UNCHANGED <<rel, sweep, nextToken, created, settled, handed, faults>>

\* The row is terminal; it is read back and the listeners are notified.
Settle(d) ==
    /\ drv[d].pc = "settling"
    /\ settled' = [settled EXCEPT ![drv[d].run] = @ + 1]
    /\ drv' = [drv EXCEPT ![d] = Finished(d)]
    /\ UNCHANGED <<row, rel, sweep, nextToken, created, handed, faults>>

\* Reading the row back fails: the row stays terminal, nobody is notified.
SettleFails(d) ==
    /\ drv[d].pc = "settling"
    /\ faults < MaxFaults
    /\ drv' = [drv EXCEPT ![d] = Finished(d)]
    /\ faults' = faults + 1
    /\ UNCHANGED <<row, rel, sweep, nextToken, created, settled, handed>>

-----------------------------------------------------------------------------
(***************************************************************************)
(* Shutdown: stop(), releaseInFlight(), process exit and restart.          *)
(***************************************************************************)

Stop(w) ==
    /\ drv[w].pc # "exited" /\ ~drv[w].stopped
    /\ faults < MaxFaults
    /\ drv' = [drv EXCEPT ![w].stopped = TRUE]
    /\ faults' = faults + 1
    /\ UNCHANGED <<row, rel, sweep, nextToken, created, settled, handed>>

InFlight(w) == drv[w].pc \in {"turn", "failing", "settling"}

\* releaseInFlight: one attempt at a time and none after a completed one.
ReleaseInFlight(w) ==
    /\ drv[w].stopped /\ InFlight(w)
    /\ rel[w].pc = "none" /\ rel[w].released # drv[w].token
    /\ IF Owns(drv[w].run, drv[w].token)
       THEN /\ RenewLease(drv[w].run)
            /\ rel' = [rel EXCEPT ![w].pc = "unlock",
                                  ![w].run = drv[w].run,
                                  ![w].token = drv[w].token]
       ELSE /\ rel' = [rel EXCEPT ![w].released = drv[w].token]
            /\ UNCHANGED <<row, sweep>>
    /\ UNCHANGED <<drv, nextToken, created, settled, handed, faults>>

\* forceReleaseLease of the run's session; the session store is not part of
\* this module.
ReleaseUnlocks(w) ==
    /\ rel[w].pc = "unlock"
    /\ rel' = [rel EXCEPT ![w].pc = "release"]
    /\ UNCHANGED <<row, drv, sweep, nextToken, created, settled, handed, faults>>

ReleaseRun(w) ==
    /\ rel[w].pc = "release"
    /\ IF Owns(rel[w].run, rel[w].token)
       THEN ReleaseRow(rel[w].run)
       ELSE UNCHANGED <<row, handed>>
    /\ rel' = [rel EXCEPT ![w] = [NoRelease EXCEPT !.released = rel[w].token]]
    /\ UNCHANGED <<drv, sweep, nextToken, created, settled, faults>>

\* A statement of releaseInFlight fails: the attempt may be repeated.
ReleaseFails(w) ==
    /\ rel[w].pc \in {"unlock", "release"}
    /\ faults < MaxFaults
    /\ rel' = [rel EXCEPT ![w] = [NoRelease EXCEPT !.released = rel[w].released]]
    /\ faults' = faults + 1
    /\ UNCHANGED <<row, drv, sweep, nextToken, created, settled, handed>>

\* The process dies or exits: everything in memory is gone, the row is not.
WorkerCrash(w) ==
    /\ drv[w].pc # "exited"
    /\ drv[w].stopped \/ faults < MaxFaults
    /\ drv' = [drv EXCEPT ![w] = [Idle EXCEPT !.pc = "exited"]]
    /\ rel' = [rel EXCEPT ![w] = NoRelease]
    /\ faults' = IF drv[w].stopped THEN faults ELSE faults + 1
    /\ UNCHANGED <<row, sweep, nextToken, created, settled, handed>>

InlineCrash(i) ==
    /\ drv[i].pc # "idle"
    /\ faults < MaxFaults
    /\ drv' = [drv EXCEPT ![i] = Idle]
    /\ faults' = faults + 1
    /\ UNCHANGED <<row, rel, sweep, nextToken, created, settled, handed>>

Restart(w) ==
    /\ drv[w].pc = "exited"
    /\ drv' = [drv EXCEPT ![w] = Idle]
    /\ rel' = [rel EXCEPT ![w] = NoRelease]
    /\ UNCHANGED <<row, sweep, nextToken, created, settled, handed, faults>>

-----------------------------------------------------------------------------
(***************************************************************************)
(* The reaper.  pokeReaper sweeps without the leader lease, so sweeps of   *)
(* one or several instances may overlap.                                   *)
(***************************************************************************)

\* Mutated form: the comparison with the current time is the wrong way round.
leaseNotLapsed(r) == row[r].status = "running" /\ ~row[r].lapsed

leaseLapsed(r) == row[r].status = "running" /\ row[r].lapsed

\* The copy of an expired row that the sweep's SELECT returns.
Expired(r) == [run |-> r, token |-> row[r].token, attempts |-> row[r].attempts,
               errorAttempts |-> row[r].errorAttempts, tooOld |-> row[r].aged]

SweepReads(s) ==
    /\ sweep[s].pc = "idle"
    /\ \E r \in Runs : leaseLapsed(r)
    /\ sweep' = [sweep EXCEPT ![s].pc = "retiring",
                              ![s].todo = {Expired(r) : r \in {q \in Runs : leaseLapsed(q)}},
                              ![s].due = {q \in Runs : leaseLapsed(q)}]
    /\ UNCHANGED <<row, drv, rel, nextToken, created, settled, handed, faults>>

\* Mutated form: no ifExpiredAt.
ReapFenceByToken(s, c) == Owns(c.run, c.token)

\* The fence of a reap: still the same lease, and not renewed since the read.
ReapFence(s, c) == Owns(c.run, c.token) /\ c.run \in sweep[s].due

SweepRetires(s, c) ==
    /\ sweep[s].pc = "retiring" /\ c \in sweep[s].todo
    /\ IF ReapFence(s, c)
       THEN /\ RetireRow(c.run, c, IF c.tooOld THEN "max_age" ELSE "lease_expired", ~c.tooOld, 0)
            /\ sweep' = [sweep EXCEPT ![s].todo = @ \ {c},
                                      ![s].retired = @ \cup {SessionOf[c.run]},
                                      ![s].pc = IF Requeues(c, ~c.tooOld, 0)
                                                THEN @ ELSE "settling",
                                      ![s].run = IF Requeues(c, ~c.tooOld, 0)
                                                 THEN @ ELSE c.run]
       ELSE /\ sweep' = [sweep EXCEPT ![s].todo = @ \ {c}]
            /\ UNCHANGED row
    /\ UNCHANGED <<drv, rel, nextToken, created, settled, handed, faults>>

SweepSettles(s) ==
    /\ sweep[s].pc = "settling"
    /\ settled' = [settled EXCEPT ![sweep[s].run] = @ + 1]
    /\ sweep' = [sweep EXCEPT ![s].pc = "retiring", ![s].run = NoRun]
    /\ UNCHANGED <<row, drv, rel, nextToken, created, handed, faults>>

\* onRetired: force-release the session lease of each retired run in turn.
SweepUnlocks(s, x) ==
    /\ sweep[s].pc = "retiring" /\ sweep[s].todo = {}
    /\ x \in sweep[s].retired
    /\ sweep' = [sweep EXCEPT ![s].retired = @ \ {x}]
    /\ UNCHANGED <<row, drv, rel, nextToken, created, settled, handed, faults>>

SweepEnds(s) ==
    /\ sweep[s].pc = "retiring" /\ sweep[s].todo = {} /\ sweep[s].retired = {}
    /\ sweep' = [sweep EXCEPT ![s] = NoSweep]
    /\ UNCHANGED <<row, drv, rel, nextToken, created, settled, handed, faults>>

\* The instance dies or a statement throws: the rest of the sweep is lost.
SweepCrash(s) ==
    /\ sweep[s].pc # "idle"
    /\ faults < MaxFaults
    /\ sweep' = [sweep EXCEPT ![s] = NoSweep]
    /\ faults' = faults + 1
    /\ UNCHANGED <<row, drv, rel, nextToken, created, settled, handed>>

-----------------------------------------------------------------------------
StoreNext == \E r \in Runs : Enqueue(r) \/ LeaseLapses(r) \/ RunAges(r)

DriverNext(d) ==
    \/ Beat(d) \/ BeatFails(d)
    \/ TurnReturns(d) \/ (\E retry \in BOOLEAN : TurnThrows(d, retry))
    \/ FailWrite(d) \/ Settle(d) \/ SettleFails(d)

WorkerNext(w) ==
    \/ (\E r \in Runs : Claim(w, r)) \/ ClaimsNothing(w)
    \/ Launch(w) \/ HandBack(w) \/ HandBackFails(w) \/ LoopEnds(w)
    \/ Stop(w) \/ WorkerCrash(w) \/ Restart(w)
    \/ ReleaseInFlight(w) \/ ReleaseUnlocks(w) \/ ReleaseRun(w) \/ ReleaseFails(w)

InlineNext(i) == (\E r \in Runs : ClaimById(i, r)) \/ InlineCrash(i)

SweepNext(s) ==
    \/ SweepReads(s) \/ SweepSettles(s) \/ SweepEnds(s) \/ SweepCrash(s)
    \/ \E c \in sweep[s].todo : SweepRetires(s, c)
    \/ \E x \in Sessions : SweepUnlocks(s, x)

Next == \/ StoreNext
        \/ \E d \in Drivers : DriverNext(d)
        \/ \E w \in Workers : WorkerNext(w)
        \/ \E i \in Inline : InlineNext(i)
        \/ \E s \in Sweeps : SweepNext(s)

Spec == Init /\ [][Next]_vars

-----------------------------------------------------------------------------
(***************************************************************************)
(* Fairness.  Worker loops poll, sweeps run on an interval, a turn ends    *)
(* (the harness bounds it), a lease nobody beats for lapses with time, and *)
(* a process that exited is started again.  Nothing obliges a heartbeat to *)
(* be on time, a request to drive its run inline, or a fault to happen.    *)
(***************************************************************************)
Orphaned(r) == \A d \in Drivers : drv[d].pc = "turn" => drv[d].token # row[r].token

WorkerProgress(w) == \/ \E r \in Runs : Claim(w, r)
                     \/ Launch(w) \/ HandBack(w) \/ LoopEnds(w) \/ Restart(w)

DriverProgress(d) == \/ TurnReturns(d) \/ (\E retry \in BOOLEAN : TurnThrows(d, retry))
                     \/ FailWrite(d) \/ Settle(d)

SweepProgress(s) == \/ SweepReads(s) \/ SweepSettles(s) \/ SweepEnds(s)
                    \/ \E c \in sweep[s].todo : SweepRetires(s, c)
                    \/ \E x \in Sessions : SweepUnlocks(s, x)

Fairness == /\ \A w \in Workers : WF_vars(WorkerProgress(w))
            /\ \A d \in Drivers : WF_vars(DriverProgress(d))
            /\ \A s \in Sweeps : WF_vars(SweepProgress(s))
            /\ \A r \in Runs : WF_vars(Orphaned(r) /\ LeaseLapses(r))

FairSpec == Spec /\ Fairness

-----------------------------------------------------------------------------
(***************************************************************************)
(* Properties.                                                             *)
(***************************************************************************)
Active == {"claimed", "turn", "failing", "settling"}

Driver == [pc : Active \cup {"idle", "exited"}, run : Runs \cup {NoRun},
           token : Nat, attempts : Nat, errorAttempts : Nat, final : BOOLEAN,
           retry : BOOLEAN, lost : 0 .. LEASE_LOST_CONSECUTIVE, stopped : BOOLEAN]

Release == [pc : {"none", "unlock", "release"}, run : Runs \cup {NoRun},
            token : Nat, released : Nat]

Copy == [run : Runs, token : Nat, attempts : Nat, errorAttempts : Nat, tooOld : BOOLEAN]

Sweep == [pc : {"idle", "retiring", "settling"}, todo : SUBSET Copy,
          due : SUBSET Runs, retired : SUBSET Sessions, run : Runs \cup {NoRun}]

\* Every variable has its type, and whoever is working on a run names one.
TypeOK == /\ row \in [Runs -> Row]
          /\ drv \in [Drivers -> Driver]
          /\ rel \in [Workers -> Release]
          /\ sweep \in [Sweeps -> Sweep]
          /\ nextToken \in Nat \ {0}
          /\ created \in Nat
          /\ settled \in [Runs -> Nat]
          /\ handed \in [Runs -> Nat]
          /\ faults \in Nat
          /\ \A d \in Drivers : drv[d].pc \in Active => drv[d].run \in Runs
          /\ \A w \in Workers : rel[w].pc # "none" => rel[w].run \in Runs
          /\ \A s \in Sweeps : sweep[s].pc = "settling" => sweep[s].run \in Runs

\* The turns of one session are serial: two runs of the same session are
\* never running at once, whoever claims, completes, hands back or reaps them.
OneRunningPerSession ==
    \A r, q \in Runs : /\ row[r].status = "running" /\ row[q].status = "running"
                       /\ SessionOf[r] = SessionOf[q]
                       => r = q

\* A terminal run stays as it is: no late completion, failure, hand-back or
\* reap of an earlier lease changes its status, reason or counters.
TerminalIsFinal ==
    [][\A r \in Runs : isTerminal(row[r].status) => row'[r] = row[r]]_vars

\* onTerminal fires at most once for a run, and only for a terminal one,
\* although a worker, an inline driver and several sweeps may all settle it.
NotifiedOnce ==
    \A r \in Runs : settled[r] <= 1 /\ (settled[r] = 1 => isTerminal(row[r].status))

\* The error budget: a run that can still be claimed has errors to spare and
\* no run is charged more than max_attempts, although fail() decides from a
\* row it read earlier.
ErrorBudgetKept ==
    \A r \in Runs : IF isTerminal(row[r].status) THEN row[r].errorAttempts <= MaxAttempts
                                                 ELSE row[r].errorAttempts < MaxAttempts

\* The crash-loop cap: a run is claimed at most MaxClaims times, not counting
\* the claims that a shutdown handed back.
ClaimCapKept == \A r \in Runs : row[r].attempts <= MaxClaims + handed[r]

\* A lost lease alone never fails a run: what the reaper parks has run out of
\* claims or is too old, and a concrete error is never hidden by the reaper.
ParkedForCause ==
    \A r \in Runs : /\ row[r].reason # "lease_expired"
                    /\ row[r].reason = "crash_loop" => row[r].attempts >= MaxClaims
                    /\ row[r].reason = "max_age" => row[r].aged

\* The tool ledger is keyed by (run, attempt): two drivers working on one run,
\* the current one and a zombie, never have the same attempt number.
AttemptsExclusive ==
    \A d, e \in Drivers : /\ drv[d].pc \in Active /\ drv[e].pc \in Active
                          /\ drv[d].run = drv[e].run
                          /\ drv[d].attempts = drv[e].attempts
                          => d = e

\* A driver that lost its lease touches nothing: whatever it does until it
\* notices leaves the table and the sessions' hand-back counts alone.
ZombieIsHarmless ==
    [][\A d \in Drivers :
         /\ drv[d].pc \in {"turn", "failing"} /\ drv'[d] # drv[d]
         /\ row[drv[d].run].token # drv[d].token
         => row' = row /\ handed' = handed]_vars

\* A sweep never retires a run whose lease was renewed, or taken over, after
\* the sweep read the table.
ReapsOnlyLapsed ==
    [][\A s \in Sweeps, r \in Runs :
         sweep'[s].todo # sweep[s].todo /\ row'[r] # row[r] => row[r].lapsed]_vars

\* Every enqueued run ends: done, or failed with a reason, in spite of
\* crashes, shutdowns and lost statements.
EveryRunEnds ==
    \A r \in Runs : row[r].status = "pending" ~> isTerminal(row[r].status)

\* The queue keeps the promise of the store: read without leases, tokens and
\* processes, every step of it is a step of RunLifecycle or none at all.
Lifecycle == INSTANCE RunLifecycle
             WITH status <- [r \in Runs |-> row[r].status],
                  attempts <- [r \in Runs |-> row[r].attempts],
                  errors <- [r \in Runs |-> row[r].errorAttempts]

ImplementsLifecycle == Lifecycle!Spec
=============================================================================
