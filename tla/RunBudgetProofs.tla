-------------------------- MODULE RunBudgetProofs --------------------------
(***************************************************************************)
(* The budgets of a run, the reasons it is parked for, the refinement of   *)
(* RunLifecycle, and what becomes of a run and of those who lost it: a     *)
(* zombie touches nothing, a sweep retires only a lease that is still      *)
(* lapsed, a run's listeners are notified once, and no two drivers share   *)
(* an attempt.                                                             *)
(*                                                                         *)
(* fail() and reapExpired() decide from a row they read earlier, so the    *)
(* argument rests on CopyInv: as long as the lease a copy names is still   *)
(* the lease of the row, the copy is current.                              *)
(***************************************************************************)
EXTENDS RunQueueProofs

CopyInv ==
    /\ \A r \in Runs : row[r].token < nextToken
    /\ \A d \in Drivers : drv[d].pc \in Active =>
         /\ drv[d].token < nextToken
         /\ row[drv[d].run].token = drv[d].token =>
              /\ drv[d].attempts = row[drv[d].run].attempts
              /\ drv[d].errorAttempts = row[drv[d].run].errorAttempts
    /\ \A s \in Sweeps : \A c \in sweep[s].todo :
         /\ c.token # 0 /\ c.token < nextToken
         /\ row[c.run].token = c.token =>
              /\ c.attempts = row[c.run].attempts
              /\ c.errorAttempts = row[c.run].errorAttempts
              /\ c.tooOld => row[c.run].aged

-----------------------------------------------------------------------------
(***************************************************************************)
(* What a step may do to one row, counters and reason included.            *)
(***************************************************************************)
SameCounters(r) == /\ row'[r].attempts = row[r].attempts
                   /\ row'[r].errorAttempts = row[r].errorAttempts

Quiet == handed' = handed /\ nextToken' = nextToken

Submits(r) == /\ row[r].status = "absent" /\ row'[r].status = "pending"
              /\ row'[r].token = row[r].token /\ SameCounters(r)
              /\ row'[r].reason = row[r].reason /\ row'[r].aged = row[r].aged
              /\ Quiet

Flags(r) == /\ row'[r].status = row[r].status /\ row'[r].token = row[r].token
            /\ SameCounters(r) /\ row'[r].reason = row[r].reason
            /\ row[r].aged => row'[r].aged
            /\ Quiet

Starts(r) == /\ Claimable(r) /\ row'[r].status = "running"
             /\ row'[r].token = nextToken
             /\ row'[r].attempts = row[r].attempts + 1
             /\ row'[r].errorAttempts = row[r].errorAttempts
             /\ row'[r].reason = row[r].reason /\ row'[r].aged = row[r].aged
             /\ handed' = handed /\ nextToken' = nextToken + 1

Succeeds(r) == /\ row[r].status = "running" /\ row'[r].status = "done"
               /\ row'[r].token = 0 /\ SameCounters(r)
               /\ row'[r].reason = "ok" /\ row'[r].aged = row[r].aged
               /\ Quiet

GoesBack(r) == /\ row[r].status = "running" /\ row'[r].status = "pending"
               /\ row'[r].token = 0 /\ SameCounters(r)
               /\ row'[r].reason = row[r].reason /\ row'[r].aged = row[r].aged
               /\ handed' = [handed EXCEPT ![r] = @ + 1] /\ nextToken' = nextToken

Retries(r, counted) ==
    /\ row[r].status = "running" /\ row'[r].status = "pending" /\ row'[r].token = 0
    /\ row'[r].attempts = row[r].attempts
    /\ row'[r].errorAttempts = row[r].errorAttempts + counted
    /\ row[r].errorAttempts + counted < MaxAttempts /\ row[r].attempts < MaxClaims
    /\ row'[r].reason = row[r].reason /\ row'[r].aged = row[r].aged
    /\ Quiet

Parks(r, counted) ==
    /\ row[r].status = "running" /\ row'[r].status = "failed" /\ row'[r].token = 0
    /\ row'[r].attempts = row[r].attempts
    /\ row'[r].errorAttempts = row[r].errorAttempts + counted
    /\ row'[r].aged = row[r].aged
    /\ \/ row'[r].reason = "error"
       \/ row'[r].reason = "crash_loop" /\ row[r].attempts >= MaxClaims
       \/ row'[r].reason = "max_age" /\ row[r].aged
    /\ Quiet

OneRow == \/ row' = row /\ Quiet
          \/ \E r \in Runs :
               /\ \A q \in Runs : q # r => row'[q] = row[q]
               /\ \/ Submits(r) \/ Flags(r) \/ Starts(r) \/ Succeeds(r) \/ GoesBack(r)
                  \/ \E counted \in {0, 1} : Retries(r, counted) \/ Parks(r, counted)

\* A working driver keeps its copy of the row or has just claimed it.
DriverCopies ==
    \A e \in Drivers : drv'[e].pc \in Active =>
        \/ /\ drv[e].pc \in Active
           /\ drv'[e].run = drv[e].run /\ drv'[e].token = drv[e].token
           /\ drv'[e].attempts = drv[e].attempts
           /\ drv'[e].errorAttempts = drv[e].errorAttempts
        \/ /\ drv'[e].token = nextToken /\ nextToken' = nextToken + 1
           /\ drv'[e].run \in Runs
           /\ drv'[e].attempts = row'[drv'[e].run].attempts
           /\ drv'[e].errorAttempts = row'[drv'[e].run].errorAttempts

\* A sweep's copies are old ones or have just been read.
SweepCopies ==
    \A s \in Sweeps : \A c \in sweep'[s].todo :
        \/ c \in sweep[s].todo
        \/ \E r \in Runs : c = Expired(r) /\ leaseLapsed(r) /\ row' = row

BudgetInv ==
    /\ \A r \in Runs : row[r].status = "absent" => row[r].attempts = 0
    /\ \A r \in Runs : row[r].status = "pending" => row[r].attempts < MaxClaims + handed[r]
    /\ ClaimCapKept /\ ErrorBudgetKept /\ ParkedForCause

-----------------------------------------------------------------------------
(***************************************************************************)
(* The statements of the store.                                            *)
(***************************************************************************)
LEMMA ClaimOneRow ==
    ASSUME row \in [Runs -> Row], NEW r \in Runs, Claimable(r), ClaimRow(r), handed' = handed
    PROVE  OneRow
<1>1. Starts(r)
  BY DEF ClaimRow, Starts, Row
<1>2. \A q \in Runs : q # r => row'[q] = row[q]
  BY DEF ClaimRow
<1>3. QED  BY <1>1, <1>2 DEF OneRow

LEMMA RenewOneRow ==
    ASSUME row \in [Runs -> Row], NEW r \in Runs, RenewLease(r), Quiet
    PROVE  OneRow
<1>1. Flags(r)
  BY DEF RenewLease, Flags, SameCounters, Row
<1>2. \A q \in Runs : q # r => row'[q] = row[q]
  BY DEF RenewLease
<1>3. QED  BY <1>1, <1>2 DEF OneRow

LEMMA CompleteOneRow ==
    ASSUME row \in [Runs -> Row], NEW r \in Runs, row[r].status = "running",
           CompleteRow(r), Quiet
    PROVE  OneRow
<1>1. Succeeds(r)
  BY DEF CompleteRow, Succeeds, SameCounters, Row
<1>2. \A q \in Runs : q # r => row'[q] = row[q]
  BY DEF CompleteRow
<1>3. QED  BY <1>1, <1>2 DEF OneRow

LEMMA ReleaseOneRow ==
    ASSUME row \in [Runs -> Row], NEW r \in Runs, row[r].status = "running",
           ReleaseRow(r), nextToken' = nextToken
    PROVE  OneRow
<1>1. GoesBack(r)
  BY DEF ReleaseRow, GoesBack, SameCounters, Row
<1>2. \A q \in Runs : q # r => row'[q] = row[q]
  BY DEF ReleaseRow
<1>3. QED  BY <1>1, <1>2 DEF OneRow

\* retire(), decided from a copy that is current, and for a cause.
LEMMA RetireOneRow ==
    ASSUME row \in [Runs -> Row], NEW r \in Runs, row[r].status = "running",
           row[r].errorAttempts < MaxAttempts,
           NEW c, c.attempts = row[r].attempts, c.errorAttempts = row[r].errorAttempts,
           NEW error, NEW retry \in BOOLEAN, NEW counted \in {0, 1},
           \/ error = "error" /\ counted = 1
           \/ error = "max_age" /\ row[r].aged /\ ~retry
           \/ error = "lease_expired" /\ retry /\ counted = 0,
           RetireRow(r, c, error, retry, counted), Quiet
    PROVE  OneRow
<1>0. \A q \in Runs : q # r => row'[q] = row[q]
  BY DEF RetireRow
<1>1. CASE Requeues(c, retry, counted)
  <2>1. Retries(r, counted)
    BY <1>1 DEF RetireRow, Requeues, Retries, Row
  <2>2. QED  BY <1>0, <2>1 DEF OneRow
<1>2. CASE ~Requeues(c, retry, counted)
  <2>1. /\ row'[r].status = "failed" /\ row'[r].token = 0
        /\ row'[r].attempts = row[r].attempts
        /\ row'[r].errorAttempts = row[r].errorAttempts + counted
        /\ row'[r].aged = row[r].aged
        /\ row'[r].reason = RetireReason(c, error, retry, counted)
    BY <1>2 DEF RetireRow, Row
  <2>2. row[r].attempts \in Nat /\ row[r].errorAttempts \in Nat
    BY DEF Row
  <2>3. \/ RetireReason(c, error, retry, counted) = "error"
        \/ RetireReason(c, error, retry, counted) = "crash_loop" /\ row[r].attempts >= MaxClaims
        \/ RetireReason(c, error, retry, counted) = "max_age" /\ row[r].aged
    BY <1>2, <2>2, BudgetAssumption DEF RetireReason, Requeues
  <2>4. Parks(r, counted)
    BY <2>1, <2>3 DEF Parks
  <2>5. QED  BY <1>0, <2>4 DEF OneRow
<1>3. QED  BY <1>1, <1>2

-----------------------------------------------------------------------------
(***************************************************************************)
(* The steps of each process.                                              *)
(***************************************************************************)
StepFacts == OneRow /\ DriverCopies /\ SweepCopies

AllInv == TypeOK /\ FenceInv /\ CopyInv /\ BudgetInv

LEMMA RenewedCopies ==
    ASSUME sweep \in [Sweeps -> Sweep], NEW r \in Runs, sweep' = Renewed(r)
    PROVE  SweepCopies
BY DEF Renewed, SweepCopies, Sweep

LEMMA RunningHasBudget ==
    ASSUME BudgetInv, NEW r \in Runs, row[r].status = "running"
    PROVE  row[r].errorAttempts < MaxAttempts
BY DEF BudgetInv, ErrorBudgetKept, isTerminal

LEMMA StoreFacts ==
    ASSUME TypeOK, NEW r \in Runs, Enqueue(r) \/ LeaseLapses(r) \/ RunAges(r)
    PROVE  StepFacts
<1>. row \in [Runs -> Row]
  BY DEF TypeOK
<1>1. DriverCopies /\ SweepCopies
  BY DEF Enqueue, LeaseLapses, RunAges, DriverCopies, SweepCopies
<1>2. /\ \A q \in Runs : q # r => row'[q] = row[q]
      /\ Quiet
  BY DEF Enqueue, LeaseLapses, RunAges, Quiet
<1>3. CASE Enqueue(r)
  <2>1. Submits(r)
    BY <1>2, <1>3 DEF Enqueue, Submits, SameCounters, Row
  <2>2. QED  BY <1>1, <1>2, <2>1 DEF StepFacts, OneRow
<1>4. CASE LeaseLapses(r)
  <2>1. Flags(r)
    BY <1>2, <1>4 DEF LeaseLapses, Flags, SameCounters, Row
  <2>2. QED  BY <1>1, <1>2, <2>1 DEF StepFacts, OneRow
<1>5. CASE RunAges(r)
  <2>1. Flags(r)
    BY <1>2, <1>5 DEF RunAges, Flags, SameCounters, Row
  <2>2. QED  BY <1>1, <1>2, <2>1 DEF StepFacts, OneRow
<1>6. QED  BY <1>3, <1>4, <1>5

LEMMA DriverFacts ==
    ASSUME AllInv, NEW d \in Drivers, DriverNext(d)
    PROVE  StepFacts
<1>. /\ row \in [Runs -> Row] /\ drv \in [Drivers -> Driver] /\ drv[d] \in Driver
     /\ sweep \in [Sweeps -> Sweep]
     /\ \A e \in Drivers : drv[e].pc \in Active => drv[e].run \in Runs
  BY DEF AllInv, TypeOK
<1>0. Finished(d).pc = "idle" /\ Finished(d) \in Driver
  BY FinishedType
<1>1. CASE Beat(d)
  <2>1. drv[d].run \in Runs /\ Quiet
    BY <1>1 DEF Beat, Active, Quiet
  <2>2. OneRow
    BY <1>1, <2>1, RenewOneRow DEF Beat, OneRow
  <2>3. DriverCopies
    BY <1>1 DEF Beat, DriverCopies, Driver
  <2>4. SweepCopies
    <3>1. CASE sweep' = sweep
      BY <3>1 DEF SweepCopies
    <3>2. CASE sweep' = Renewed(drv[d].run)
      BY <3>2, <2>1, RenewedCopies
    <3>3. QED  BY <1>1, <3>1, <3>2 DEF Beat, RenewLease
  <2>5. QED  BY <2>2, <2>3, <2>4 DEF StepFacts
<1>2. CASE BeatFails(d)
  BY <1>2 DEF BeatFails, StepFacts, OneRow, Quiet, DriverCopies, SweepCopies, Driver
<1>3. CASE TurnReturns(d)
  <2>1. /\ drv[d].run \in Runs /\ drv[d].token # 0 /\ drv[d].pc \in Active
        /\ Quiet /\ SweepCopies
    BY <1>3 DEF TurnReturns, Active, AllInv, FenceInv, Quiet, SweepCopies
  <2>2. CASE CompleteFence(drv[d].run, drv[d].token)
    <3>1. row[drv[d].run].status = "running"
      BY <2>1, <2>2 DEF CompleteFence, AllInv, FenceInv
    <3>2. OneRow
      BY <1>3, <2>1, <2>2, <3>1, CompleteOneRow DEF TurnReturns
    <3>3. DriverCopies
      BY <1>3, <2>1, <2>2 DEF TurnReturns, DriverCopies, Driver
    <3>4. QED  BY <2>1, <3>2, <3>3 DEF StepFacts
  <2>3. CASE ~CompleteFence(drv[d].run, drv[d].token)
    BY <1>3, <2>1, <2>3, <1>0 DEF TurnReturns, StepFacts, OneRow, DriverCopies, Active
  <2>4. QED  BY <2>2, <2>3
<1>4. ASSUME NEW retry \in BOOLEAN, TurnThrows(d, retry)
      PROVE  StepFacts
  <2>1. drv[d].pc \in Active /\ OneRow /\ SweepCopies
    BY <1>4 DEF TurnThrows, Active, OneRow, Quiet, SweepCopies
  <2>2. CASE row[drv[d].run].token = drv[d].token
    <3>1. /\ drv[d].attempts = row[drv[d].run].attempts
          /\ drv[d].errorAttempts = row[drv[d].run].errorAttempts
      BY <2>1, <2>2 DEF AllInv, CopyInv
    <3>2. DriverCopies
      BY <1>4, <2>1, <2>2, <3>1 DEF TurnThrows, DriverCopies, Driver
    <3>3. QED  BY <2>1, <3>2 DEF StepFacts
  <2>3. CASE row[drv[d].run].token # drv[d].token
    BY <1>4, <2>1, <2>3, <1>0 DEF TurnThrows, StepFacts, DriverCopies, Active
  <2>4. QED  BY <2>2, <2>3
<1>5. CASE FailWrite(d)
  <2>1. /\ drv[d].run \in Runs /\ drv[d].pc \in Active /\ drv[d].retry \in BOOLEAN
        /\ Quiet /\ SweepCopies
    BY <1>5 DEF FailWrite, Active, Driver, Quiet, SweepCopies
  <2>2. CASE Owns(drv[d].run, drv[d].token)
    <3>1. /\ row[drv[d].run].status = "running"
          /\ drv[d].attempts = row[drv[d].run].attempts
          /\ drv[d].errorAttempts = row[drv[d].run].errorAttempts
      BY <2>1, <2>2 DEF Owns, AllInv, CopyInv
    <3>2. row[drv[d].run].errorAttempts < MaxAttempts
      BY <2>1, <3>1, RunningHasBudget DEF AllInv
    <3>3. RetireRow(drv[d].run, drv[d], "error", drv[d].retry, 1)
      BY <1>5, <2>2 DEF FailWrite
    <3>4. OneRow
      BY <2>1, <3>1, <3>2, <3>3, RetireOneRow
    <3>5. DriverCopies
      <4>1. CASE Requeues(drv[d], drv[d].retry, 1)
        BY <1>5, <2>2, <4>1, <1>0 DEF FailWrite, DriverCopies, Active
      <4>2. CASE ~Requeues(drv[d], drv[d].retry, 1)
        BY <1>5, <2>1, <2>2, <4>2 DEF FailWrite, DriverCopies, Driver
      <4>3. QED  BY <4>1, <4>2
    <3>6. QED  BY <2>1, <3>4, <3>5 DEF StepFacts
  <2>3. CASE ~Owns(drv[d].run, drv[d].token)
    BY <1>5, <2>1, <2>3, <1>0 DEF FailWrite, StepFacts, OneRow, DriverCopies, Active
  <2>4. QED  BY <2>2, <2>3
<1>6. CASE Settle(d)
  BY <1>6, <1>0 DEF Settle, StepFacts, OneRow, Quiet, DriverCopies, SweepCopies, Active
<1>7. CASE SettleFails(d)
  BY <1>7, <1>0 DEF SettleFails, StepFacts, OneRow, Quiet, DriverCopies, SweepCopies, Active
<1>8. QED  BY <1>1, <1>2, <1>3, <1>4, <1>5, <1>6, <1>7 DEF DriverNext

\* A claim hands its driver a copy of the row as the claim left it.
LEMMA ClaimFacts ==
    ASSUME TypeOK, NEW d \in Drivers, NEW r \in Runs, NEW pc \in {"claimed", "turn"},
           Claimable(r), ClaimRow(r), drv' = [drv EXCEPT ![d] = Claimed(d, r, pc)],
           handed' = handed
    PROVE  StepFacts
<1>. row \in [Runs -> Row] /\ drv \in [Drivers -> Driver] /\ sweep \in [Sweeps -> Sweep]
  BY DEF TypeOK
<1>1. OneRow
  BY ClaimOneRow
<1>2. SweepCopies
  BY RenewedCopies DEF ClaimRow
<1>3. /\ Claimed(d, r, pc).token = nextToken /\ Claimed(d, r, pc).run = r
      /\ Claimed(d, r, pc).attempts = row[r].attempts + 1
      /\ Claimed(d, r, pc).errorAttempts = row[r].errorAttempts
  BY DEF Claimed
<1>4. /\ nextToken' = nextToken + 1
      /\ row'[r].attempts = row[r].attempts + 1
      /\ row'[r].errorAttempts = row[r].errorAttempts
  BY DEF ClaimRow, Row
<1>5. DriverCopies
  BY <1>3, <1>4 DEF DriverCopies
<1>6. QED  BY <1>1, <1>2, <1>5 DEF StepFacts

LEMMA WorkerFacts ==
    ASSUME AllInv, NEW w \in Workers, WorkerNext(w)
    PROVE  StepFacts
<1>. /\ row \in [Runs -> Row] /\ sweep \in [Sweeps -> Sweep]
     /\ w \in Drivers /\ drv \in [Drivers -> Driver] /\ drv[w] \in Driver
     /\ \A e \in Drivers : drv[e].pc \in Active => drv[e].run \in Runs
     /\ \A v \in Workers : rel[v].pc # "none" => rel[v].run \in Runs
  BY DEF AllInv, TypeOK, Drivers
<1>0. Idle.pc = "idle" /\ [Idle EXCEPT !.pc = "exited"].pc = "exited"
  BY IdleType, ExitedType
<1>1. ASSUME NEW r \in Runs, Claim(w, r)
      PROVE  StepFacts
  BY <1>1, ClaimFacts DEF Claim, AllInv
<1>2. CASE ClaimsNothing(w)
  BY <1>2 DEF ClaimsNothing, vars, StepFacts, OneRow, Quiet, DriverCopies, SweepCopies
<1>3. CASE Launch(w)
  BY <1>3 DEF Launch, StepFacts, OneRow, Quiet, DriverCopies, SweepCopies, Driver, Active
<1>4. CASE HandBack(w)
  <2>1. drv[w].run \in Runs /\ nextToken' = nextToken /\ SweepCopies
    BY <1>4 DEF HandBack, Active, SweepCopies
  <2>2. OneRow
    BY <1>4, <2>1, ReleaseOneRow DEF HandBack, OneRow, Owns, Quiet
  <2>3. DriverCopies
    BY <1>4, <1>0 DEF HandBack, DriverCopies, Active
  <2>4. QED  BY <2>1, <2>2, <2>3 DEF StepFacts
<1>5. CASE HandBackFails(w)
  BY <1>5, <1>0 DEF HandBackFails, StepFacts, OneRow, Quiet, DriverCopies, SweepCopies, Active
<1>6. CASE LoopEnds(w)
  BY <1>6 DEF LoopEnds, StepFacts, OneRow, Quiet, DriverCopies, SweepCopies, Driver, Active
<1>7. CASE Stop(w)
  BY <1>7 DEF Stop, StepFacts, OneRow, Quiet, DriverCopies, SweepCopies, Driver
<1>8. CASE WorkerCrash(w)
  BY <1>8, <1>0 DEF WorkerCrash, StepFacts, OneRow, Quiet, DriverCopies, SweepCopies, Active
<1>9. CASE Restart(w)
  BY <1>9, <1>0 DEF Restart, StepFacts, OneRow, Quiet, DriverCopies, SweepCopies, Active
<1>10. CASE ReleaseInFlight(w)
  <2>1. drv[w].run \in Runs /\ Quiet /\ DriverCopies
    BY <1>10 DEF ReleaseInFlight, InFlight, Active, Quiet, DriverCopies
  <2>2. CASE Owns(drv[w].run, drv[w].token)
    <3>1. RenewLease(drv[w].run)
      BY <1>10, <2>2 DEF ReleaseInFlight
    <3>2. OneRow
      BY <2>1, <3>1, RenewOneRow
    <3>3. SweepCopies
      BY <2>1, <3>1, RenewedCopies DEF RenewLease
    <3>4. QED  BY <2>1, <3>2, <3>3 DEF StepFacts
  <2>3. CASE ~Owns(drv[w].run, drv[w].token)
    BY <1>10, <2>1, <2>3 DEF ReleaseInFlight, StepFacts, OneRow, SweepCopies
  <2>4. QED  BY <2>2, <2>3
<1>11. CASE ReleaseUnlocks(w)
  BY <1>11 DEF ReleaseUnlocks, StepFacts, OneRow, Quiet, DriverCopies, SweepCopies
<1>12. CASE ReleaseRun(w)
  <2>1. rel[w].run \in Runs /\ nextToken' = nextToken /\ SweepCopies /\ DriverCopies
    BY <1>12 DEF ReleaseRun, SweepCopies, DriverCopies
  <2>2. OneRow
    BY <1>12, <2>1, ReleaseOneRow DEF ReleaseRun, OneRow, Owns, Quiet
  <2>3. QED  BY <2>1, <2>2 DEF StepFacts
<1>13. CASE ReleaseFails(w)
  BY <1>13 DEF ReleaseFails, StepFacts, OneRow, Quiet, DriverCopies, SweepCopies
<1>14. QED  BY <1>1, <1>2, <1>3, <1>4, <1>5, <1>6, <1>7, <1>8, <1>9, <1>10,
               <1>11, <1>12, <1>13 DEF WorkerNext

LEMMA InlineFacts ==
    ASSUME AllInv, NEW i \in Inline, InlineNext(i)
    PROVE  StepFacts
<1>. i \in Drivers /\ drv \in [Drivers -> Driver]
  BY DEF AllInv, TypeOK, Drivers
<1>1. ASSUME NEW r \in Runs, ClaimById(i, r)
      PROVE  StepFacts
  BY <1>1, ClaimFacts DEF ClaimById, AllInv
<1>2. CASE InlineCrash(i)
  BY <1>2, IdleType DEF InlineCrash, StepFacts, OneRow, Quiet, DriverCopies, SweepCopies, Active
<1>3. QED  BY <1>1, <1>2 DEF InlineNext

LEMMA SweepFacts ==
    ASSUME AllInv, NEW s \in Sweeps, SweepNext(s)
    PROVE  StepFacts
<1>. /\ row \in [Runs -> Row] /\ sweep \in [Sweeps -> Sweep] /\ sweep[s] \in Sweep
  BY DEF AllInv, TypeOK
<1>0. DriverCopies /\ Quiet
  BY DEF SweepNext, SweepReads, SweepRetires, SweepSettles, SweepUnlocks, SweepEnds,
         SweepCrash, DriverCopies, Quiet
<1>1. CASE SweepReads(s)
  <2>1. row' = row /\ sweep'[s].todo = {Expired(r) : r \in {q \in Runs : leaseLapsed(q)}}
        /\ \A t \in Sweeps : t # s => sweep'[t] = sweep[t]
    BY <1>1 DEF SweepReads, Sweep
  <2>2. SweepCopies
    BY <2>1 DEF SweepCopies
  <2>3. QED  BY <1>0, <2>1, <2>2 DEF StepFacts, OneRow
<1>2. ASSUME NEW c \in sweep[s].todo, SweepRetires(s, c)
      PROVE  StepFacts
  <2>1. c \in Copy /\ c.run \in Runs /\ c.tooOld \in BOOLEAN
    BY DEF Sweep, Copy
  <2>2. SweepCopies
    BY <1>2 DEF SweepRetires, SweepCopies, Sweep
  <2>3. CASE ReapFence(s, c)
    <3>1. /\ row[c.run].status = "running"
          /\ c.attempts = row[c.run].attempts
          /\ c.errorAttempts = row[c.run].errorAttempts
          /\ c.tooOld => row[c.run].aged
      BY <2>1, <2>3 DEF ReapFence, Owns, AllInv, CopyInv
    <3>2. row[c.run].errorAttempts < MaxAttempts
      BY <2>1, <3>1, RunningHasBudget DEF AllInv
    <3>3. RetireRow(c.run, c, IF c.tooOld THEN "max_age" ELSE "lease_expired", ~c.tooOld, 0)
      BY <1>2, <2>3 DEF SweepRetires
    <3>4. OneRow
      BY <1>0, <2>1, <3>1, <3>2, <3>3, RetireOneRow
    <3>5. QED  BY <1>0, <2>2, <3>4 DEF StepFacts
  <2>4. CASE ~ReapFence(s, c)
    BY <1>0, <1>2, <2>2, <2>4 DEF SweepRetires, StepFacts, OneRow
  <2>5. QED  BY <2>3, <2>4
<1>3. CASE SweepSettles(s)
  BY <1>0, <1>3 DEF SweepSettles, StepFacts, OneRow, SweepCopies, Sweep
<1>4. ASSUME NEW x \in Sessions, SweepUnlocks(s, x)
      PROVE  StepFacts
  BY <1>0, <1>4 DEF SweepUnlocks, StepFacts, OneRow, SweepCopies, Sweep
<1>5. CASE SweepEnds(s)
  BY <1>0, <1>5 DEF SweepEnds, StepFacts, OneRow, SweepCopies, NoSweep
<1>6. CASE SweepCrash(s)
  BY <1>0, <1>6 DEF SweepCrash, StepFacts, OneRow, SweepCopies, NoSweep
<1>7. QED  BY <1>1, <1>2, <1>3, <1>4, <1>5, <1>6 DEF SweepNext

LEMMA AllFacts == AllInv /\ [Next]_vars => StepFacts
<1>. SUFFICES ASSUME AllInv, [Next]_vars PROVE StepFacts
  OBVIOUS
<1>1. CASE StoreNext
  BY <1>1, StoreFacts DEF StoreNext, AllInv
<1>2. ASSUME NEW d \in Drivers, DriverNext(d) PROVE StepFacts
  BY <1>2, DriverFacts
<1>3. ASSUME NEW w \in Workers, WorkerNext(w) PROVE StepFacts
  BY <1>3, WorkerFacts
<1>4. ASSUME NEW i \in Inline, InlineNext(i) PROVE StepFacts
  BY <1>4, InlineFacts
<1>5. ASSUME NEW s \in Sweeps, SweepNext(s) PROVE StepFacts
  BY <1>5, SweepFacts
<1>6. CASE UNCHANGED vars
  BY <1>6 DEF vars, StepFacts, OneRow, Quiet, DriverCopies, SweepCopies
<1>7. QED  BY <1>1, <1>2, <1>3, <1>4, <1>5, <1>6 DEF Next

-----------------------------------------------------------------------------
(***************************************************************************)
(* The invariants.                                                         *)
(***************************************************************************)
LEMMA InitAll == Init => CopyInv /\ BudgetInv
<1>. SUFFICES ASSUME Init PROVE CopyInv /\ BudgetInv
  OBVIOUS
<1>1. CopyInv
  BY IdleType DEF Init, CopyInv, NoRow, Active, NoSweep
<1>2. BudgetInv
  BY BudgetAssumption DEF Init, BudgetInv, ClaimCapKept, ErrorBudgetKept, ParkedForCause,
                          NoRow, isTerminal
<1>3. QED  BY <1>1, <1>2

\* A lease that is still in force was not touched but for its expiry.
LEMMA TokenKeepsRow ==
    ASSUME TypeOK, CopyInv, OneRow, NEW r \in Runs,
           row'[r].token # 0, row'[r].token < nextToken
    PROVE  /\ row[r].token = row'[r].token /\ SameCounters(r)
           /\ row[r].aged => row'[r].aged
<1>1. nextToken \in Nat /\ row[r] \in Row
  BY DEF TypeOK
<1>2. CASE row' = row
  BY <1>2 DEF SameCounters
<1>3. ASSUME NEW q \in Runs, \A p \in Runs : p # q => row'[p] = row[p],
             \/ Submits(q) \/ Flags(q) \/ Starts(q) \/ Succeeds(q) \/ GoesBack(q)
             \/ \E counted \in {0, 1} : Retries(q, counted) \/ Parks(q, counted)
      PROVE  /\ row[r].token = row'[r].token /\ SameCounters(r)
             /\ row[r].aged => row'[r].aged
  <2>1. CASE r # q
    BY <1>3, <2>1 DEF SameCounters
  <2>2. CASE r = q
    BY <1>1, <1>3, <2>2 DEF Submits, Flags, Starts, Succeeds, GoesBack, Retries, Parks
  <2>3. QED  BY <2>1, <2>2
<1>4. QED  BY <1>2, <1>3 DEF OneRow

LEMMA TokensFresh ==
    ASSUME TypeOK, CopyInv, OneRow
    PROVE  /\ \A r \in Runs : row'[r].token < nextToken'
           /\ nextToken <= nextToken' /\ nextToken' \in Nat
<1>1. nextToken \in Nat \ {0} /\ \A r \in Runs : row[r].token \in Nat /\ row[r].token < nextToken
  BY DEF TypeOK, CopyInv, Row
<1>2. CASE row' = row /\ Quiet
  BY <1>1, <1>2 DEF Quiet
<1>3. ASSUME NEW q \in Runs, \A p \in Runs : p # q => row'[p] = row[p],
             \/ Submits(q) \/ Flags(q) \/ Starts(q) \/ Succeeds(q) \/ GoesBack(q)
             \/ \E counted \in {0, 1} : Retries(q, counted) \/ Parks(q, counted)
      PROVE  /\ \A r \in Runs : row'[r].token < nextToken'
             /\ nextToken <= nextToken' /\ nextToken' \in Nat
  <2>1. (nextToken' = nextToken \/ nextToken' = nextToken + 1) /\ row'[q].token < nextToken'
    BY <1>1, <1>3 DEF Submits, Flags, Starts, Succeeds, GoesBack, Retries, Parks, Quiet
  <2>2. QED  BY <1>1, <1>3, <2>1
<1>4. QED  BY <1>2, <1>3 DEF OneRow

LEMMA CopyNext ==
    ASSUME AllInv, StepFacts, TypeOK'
    PROVE  CopyInv'
<1>. TypeOK /\ CopyInv /\ OneRow /\ nextToken \in Nat
  BY DEF AllInv, StepFacts, TypeOK
<1>1. /\ \A r \in Runs : row'[r].token < nextToken'
      /\ nextToken <= nextToken' /\ nextToken' \in Nat
  BY TokensFresh
<1>2. ASSUME NEW d \in Drivers, drv'[d].pc \in Active
      PROVE  /\ drv'[d].token < nextToken'
             /\ row'[drv'[d].run].token = drv'[d].token =>
                  /\ drv'[d].attempts = row'[drv'[d].run].attempts
                  /\ drv'[d].errorAttempts = row'[drv'[d].run].errorAttempts
  <2>1. CASE /\ drv[d].pc \in Active
             /\ drv'[d].run = drv[d].run /\ drv'[d].token = drv[d].token
             /\ drv'[d].attempts = drv[d].attempts
             /\ drv'[d].errorAttempts = drv[d].errorAttempts
    <3>1. /\ drv[d].run \in Runs /\ drv[d].token \in Nat /\ drv[d].token < nextToken
          /\ drv[d].token # 0
          /\ row[drv[d].run].token = drv[d].token =>
               /\ drv[d].attempts = row[drv[d].run].attempts
               /\ drv[d].errorAttempts = row[drv[d].run].errorAttempts
      BY <2>1 DEF TypeOK, Driver, CopyInv, AllInv, FenceInv
    <3>2. QED  BY <1>1, <2>1, <3>1, TokenKeepsRow DEF SameCounters
  <2>2. CASE /\ drv'[d].token = nextToken /\ nextToken' = nextToken + 1
             /\ drv'[d].run \in Runs
             /\ drv'[d].attempts = row'[drv'[d].run].attempts
             /\ drv'[d].errorAttempts = row'[drv'[d].run].errorAttempts
    BY <1>1, <2>2
  <2>3. QED  BY <1>2, <2>1, <2>2 DEF StepFacts, DriverCopies
<1>3. ASSUME NEW s \in Sweeps, NEW c \in sweep'[s].todo
      PROVE  /\ c.token # 0 /\ c.token < nextToken'
             /\ row'[c.run].token = c.token =>
                  /\ c.attempts = row'[c.run].attempts
                  /\ c.errorAttempts = row'[c.run].errorAttempts
                  /\ c.tooOld => row'[c.run].aged
  <2>1. CASE c \in sweep[s].todo
    <3>1. /\ c.run \in Runs /\ c.token \in Nat /\ c.token # 0 /\ c.token < nextToken
          /\ row[c.run].token = c.token =>
               /\ c.attempts = row[c.run].attempts
               /\ c.errorAttempts = row[c.run].errorAttempts
               /\ c.tooOld => row[c.run].aged
      BY <2>1 DEF TypeOK, Sweep, Copy, CopyInv
    <3>2. QED  BY <1>1, <3>1, TokenKeepsRow DEF SameCounters
  <2>2. ASSUME NEW r \in Runs, c = Expired(r), leaseLapsed(r), row' = row
        PROVE  /\ c.token # 0 /\ c.token < nextToken'
               /\ row'[c.run].token = c.token =>
                    /\ c.attempts = row'[c.run].attempts
                    /\ c.errorAttempts = row'[c.run].errorAttempts
                    /\ c.tooOld => row'[c.run].aged
    <3>1. /\ c.run = r /\ c.token = row[r].token /\ c.attempts = row[r].attempts
          /\ c.errorAttempts = row[r].errorAttempts /\ c.tooOld = row[r].aged
      BY <2>2 DEF Expired
    <3>2. row[r].token # 0
      BY <2>2 DEF leaseLapsed, AllInv, FenceInv
    <3>3. QED  BY <1>1, <2>2, <3>1, <3>2
  <2>3. QED  BY <2>1, <2>2 DEF StepFacts, SweepCopies
<1>4. QED  BY <1>1, <1>2, <1>3 DEF CopyInv

LEMMA BudgetNext ==
    ASSUME AllInv, StepFacts
    PROVE  BudgetInv'
<1>. /\ BudgetInv /\ OneRow /\ row \in [Runs -> Row] /\ handed \in [Runs -> Nat]
     /\ MaxAttempts \in Nat \ {0} /\ MaxClaims \in Nat \ {0}
  BY BudgetAssumption DEF AllInv, StepFacts, TypeOK
<1>. DEFINE Keeps(r) ==
       /\ row'[r].status = "absent" => row'[r].attempts = 0
       /\ row'[r].status = "pending" => row'[r].attempts < MaxClaims + handed'[r]
       /\ row'[r].attempts <= MaxClaims + handed'[r]
       /\ IF isTerminal(row'[r].status) THEN row'[r].errorAttempts <= MaxAttempts
                                        ELSE row'[r].errorAttempts < MaxAttempts
       /\ row'[r].reason # "lease_expired"
       /\ row'[r].reason = "crash_loop" => row'[r].attempts >= MaxClaims
       /\ row'[r].reason = "max_age" => row'[r].aged
<1>0. ASSUME NEW r \in Runs
      PROVE  /\ row[r].attempts \in Nat /\ row[r].errorAttempts \in Nat /\ handed[r] \in Nat
             /\ row[r].status = "absent" => row[r].attempts = 0
             /\ row[r].status = "pending" => row[r].attempts < MaxClaims + handed[r]
             /\ row[r].attempts <= MaxClaims + handed[r]
             /\ IF isTerminal(row[r].status) THEN row[r].errorAttempts <= MaxAttempts
                                             ELSE row[r].errorAttempts < MaxAttempts
             /\ row[r].reason # "lease_expired"
             /\ row[r].reason = "crash_loop" => row[r].attempts >= MaxClaims
             /\ row[r].reason = "max_age" => row[r].aged
  BY DEF Row, BudgetInv, ClaimCapKept, ErrorBudgetKept, ParkedForCause
<1>1. ASSUME NEW r \in Runs, row'[r] = row[r], handed'[r] = handed[r]
      PROVE  Keeps(r)
  BY <1>0, <1>1
<1>2. CASE row' = row /\ Quiet
  <2>1. \A r \in Runs : Keeps(r)
    BY <1>1, <1>2 DEF Quiet
  <2>2. QED  BY <2>1 DEF BudgetInv, ClaimCapKept, ErrorBudgetKept, ParkedForCause
<1>3. ASSUME NEW q \in Runs, \A p \in Runs : p # q => row'[p] = row[p],
             \/ Submits(q) \/ Flags(q) \/ Starts(q) \/ Succeeds(q) \/ GoesBack(q)
             \/ \E counted \in {0, 1} : Retries(q, counted) \/ Parks(q, counted)
      PROVE  BudgetInv'
  <2>1. \A p \in Runs : p # q => handed'[p] = handed[p]
    BY <1>3 DEF Submits, Flags, Starts, Succeeds, GoesBack, Retries, Parks, Quiet
  <2>2. Keeps(q)
    <3>1. CASE Submits(q)
      BY <1>0, <3>1 DEF Submits, SameCounters, Quiet, isTerminal
    <3>2. CASE Flags(q)
      BY <1>0, <3>2 DEF Flags, SameCounters, Quiet
    <3>3. CASE Starts(q)
      BY <1>0, <3>3 DEF Starts, Claimable, isTerminal
    <3>4. CASE Succeeds(q)
      BY <1>0, <3>4 DEF Succeeds, SameCounters, Quiet, isTerminal
    <3>5. CASE GoesBack(q)
      BY <1>0, <3>5 DEF GoesBack, SameCounters, isTerminal
    <3>6. ASSUME NEW counted \in {0, 1}, Retries(q, counted) PROVE Keeps(q)
      BY <1>0, <3>6 DEF Retries, Quiet, isTerminal
    <3>7. ASSUME NEW counted \in {0, 1}, Parks(q, counted) PROVE Keeps(q)
      BY <1>0, <3>7 DEF Parks, Quiet, isTerminal
    <3>8. QED  BY <1>3, <3>1, <3>2, <3>3, <3>4, <3>5, <3>6, <3>7
  <2>3. \A r \in Runs : Keeps(r)
    BY <1>1, <1>3, <2>1, <2>2
  <2>4. QED  BY <2>3 DEF BudgetInv, ClaimCapKept, ErrorBudgetKept, ParkedForCause
<1>4. QED  BY <1>2, <1>3 DEF OneRow

LEMMA AllNext == AllInv /\ [Next]_vars => AllInv'
<1>. SUFFICES ASSUME AllInv, [Next]_vars PROVE AllInv'
  OBVIOUS
<1>1. StepFacts
  BY AllFacts
<1>2. TypeOK' /\ FenceInv'
  BY TypeNext, FenceNext DEF AllInv
<1>3. CopyInv'
  BY <1>1, <1>2, CopyNext
<1>4. BudgetInv'
  BY <1>1, BudgetNext
<1>5. QED  BY <1>2, <1>3, <1>4 DEF AllInv

\* Copies read before an await are current as long as their lease is, and
\* the budgets hold: the invariant the other theorems rest on.
THEOREM CopiesCurrent == Spec => []AllInv
<1>1. Init => AllInv
  BY TypeInit, FenceInit, InitAll DEF AllInv
<1>2. QED  BY <1>1, AllNext, PTL DEF Spec

\* No run is charged more errors than max_attempts, and none that can still
\* be claimed has used them up, although fail() decides from a stale read.
THEOREM ErrorBudget == Spec => []ErrorBudgetKept
<1>1. AllInv => ErrorBudgetKept
  BY DEF AllInv, BudgetInv
<1>2. QED  BY <1>1, CopiesCurrent, PTL

\* A run is claimed at most MaxClaims times beyond its graceful hand-backs.
THEOREM ClaimCap == Spec => []ClaimCapKept
<1>1. AllInv => ClaimCapKept
  BY DEF AllInv, BudgetInv
<1>2. QED  BY <1>1, CopiesCurrent, PTL

\* The reaper parks only a run that is out of claims or too old.
THEOREM ParkedWithCause == Spec => []ParkedForCause
<1>1. AllInv => ParkedForCause
  BY DEF AllInv, BudgetInv
<1>2. QED  BY <1>1, CopiesCurrent, PTL

-----------------------------------------------------------------------------
(***************************************************************************)
(* The refinement: each thing a step can do to a row is a step of          *)
(* RunLifecycle, and a flag is none.                                       *)
(***************************************************************************)
LEMMA LifecycleStep ==
    ASSUME AllInv, StepFacts
    PROVE  [Lifecycle!Next]_(Lifecycle!lifeVars)
<1>. DEFINE st == [r \in Runs |-> row[r].status]
            at == [r \in Runs |-> row[r].attempts]
            er == [r \in Runs |-> row[r].errorAttempts]
<1>1. CASE row' = row
  BY <1>1 DEF Lifecycle!lifeVars
<1>2. ASSUME NEW q \in Runs, \A p \in Runs : p # q => row'[p] = row[p],
             \/ Submits(q) \/ Flags(q) \/ Starts(q) \/ Succeeds(q) \/ GoesBack(q)
             \/ \E counted \in {0, 1} : Retries(q, counted) \/ Parks(q, counted)
      PROVE  [Lifecycle!Next]_(Lifecycle!lifeVars)
  <2>0. /\ st' = [st EXCEPT ![q] = row'[q].status]
        /\ at' = [at EXCEPT ![q] = row'[q].attempts]
        /\ er' = [er EXCEPT ![q] = row'[q].errorAttempts]
    BY <1>2
  <2>1. CASE Submits(q)
    <3>1. Lifecycle!Submit(q)
      BY <2>0, <2>1 DEF Submits, SameCounters, Lifecycle!Submit
    <3>2. QED  BY <3>1 DEF Lifecycle!Next
  <2>2. CASE Flags(q)
    BY <2>0, <2>2 DEF Flags, SameCounters, Lifecycle!lifeVars
  <2>3. CASE Starts(q)
    <3>1. Lifecycle!Start(q)
      BY <2>0, <2>3 DEF Starts, Claimable, Lifecycle!Start, Lifecycle!SessionIdle
    <3>2. QED  BY <3>1 DEF Lifecycle!Next
  <2>4. CASE Succeeds(q)
    <3>1. Lifecycle!Succeed(q)
      BY <2>0, <2>4 DEF Succeeds, SameCounters, Lifecycle!Succeed
    <3>2. QED  BY <3>1 DEF Lifecycle!Next
  <2>5. CASE GoesBack(q)
    <3>1. row[q].errorAttempts < MaxAttempts /\ row[q].errorAttempts \in Nat
      BY <2>5, RunningHasBudget DEF GoesBack, AllInv, TypeOK, Row
    <3>2. /\ row[q].status = "running" /\ row'[q].status = "pending"
          /\ row'[q].attempts = row[q].attempts
          /\ row'[q].errorAttempts = row[q].errorAttempts
      BY <2>5 DEF GoesBack, SameCounters
    <3>3. at' = at
      BY <2>0, <3>2
    <3>4. er' = [er EXCEPT ![q] = @ + 0]
      <4>1. row'[q].errorAttempts = er[q] + 0
        BY <3>1, <3>2
      <4>2. QED  BY <2>0, <4>1, Zenon
    <3>5. st' = [st EXCEPT ![q] = "pending"]
      BY <2>0, <3>2
    <3>6. Lifecycle!Retry(q, 0)
      BY <3>1, <3>2, <3>3, <3>4, <3>5 DEF Lifecycle!Retry
    <3>7. QED  BY <3>6 DEF Lifecycle!Next
  <2>6. ASSUME NEW counted \in {0, 1}, Retries(q, counted)
        PROVE  [Lifecycle!Next]_(Lifecycle!lifeVars)
    <3>1. Lifecycle!Retry(q, counted)
      BY <2>0, <2>6 DEF Retries, Lifecycle!Retry
    <3>2. QED  BY <3>1 DEF Lifecycle!Next
  <2>7. ASSUME NEW counted \in {0, 1}, Parks(q, counted)
        PROVE  [Lifecycle!Next]_(Lifecycle!lifeVars)
    <3>1. /\ row[q].status = "running" /\ row'[q].status = "failed"
          /\ row'[q].attempts = row[q].attempts
          /\ row'[q].errorAttempts = row[q].errorAttempts + counted
      BY <2>7 DEF Parks
    <3>2. Lifecycle!Park(q, counted)
      BY <2>0, <3>1 DEF Lifecycle!Park
    <3>3. QED  BY <3>2 DEF Lifecycle!Next
  <2>8. QED  BY <1>2, <2>1, <2>2, <2>3, <2>4, <2>5, <2>6, <2>7
<1>3. QED  BY <1>1, <1>2 DEF StepFacts, OneRow

\* The queue, with its leases, tokens, zombies and sweeps, implements the run
\* store's promise for every choice of the constants.
THEOREM RefinesLifecycle == Spec => ImplementsLifecycle
<1>1. Init => Lifecycle!Init
  BY DEF Init, NoRow, Lifecycle!Init
<1>2. AllInv /\ [Next]_vars => [Lifecycle!Next]_(Lifecycle!lifeVars)
  BY AllFacts, LifecycleStep
<1>3. QED  BY <1>1, <1>2, CopiesCurrent, PTL DEF Spec, ImplementsLifecycle, Lifecycle!Spec

-----------------------------------------------------------------------------
(***************************************************************************)
(* A driver whose token is not the row's any more.                         *)
(***************************************************************************)

\* The steps by which a driver that runs or fails a turn may change.
LEMMA ZombieStep ==
    ASSUME TypeOK, [Next]_vars, NEW d \in Drivers, drv[d].pc \in {"turn", "failing"},
           drv'[d] # drv[d], row[drv[d].run].token # drv[d].token
    PROVE  row' = row /\ handed' = handed
<1>. drv \in [Drivers -> Driver] /\ Workers \subseteq Drivers /\ Inline \subseteq Drivers
  BY DEF TypeOK, Drivers
<1>1. ASSUME NEW e \in Drivers, DriverNext(e) PROVE row' = row /\ handed' = handed
  <2>2. CASE Beat(e) \/ BeatFails(e)
    BY <2>2 DEF Beat, BeatFails, Owns
  <2>3. CASE TurnReturns(e)
    BY <2>3 DEF TurnReturns, CompleteFence
  <2>4. CASE (\E retry \in BOOLEAN : TurnThrows(e, retry)) \/ Settle(e) \/ SettleFails(e)
    BY <2>4 DEF TurnThrows, Settle, SettleFails
  <2>5. CASE FailWrite(e)
    BY <2>5 DEF FailWrite, Owns
  <2>6. QED  BY <1>1, <2>2, <2>3, <2>4, <2>5 DEF DriverNext
<1>2. ASSUME NEW w \in Workers, WorkerNext(w) PROVE row' = row /\ handed' = handed
  <2>1. CASE \/ Stop(w) \/ WorkerCrash(w) \/ Restart(w) \/ Launch(w)
             \/ HandBackFails(w) \/ LoopEnds(w) \/ ClaimsNothing(w)
    BY <2>1 DEF Stop, WorkerCrash, Restart, Launch, HandBackFails, LoopEnds, ClaimsNothing, vars
  <2>2. CASE (\E r \in Runs : Claim(w, r)) \/ HandBack(w)
    BY <2>2 DEF Claim, HandBack
  <2>3. CASE \/ ReleaseInFlight(w) \/ ReleaseUnlocks(w) \/ ReleaseRun(w) \/ ReleaseFails(w)
    BY <2>3 DEF ReleaseInFlight, ReleaseUnlocks, ReleaseRun, ReleaseFails
  <2>4. QED  BY <1>2, <2>1, <2>2, <2>3 DEF WorkerNext
<1>3. ASSUME NEW i \in Inline, InlineNext(i) PROVE row' = row /\ handed' = handed
  BY <1>3 DEF InlineNext, ClaimById, InlineCrash
<1>4. CASE StoreNext
  BY <1>4 DEF StoreNext, Enqueue, LeaseLapses, RunAges
<1>5. ASSUME NEW s \in Sweeps, SweepNext(s) PROVE drv' = drv
  BY <1>5 DEF SweepNext, SweepReads, SweepRetires, SweepSettles, SweepUnlocks, SweepEnds,
              SweepCrash
<1>6. CASE UNCHANGED vars
  BY <1>6 DEF vars
<1>7. QED  BY <1>1, <1>2, <1>3, <1>4, <1>5, <1>6 DEF Next

\* A driver that lost its lease leaves the table and the hand-back counts as
\* they are, whatever step of its own it takes next.
THEOREM ZombiesHarmless == Spec => ZombieIsHarmless
<1>1. ASSUME TypeOK, [Next]_vars
      PROVE  \A d \in Drivers :
               /\ drv[d].pc \in {"turn", "failing"} /\ drv'[d] # drv[d]
               /\ row[drv[d].run].token # drv[d].token
               => row' = row /\ handed' = handed
  BY <1>1, ZombieStep
<1>2. QED  BY <1>1, TypeCorrect, PTL DEF Spec, ZombieIsHarmless

-----------------------------------------------------------------------------
(***************************************************************************)
(* The second half of the reap fence, ifExpiredAt: a run that is due for a *)
(* sweep and still has the lease the sweep read is lapsed.                 *)
(***************************************************************************)
LapsedInv == \A s \in Sweeps : \A c \in sweep[s].todo : ReapFence(s, c) => row[c.run].lapsed

\* What a step does to the row of one run, as far as a sweep's fence can tell:
\* the lease goes on and is not revived, it ends, or another one begins.
LeaseGoesOn(r) == /\ row'[r].token = row[r].token
                  /\ row'[r].status = "running" => row[r].status = "running"
                  /\ row[r].lapsed => row'[r].lapsed

LeaseStep(r) == LeaseGoesOn(r) \/ row'[r].token = 0 \/ row'[r].token = nextToken

\* A copy is an old one that is due no more than before, and its lease was not
\* revived; or its run is not due; or it has just been read.
LapseStep ==
    \A s \in Sweeps : \A c \in sweep'[s].todo :
        \/ /\ c \in sweep[s].todo
           /\ c.run \in sweep'[s].due => c.run \in sweep[s].due /\ LeaseStep(c.run)
        \/ row' = row /\ row[c.run].lapsed

LEMMA SameSweeps ==
    ASSUME sweep' = sweep, sweep \in [Sweeps -> Sweep], \A r \in Runs : LeaseStep(r)
    PROVE  LapseStep
BY DEF LapseStep, Sweep, Copy

LEMMA RenewedSweeps ==
    ASSUME sweep \in [Sweeps -> Sweep], NEW r \in Runs, sweep' = Renewed(r),
           \A q \in Runs : q # r => LeaseStep(q)
    PROVE  LapseStep
<1>. SUFFICES ASSUME NEW s \in Sweeps, NEW c \in sweep'[s].todo
              PROVE  /\ c \in sweep[s].todo
                     /\ c.run \in sweep'[s].due => c.run \in sweep[s].due /\ LeaseStep(c.run)
  BY DEF LapseStep
<1>1. sweep'[s].todo = sweep[s].todo /\ sweep'[s].due = sweep[s].due \ {r}
  BY DEF Renewed, Sweep
<1>2. c.run \in Runs
  BY <1>1 DEF Sweep, Copy
<1>3. QED  BY <1>1, <1>2

LEMMA RetireLeaseStep ==
    ASSUME row \in [Runs -> Row], NEW r \in Runs, NEW c, NEW error, NEW retry, NEW counted,
           RetireRow(r, c, error, retry, counted)
    PROVE  \A q \in Runs : LeaseStep(q)
<1>1. CASE Requeues(c, retry, counted)
  BY <1>1 DEF RetireRow, LeaseStep, LeaseGoesOn, Row
<1>2. CASE ~Requeues(c, retry, counted)
  BY <1>2 DEF RetireRow, LeaseStep, LeaseGoesOn, Row
<1>3. QED  BY <1>1, <1>2

LEMMA OtherRowsLeaseStep ==
    ASSUME row \in [Runs -> Row], NEW r \in Runs
    PROVE  /\ row' = row => \A q \in Runs : LeaseStep(q)
           /\ ClaimRow(r) \/ RenewLease(r) => \A q \in Runs : q # r => LeaseStep(q)
           /\ CompleteRow(r) \/ ReleaseRow(r) => \A q \in Runs : LeaseStep(q)
<1>1. row' = row => \A q \in Runs : LeaseStep(q)
  BY DEF LeaseStep, LeaseGoesOn
<1>2. ClaimRow(r) \/ RenewLease(r) => \A q \in Runs : q # r => LeaseStep(q)
  BY DEF ClaimRow, RenewLease, LeaseStep, LeaseGoesOn
<1>3. CompleteRow(r) \/ ReleaseRow(r) => \A q \in Runs : LeaseStep(q)
  BY DEF CompleteRow, ReleaseRow, LeaseStep, LeaseGoesOn, Row
<1>4. QED  BY <1>1, <1>2, <1>3

LEMMA LapseFacts == TypeOK /\ [Next]_vars => LapseStep
<1>. SUFFICES ASSUME TypeOK, [Next]_vars PROVE LapseStep
  OBVIOUS
<1>. /\ row \in [Runs -> Row] /\ sweep \in [Sweeps -> Sweep]
     /\ \A e \in Drivers : drv[e].pc \in Active => drv[e].run \in Runs
     /\ \A v \in Workers : rel[v].pc # "none" => rel[v].run \in Runs
     /\ Workers \subseteq Drivers /\ Inline \subseteq Drivers
  BY DEF TypeOK, Drivers
<1>0. row' = row /\ sweep' = sweep => LapseStep
  BY SameSweeps DEF LeaseStep, LeaseGoesOn
<1>1. CASE StoreNext
  <2>. PICK r \in Runs : Enqueue(r) \/ LeaseLapses(r) \/ RunAges(r)
    BY <1>1 DEF StoreNext
  <2>1. sweep' = sweep
    BY DEF Enqueue, LeaseLapses, RunAges
  <2>2. \A q \in Runs : LeaseStep(q)
    BY DEF Enqueue, LeaseLapses, RunAges, LeaseStep, LeaseGoesOn, Row
  <2>3. QED  BY <2>1, <2>2, SameSweeps
<1>2. ASSUME NEW d \in Drivers, DriverNext(d) PROVE LapseStep
  <2>1. CASE Beat(d)
    <3>1. drv[d].run \in Runs
      BY <2>1 DEF Beat, Active
    <3>2. CASE RenewLease(drv[d].run)
      BY <3>1, <3>2, RenewedSweeps, OtherRowsLeaseStep DEF RenewLease
    <3>3. QED  BY <2>1, <3>2, <1>0 DEF Beat
  <2>2. CASE BeatFails(d) \/ Settle(d) \/ SettleFails(d) \/ \E retry \in BOOLEAN : TurnThrows(d, retry)
    BY <2>2, <1>0 DEF BeatFails, Settle, SettleFails, TurnThrows
  <2>3. CASE TurnReturns(d)
    <3>1. drv[d].run \in Runs /\ sweep' = sweep
      BY <2>3 DEF TurnReturns, Active
    <3>2. CASE CompleteRow(drv[d].run)
      BY <3>1, <3>2, SameSweeps, OtherRowsLeaseStep
    <3>3. QED  BY <2>3, <3>1, <3>2, <1>0 DEF TurnReturns
  <2>4. CASE FailWrite(d)
    <3>1. drv[d].run \in Runs /\ sweep' = sweep
      BY <2>4 DEF FailWrite, Active
    <3>2. CASE RetireRow(drv[d].run, drv[d], "error", drv[d].retry, 1)
      BY <3>1, <3>2, SameSweeps, RetireLeaseStep
    <3>3. QED  BY <2>4, <3>1, <3>2, <1>0 DEF FailWrite
  <2>5. QED  BY <1>2, <2>1, <2>2, <2>3, <2>4 DEF DriverNext
<1>3. ASSUME NEW d \in Drivers, NEW r \in Runs, ClaimRow(r) PROVE LapseStep
  BY <1>3, RenewedSweeps, OtherRowsLeaseStep DEF ClaimRow
<1>4. ASSUME NEW w \in Workers, WorkerNext(w) PROVE LapseStep
  <2>1. CASE \E r \in Runs : Claim(w, r)
    BY <2>1, <1>3 DEF Claim
  <2>2. CASE \/ Stop(w) \/ WorkerCrash(w) \/ Restart(w) \/ Launch(w)
             \/ HandBackFails(w) \/ LoopEnds(w) \/ ClaimsNothing(w)
             \/ ReleaseUnlocks(w) \/ ReleaseFails(w)
    BY <2>2, <1>0 DEF Stop, WorkerCrash, Restart, Launch, HandBackFails, LoopEnds,
                      ClaimsNothing, vars, ReleaseUnlocks, ReleaseFails
  <2>3. CASE HandBack(w)
    <3>1. drv[w].run \in Runs /\ sweep' = sweep
      BY <2>3 DEF HandBack, Active
    <3>2. QED  BY <2>3, <3>1, <1>0, SameSweeps, OtherRowsLeaseStep DEF HandBack
  <2>4. CASE ReleaseRun(w)
    <3>1. rel[w].run \in Runs /\ sweep' = sweep
      BY <2>4 DEF ReleaseRun
    <3>2. QED  BY <2>4, <3>1, <1>0, SameSweeps, OtherRowsLeaseStep DEF ReleaseRun
  <2>5. CASE ReleaseInFlight(w)
    <3>1. drv[w].run \in Runs
      BY <2>5 DEF ReleaseInFlight, InFlight, Active
    <3>2. CASE RenewLease(drv[w].run)
      BY <3>1, <3>2, RenewedSweeps, OtherRowsLeaseStep DEF RenewLease
    <3>3. QED  BY <2>5, <3>2, <1>0 DEF ReleaseInFlight
  <2>6. QED  BY <1>4, <2>1, <2>2, <2>3, <2>4, <2>5 DEF WorkerNext
<1>5. ASSUME NEW i \in Inline, InlineNext(i) PROVE LapseStep
  BY <1>5, <1>3, <1>0 DEF InlineNext, ClaimById, InlineCrash
<1>6. ASSUME NEW s \in Sweeps, SweepNext(s) PROVE LapseStep
  <2>. sweep[s] \in Sweep
    OBVIOUS
  <2>1. CASE SweepReads(s)
    <3>1. /\ row' = row
          /\ sweep'[s].todo = {Expired(r) : r \in {q \in Runs : leaseLapsed(q)}}
          /\ \A t \in Sweeps : t # s => sweep'[t] = sweep[t]
      BY <2>1 DEF SweepReads, Sweep
    <3>2. \A c \in sweep'[s].todo : row[c.run].lapsed
      BY <3>1 DEF Expired, leaseLapsed
    <3>3. \A r \in Runs : LeaseStep(r)
      BY <3>1, OtherRowsLeaseStep
    <3>4. \A t \in Sweeps : \A c \in sweep[t].todo : c.run \in Runs
      BY DEF Sweep, Copy
    <3>5. QED  BY <3>1, <3>2, <3>3, <3>4 DEF LapseStep
  <2>2. ASSUME NEW c \in sweep[s].todo, SweepRetires(s, c) PROVE LapseStep
    <3>1. c.run \in Runs
      BY DEF Sweep, Copy
    <3>2. \A r \in Runs : LeaseStep(r)
      BY <2>2, <3>1, RetireLeaseStep, OtherRowsLeaseStep DEF SweepRetires
    <3>3. \A t \in Sweeps : sweep'[t].todo \subseteq sweep[t].todo /\ sweep'[t].due = sweep[t].due
      BY <2>2 DEF SweepRetires, Sweep
    <3>4. \A t \in Sweeps : \A b \in sweep[t].todo : b.run \in Runs
      BY DEF Sweep, Copy
    <3>5. QED  BY <3>2, <3>3, <3>4 DEF LapseStep
  <2>3. CASE \/ SweepSettles(s) \/ SweepEnds(s) \/ SweepCrash(s)
             \/ \E x \in Sessions : SweepUnlocks(s, x)
    <3>1. row' = row
      BY <2>3 DEF SweepSettles, SweepEnds, SweepCrash, SweepUnlocks
    <3>2. \A t \in Sweeps : \/ sweep'[t].todo = sweep[t].todo /\ sweep'[t].due = sweep[t].due
                            \/ sweep'[t].todo = {}
      BY <2>3 DEF SweepSettles, SweepEnds, SweepCrash, SweepUnlocks, NoSweep, Sweep
    <3>3. \A r \in Runs : LeaseStep(r)
      BY <3>1, OtherRowsLeaseStep
    <3>4. \A t \in Sweeps : \A b \in sweep[t].todo : b.run \in Runs
      BY DEF Sweep, Copy
    <3>5. QED  BY <3>2, <3>3, <3>4 DEF LapseStep
  <2>4. QED  BY <1>6, <2>1, <2>2, <2>3 DEF SweepNext
<1>7. CASE UNCHANGED vars
  BY <1>7, <1>0 DEF vars
<1>8. QED  BY <1>1, <1>2, <1>4, <1>5, <1>6, <1>7 DEF Next

\* A run that is due and still has the lease a sweep read is lapsed.
THEOREM DueIsLapsed == Spec => []LapsedInv
<1>1. Init => LapsedInv
  BY DEF Init, LapsedInv, NoSweep
<1>2. ASSUME AllInv, LapsedInv, [Next]_vars PROVE LapsedInv'
  <2>. SUFFICES ASSUME NEW s \in Sweeps, NEW c \in sweep'[s].todo, ReapFence(s, c)'
                PROVE  row'[c.run].lapsed
    BY DEF LapsedInv
  <2>1. LapseStep
    BY <1>2, LapseFacts DEF AllInv
  <2>2. /\ row'[c.run].token = c.token /\ row'[c.run].status = "running"
        /\ c.run \in sweep'[s].due
    BY DEF ReapFence, Owns
  <2>3. CASE row' = row /\ row[c.run].lapsed
    BY <2>3
  <2>4. CASE c \in sweep[s].todo /\ c.run \in sweep[s].due /\ LeaseStep(c.run)
    <3>1. c.token # 0 /\ c.token < nextToken /\ c.token \in Nat /\ nextToken \in Nat
      BY <1>2, <2>4 DEF AllInv, CopyInv, TypeOK, Sweep, Copy
    <3>2. LeaseGoesOn(c.run)
      BY <2>2, <2>4, <3>1 DEF LeaseStep
    <3>3. ReapFence(s, c)
      BY <2>2, <2>4, <3>2 DEF LeaseGoesOn, ReapFence, Owns
    <3>4. QED  BY <1>2, <2>4, <3>2, <3>3 DEF LeaseGoesOn, LapsedInv
  <2>5. QED  BY <2>1, <2>2, <2>3, <2>4 DEF LapseStep
<1>3. QED  BY <1>1, <1>2, CopiesCurrent, PTL DEF Spec

LEMMA ReapStep ==
    ASSUME TypeOK, LapsedInv, [Next]_vars, NEW s \in Sweeps, NEW r \in Runs,
           sweep'[s].todo # sweep[s].todo, row'[r] # row[r]
    PROVE  row[r].lapsed
<1>. row \in [Runs -> Row] /\ sweep \in [Sweeps -> Sweep] /\ sweep[s] \in Sweep
  BY DEF TypeOK
<1>1. ASSUME NEW q \in Runs, sweep' = Renewed(q) PROVE FALSE
  BY <1>1 DEF Renewed, Sweep
<1>2. sweep' # sweep /\ row' # row
  OBVIOUS
<1>3. ASSUME NEW t \in Sweeps, SweepNext(t) PROVE row[r].lapsed
  <2>1. PICK c \in sweep[t].todo : SweepRetires(t, c)
    BY <1>2, <1>3 DEF SweepNext, SweepReads, SweepSettles, SweepUnlocks, SweepEnds, SweepCrash
  <2>2. ReapFence(t, c) /\ c.run \in Runs
    BY <1>2, <2>1 DEF SweepRetires, Sweep, Copy
  <2>3. r = c.run
    BY <2>1, <2>2 DEF SweepRetires, RetireRow
  <2>4. QED  BY <2>2, <2>3 DEF LapsedInv
<1>4. ASSUME NEW d \in Drivers, DriverNext(d) PROVE FALSE
  <2>1. PICK q \in Runs : sweep' = Renewed(q)
    BY <1>2, <1>4 DEF DriverNext, Beat, BeatFails, TurnReturns, TurnThrows, FailWrite, Settle,
                      SettleFails, RenewLease, TypeOK, Active
  <2>2. QED  BY <2>1, <1>1
<1>5. ASSUME NEW w \in Workers, WorkerNext(w) PROVE FALSE
  <2>0. w \in Drivers
    BY DEF Drivers
  <2>1. PICK q \in Runs : sweep' = Renewed(q)
    BY <1>2, <1>5, <2>0 DEF WorkerNext, Claim, ClaimsNothing, Launch, HandBack, HandBackFails,
          LoopEnds, Stop, WorkerCrash, Restart, ReleaseInFlight, ReleaseUnlocks, ReleaseRun,
          ReleaseFails, RenewLease, ClaimRow, vars, TypeOK, Active, InFlight
  <2>2. QED  BY <2>1, <1>1
<1>6. ASSUME NEW i \in Inline, InlineNext(i) PROVE FALSE
  BY <1>1, <1>2, <1>6 DEF InlineNext, ClaimById, InlineCrash, ClaimRow
<1>7. QED  BY <1>2, <1>3, <1>4, <1>5, <1>6 DEF Next, StoreNext, Enqueue, LeaseLapses, RunAges, vars

\* A sweep retires only runs whose lease is lapsed when it writes, not just
\* when it read: a renewal or another claim in between is respected.
THEOREM ReapsLapsedOnly == Spec => ReapsOnlyLapsed
<1>1. ASSUME TypeOK, LapsedInv, [Next]_vars
      PROVE  \A s \in Sweeps, r \in Runs :
               sweep'[s].todo # sweep[s].todo /\ row'[r] # row[r] => row[r].lapsed
  BY <1>1, ReapStep
<1>2. QED  BY <1>1, TypeCorrect, DueIsLapsed, PTL DEF Spec, ReapsOnlyLapsed

-----------------------------------------------------------------------------
(***************************************************************************)
(* Attempts.  A claim gives its driver an attempt number that no driver of *)
(* the run has, because every driver's number is at most the row's.        *)
(***************************************************************************)
AttemptInv == /\ \A d \in Drivers : drv[d].pc \in Active =>
                   drv[d].attempts <= row[drv[d].run].attempts
              /\ AttemptsExclusive

\* One driver has claimed a run, or whoever works on a run did so before.
KeepsAttempt(e) == /\ drv[e].pc \in Active
                   /\ drv'[e].run = drv[e].run /\ drv'[e].attempts = drv[e].attempts

AttemptStep ==
    \/ \A e \in Drivers : drv'[e].pc \in Active => KeepsAttempt(e)
    \/ \E d \in Drivers, r \in Runs :
         /\ drv'[d].run = r /\ drv'[d].attempts = row[r].attempts + 1
         /\ row'[r].attempts = row[r].attempts + 1
         /\ \A e \in Drivers : e # d => drv'[e] = drv[e]

LEMMA ClaimAttempt ==
    ASSUME TypeOK, NEW d \in Drivers, NEW r \in Runs, NEW pc, ClaimRow(r),
           drv' = [drv EXCEPT ![d] = Claimed(d, r, pc)]
    PROVE  AttemptStep
<1>. row \in [Runs -> Row] /\ drv \in [Drivers -> Driver]
  BY DEF TypeOK
<1>1. row'[r].attempts = row[r].attempts + 1
  BY DEF ClaimRow, Row
<1>2. drv'[d] = Claimed(d, r, pc) /\ \A e \in Drivers : e # d => drv'[e] = drv[e]
  OBVIOUS
<1>3. Claimed(d, r, pc).run = r /\ Claimed(d, r, pc).attempts = row[r].attempts + 1
  BY DEF Claimed
<1>4. QED  BY <1>1, <1>2, <1>3 DEF AttemptStep

LEMMA AttemptFacts == AllInv /\ [Next]_vars => AttemptStep
<1>. SUFFICES ASSUME AllInv, [Next]_vars PROVE AttemptStep
  OBVIOUS
<1>. /\ TypeOK /\ drv \in [Drivers -> Driver]
     /\ Workers \subseteq Drivers /\ Inline \subseteq Drivers
  BY DEF AllInv, TypeOK, Drivers
<1>0. drv' = drv => AttemptStep
  BY DEF AttemptStep, KeepsAttempt
<1>1. ASSUME NEW d \in Drivers, DriverNext(d) PROVE AttemptStep
  <2>. Finished(d).pc = "idle"
    BY FinishedType
  <2>1. CASE Beat(d)
    BY <2>1 DEF Beat, AttemptStep, KeepsAttempt, Driver
  <2>2. CASE BeatFails(d)
    BY <2>2 DEF BeatFails, AttemptStep, KeepsAttempt, Driver
  <2>3. CASE TurnReturns(d)
    <3>1. CASE drv' = [drv EXCEPT ![d].pc = "settling"]
      BY <2>3, <3>1 DEF TurnReturns, AttemptStep, KeepsAttempt, Driver, Active
    <3>2. CASE drv' = [drv EXCEPT ![d] = Finished(d)]
      BY <3>2 DEF AttemptStep, KeepsAttempt, Active
    <3>3. QED  BY <2>3, <3>1, <3>2 DEF TurnReturns
  <2>4. ASSUME NEW retry \in BOOLEAN, TurnThrows(d, retry) PROVE AttemptStep
    <3>1. CASE row[drv[d].run].token = drv[d].token
      <4>1. drv[d].pc \in Active /\ drv[d].attempts = row[drv[d].run].attempts
        BY <2>4, <3>1 DEF TurnThrows, AllInv, CopyInv, Active
      <4>2. QED  BY <2>4, <3>1, <4>1 DEF TurnThrows, AttemptStep, KeepsAttempt, Driver
    <3>2. CASE row[drv[d].run].token # drv[d].token
      BY <2>4, <3>2 DEF TurnThrows, AttemptStep, KeepsAttempt, Active
    <3>3. QED  BY <3>1, <3>2
  <2>5. CASE FailWrite(d)
    <3>1. CASE drv' = [drv EXCEPT ![d] = [@ EXCEPT !.pc = "settling"]]
      BY <2>5, <3>1 DEF FailWrite, AttemptStep, KeepsAttempt, Driver, Active
    <3>2. CASE drv' = [drv EXCEPT ![d] = Finished(d)]
      BY <3>2 DEF AttemptStep, KeepsAttempt, Active
    <3>3. QED  BY <2>5, <3>1, <3>2 DEF FailWrite
  <2>6. CASE Settle(d) \/ SettleFails(d)
    BY <2>6 DEF Settle, SettleFails, AttemptStep, KeepsAttempt, Active
  <2>7. QED  BY <1>1, <2>1, <2>2, <2>3, <2>4, <2>5, <2>6 DEF DriverNext
<1>2. ASSUME NEW w \in Workers, WorkerNext(w) PROVE AttemptStep
  <2>. Idle.pc = "idle" /\ [Idle EXCEPT !.pc = "exited"].pc = "exited"
    BY IdleType, ExitedType
  <2>1. CASE \E r \in Runs : Claim(w, r)
    BY <2>1, ClaimAttempt DEF Claim
  <2>2. CASE ReleaseInFlight(w) \/ ReleaseUnlocks(w) \/ ReleaseRun(w) \/ ReleaseFails(w)
             \/ ClaimsNothing(w)
    BY <2>2, <1>0 DEF ReleaseInFlight, ReleaseUnlocks, ReleaseRun, ReleaseFails, ClaimsNothing, vars
  <2>3. CASE HandBack(w) \/ HandBackFails(w) \/ WorkerCrash(w) \/ Restart(w)
    BY <2>3 DEF HandBack, HandBackFails, WorkerCrash, Restart, AttemptStep, KeepsAttempt, Active
  <2>4. CASE Launch(w) \/ LoopEnds(w) \/ Stop(w)
    BY <2>4 DEF Launch, LoopEnds, Stop, AttemptStep, KeepsAttempt, Active, Driver
  <2>5. QED  BY <1>2, <2>1, <2>2, <2>3, <2>4 DEF WorkerNext
<1>3. ASSUME NEW i \in Inline, InlineNext(i) PROVE AttemptStep
  <2>1. CASE \E r \in Runs : ClaimById(i, r)
    BY <2>1, ClaimAttempt DEF ClaimById
  <2>2. CASE InlineCrash(i)
    BY <2>2, IdleType DEF InlineCrash, AttemptStep, KeepsAttempt, Active
  <2>3. QED  BY <1>3, <2>1, <2>2 DEF InlineNext
<1>4. ASSUME NEW s \in Sweeps, SweepNext(s) PROVE drv' = drv
  BY <1>4 DEF SweepNext, SweepReads, SweepRetires, SweepSettles, SweepUnlocks, SweepEnds,
              SweepCrash
<1>5. CASE StoreNext \/ UNCHANGED vars
  BY <1>5, <1>0 DEF StoreNext, Enqueue, LeaseLapses, RunAges, vars
<1>6. QED  BY <1>0, <1>1, <1>2, <1>3, <1>4, <1>5 DEF Next

\* A row never counts fewer claims than before.
LEMMA AttemptsGrow ==
    ASSUME AllInv, [Next]_vars
    PROVE  \A r \in Runs : row[r].attempts \in Nat /\ row'[r].attempts \in Nat
                           /\ row[r].attempts <= row'[r].attempts
<1>1. OneRow
  BY AllFacts DEF StepFacts
<1>2. \A r \in Runs : row[r].attempts \in Nat
  BY DEF AllInv, TypeOK, Row
<1>3. CASE row' = row
  BY <1>2, <1>3
<1>4. ASSUME NEW q \in Runs, \A p \in Runs : p # q => row'[p] = row[p],
             \/ Submits(q) \/ Flags(q) \/ Starts(q) \/ Succeeds(q) \/ GoesBack(q)
             \/ \E counted \in {0, 1} : Retries(q, counted) \/ Parks(q, counted)
      PROVE  \A r \in Runs : row[r].attempts \in Nat /\ row'[r].attempts \in Nat
                             /\ row[r].attempts <= row'[r].attempts
  <2>1. row'[q].attempts = row[q].attempts \/ row'[q].attempts = row[q].attempts + 1
    BY <1>4 DEF Submits, Flags, Starts, Succeeds, GoesBack, Retries, Parks, SameCounters
  <2>2. QED  BY <1>2, <1>4, <2>1
<1>5. QED  BY <1>1, <1>3, <1>4 DEF OneRow

\* Two drivers that work on one run, the holder of the lease and a zombie or
\* two zombies, never have the same attempt number.
THEOREM ExclusiveAttempts == Spec => []AttemptsExclusive
<1>1. Init => AttemptInv
  BY IdleType DEF Init, AttemptInv, AttemptsExclusive, Active
<1>2. ASSUME AllInv, AttemptInv, [Next]_vars PROVE AttemptInv'
  <2>. /\ \A r \in Runs : /\ row[r].attempts \in Nat /\ row'[r].attempts \in Nat
                          /\ row[r].attempts <= row'[r].attempts
       /\ \A d \in Drivers : /\ drv[d].attempts \in Nat
                             /\ drv[d].pc \in Active => drv[d].run \in Runs
       /\ AttemptStep
    BY <1>2, AttemptsGrow, AttemptFacts DEF AllInv, TypeOK, Driver
  <2>1. CASE \A e \in Drivers : drv'[e].pc \in Active => KeepsAttempt(e)
    <3>1. \A d \in Drivers : drv'[d].pc \in Active =>
            drv'[d].attempts <= row'[drv'[d].run].attempts
      BY <1>2, <2>1 DEF AttemptInv, KeepsAttempt
    <3>2. AttemptsExclusive'
      BY <1>2, <2>1 DEF AttemptInv, AttemptsExclusive, KeepsAttempt
    <3>3. QED  BY <3>1, <3>2 DEF AttemptInv
  <2>2. ASSUME NEW d \in Drivers, NEW r \in Runs,
               drv'[d].run = r, drv'[d].attempts = row[r].attempts + 1,
               row'[r].attempts = row[r].attempts + 1,
               \A e \in Drivers : e # d => drv'[e] = drv[e]
        PROVE  AttemptInv'
    <3>0. \A e \in Drivers : e # d /\ drv[e].pc \in Active =>
            drv[e].attempts <= row[drv[e].run].attempts
      BY <1>2 DEF AttemptInv
    <3>1. \A e \in Drivers : drv'[e].pc \in Active =>
            drv'[e].attempts <= row'[drv'[e].run].attempts
      BY <2>2, <3>0
    <3>2. AttemptsExclusive'
      <4>1. \A e \in Drivers : e # d /\ drv'[e].pc \in Active /\ drv'[e].run = r =>
              drv'[e].attempts # drv'[d].attempts
        BY <2>2, <3>0
      <4>2. QED  BY <1>2, <2>2, <4>1 DEF AttemptInv, AttemptsExclusive
    <3>3. QED  BY <3>1, <3>2 DEF AttemptInv
  <2>3. QED  BY <2>1, <2>2 DEF AttemptStep
<1>3. AttemptInv => AttemptsExclusive
  BY DEF AttemptInv
<1>4. QED  BY <1>1, <1>2, <1>3, CopiesCurrent, PTL DEF Spec

-----------------------------------------------------------------------------
(***************************************************************************)
(* Notifications.  The driver or sweep whose update made a run terminal    *)
(* goes on to notify its listeners; nobody else does, because the row      *)
(* turns terminal once.                                                    *)
(***************************************************************************)
DriverSettling(d) == IF drv[d].pc = "settling" THEN drv[d].run ELSE NoRun
SweepSettling(s)  == IF sweep[s].pc = "settling" THEN sweep[s].run ELSE NoRun

Settlers == ({"driver"} \X Drivers) \cup ({"sweep"} \X Sweeps)

\* The run that a driver or a sweep is about to notify the listeners of.
Settling(a) == IF a[1] = "driver" THEN DriverSettling(a[2]) ELSE SweepSettling(a[2])

SettleInv ==
    /\ NotifiedOnce
    /\ \A a \in Settlers : Settling(a) # NoRun =>
         /\ Settling(a) \in Runs
         /\ isTerminal(row[Settling(a)].status) /\ settled[Settling(a)] = 0
    /\ \A a, b \in Settlers : Settling(a) # NoRun /\ Settling(a) = Settling(b) => a = b

\* A step lets a settler go, makes one run terminal and somebody its settler,
\* or notifies the listeners and lets the settler go.
LetsGo == settled' = settled /\ \A a \in Settlers : Settling(a)' \in {Settling(a), NoRun}

TakesUp(r) == /\ settled' = settled
              /\ row[r].status = "running" /\ isTerminal(row'[r].status)
              /\ \E a \in Settlers : /\ Settling(a)' = r
                                     /\ \A b \in Settlers : b # a => Settling(b)' = Settling(b)

Notifies(a) == /\ Settling(a) # NoRun /\ settled' = [settled EXCEPT ![Settling(a)] = @ + 1]
               /\ Settling(a)' = NoRun
               /\ \A b \in Settlers : b # a => Settling(b)' = Settling(b)

SettleStep == LetsGo \/ (\E r \in Runs : TakesUp(r)) \/ (\E a \in Settlers : Notifies(a))

\* The settlers by kind.
LEMMA SettlerKinds ==
    /\ \A d \in Drivers : /\ <<"driver", d>> \in Settlers
                          /\ Settling(<<"driver", d>>) = DriverSettling(d)
                          /\ Settling(<<"driver", d>>)' = DriverSettling(d)'
    /\ \A s \in Sweeps : /\ <<"sweep", s>> \in Settlers
                         /\ Settling(<<"sweep", s>>) = SweepSettling(s)
                         /\ Settling(<<"sweep", s>>)' = SweepSettling(s)'
    /\ \A a \in Settlers : \/ \E d \in Drivers : a = <<"driver", d>>
                           \/ \E s \in Sweeps : a = <<"sweep", s>>
<1>1. \A d \in Drivers : <<"driver", d>> \in Settlers
  BY DEF Settlers
<1>2. \A s \in Sweeps : <<"sweep", s>> \in Settlers
  BY DEF Settlers
<1>3. \A a \in Settlers : \/ \E d \in Drivers : a = <<"driver", d>>
                          \/ \E s \in Sweeps : a = <<"sweep", s>>
  BY DEF Settlers
<1>4. \A d \in Drivers : Settling(<<"driver", d>>) = DriverSettling(d)
  BY DEF Settling
<1>5. \A d \in Drivers : Settling(<<"driver", d>>)' = DriverSettling(d)'
  BY DEF Settling
<1>6. \A s \in Sweeps : Settling(<<"sweep", s>>) = SweepSettling(s)
  BY DEF Settling
<1>7. \A s \in Sweeps : Settling(<<"sweep", s>>)' = SweepSettling(s)'
  BY DEF Settling
<1>8. QED  BY <1>1, <1>2, <1>3, <1>4, <1>5, <1>6, <1>7

\* A driver's step, when no sweep settles something else by it.
LEMMA DriverSettles ==
    ASSUME NEW d \in Drivers, \A e \in Drivers : e # d => drv'[e] = drv[e],
           \A s \in Sweeps : SweepSettling(s)' = SweepSettling(s)
    PROVE  /\ settled' = settled /\ DriverSettling(d)' \in {DriverSettling(d), NoRun} => LetsGo
           /\ \A r \in Runs : /\ settled' = settled /\ DriverSettling(d)' = r
                              /\ row[r].status = "running" /\ isTerminal(row'[r].status)
                              => TakesUp(r)
           /\ /\ DriverSettling(d) # NoRun /\ DriverSettling(d)' = NoRun
              /\ settled' = [settled EXCEPT ![DriverSettling(d)] = @ + 1]
              => Notifies(<<"driver", d>>)
<1>1. \A e \in Drivers : e # d => DriverSettling(e)' = DriverSettling(e)
  BY DEF DriverSettling
<1>2. \A b \in Settlers : b # <<"driver", d>> => Settling(b)' = Settling(b)
  BY <1>1, SettlerKinds
<1>3. QED  BY <1>2, SettlerKinds DEF LetsGo, TakesUp, Notifies

LEMMA SweepSettlesRun ==
    ASSUME NEW s \in Sweeps, \A t \in Sweeps : t # s => sweep'[t] = sweep[t], drv' = drv
    PROVE  /\ settled' = settled /\ SweepSettling(s)' \in {SweepSettling(s), NoRun} => LetsGo
           /\ \A r \in Runs : /\ settled' = settled /\ SweepSettling(s)' = r
                              /\ row[r].status = "running" /\ isTerminal(row'[r].status)
                              => TakesUp(r)
           /\ /\ SweepSettling(s) # NoRun /\ SweepSettling(s)' = NoRun
              /\ settled' = [settled EXCEPT ![SweepSettling(s)] = @ + 1]
              => Notifies(<<"sweep", s>>)
<1>1. \A t \in Sweeps : t # s => SweepSettling(t)' = SweepSettling(t)
  BY DEF SweepSettling
<1>2. \A d \in Drivers : DriverSettling(d)' = DriverSettling(d)
  BY DEF DriverSettling
<1>3. \A b \in Settlers : b # <<"sweep", s>> => Settling(b)' = Settling(b)
  BY <1>1, <1>2, SettlerKinds
<1>4. QED  BY <1>3, SettlerKinds DEF LetsGo, TakesUp, Notifies

LEMMA SweepsStill ==
    ASSUME sweep \in [Sweeps -> Sweep], sweep' = sweep \/ \E r \in Runs : sweep' = Renewed(r)
    PROVE  \A s \in Sweeps : SweepSettling(s)' = SweepSettling(s)
<1>1. CASE sweep' = sweep
  BY <1>1 DEF SweepSettling
<1>2. ASSUME NEW r \in Runs, sweep' = Renewed(r)
      PROVE  \A s \in Sweeps : SweepSettling(s)' = SweepSettling(s)
  BY <1>2, RenewedType DEF SweepSettling
<1>3. QED  BY <1>1, <1>2

LEMMA RetireParks ==
    ASSUME row \in [Runs -> Row], NEW r \in Runs, NEW c, NEW error, NEW retry, NEW counted,
           RetireRow(r, c, error, retry, counted), ~Requeues(c, retry, counted)
    PROVE  isTerminal(row'[r].status)
BY DEF RetireRow, isTerminal, Row

LEMMA SettleDriver ==
    ASSUME TypeOK, FenceInv, NEW d \in Drivers, DriverNext(d)
    PROVE  SettleStep
<1>. /\ row \in [Runs -> Row] /\ drv \in [Drivers -> Driver] /\ drv[d] \in Driver
     /\ sweep \in [Sweeps -> Sweep] /\ Finished(d).pc = "idle"
     /\ \A e \in Drivers : drv[e].pc \in Active => drv[e].run \in Runs
     /\ NoRun \notin Runs
  BY FinishedType, RunsAssumption DEF TypeOK
<1>0. \A e \in Drivers : e # d => drv'[e] = drv[e]
  BY DEF DriverNext, Beat, BeatFails, TurnReturns, TurnThrows, FailWrite, Settle, SettleFails
<1>00. \A s \in Sweeps : SweepSettling(s)' = SweepSettling(s)
  <2>1. sweep' = sweep \/ \E r \in Runs : sweep' = Renewed(r)
    BY DEF DriverNext, Beat, BeatFails, TurnReturns, TurnThrows, FailWrite, Settle, SettleFails,
           RenewLease, Active
  <2>2. QED  BY <2>1, SweepsStill
<1>1. CASE Beat(d)
  <2>1. drv'[d].pc = "turn" /\ settled' = settled
    BY <1>1 DEF Beat, Driver
  <2>2. QED  BY <2>1, <1>0, <1>00, DriverSettles DEF SettleStep, DriverSettling
<1>2. CASE BeatFails(d)
  BY <1>2, <1>0, <1>00, DriverSettles DEF BeatFails, SettleStep, DriverSettling, Driver
<1>3. CASE TurnReturns(d)
  <2>1. drv[d].run \in Runs /\ drv[d].token # 0 /\ settled' = settled
    BY <1>3 DEF TurnReturns, FenceInv, Active
  <2>2. CASE CompleteFence(drv[d].run, drv[d].token)
    <3>1. row[drv[d].run].status = "running"
      BY <2>1, <2>2 DEF CompleteFence, FenceInv
    <3>2. isTerminal(row'[drv[d].run].status)
      BY <1>3, <2>1, <2>2 DEF TurnReturns, CompleteRow, isTerminal, Row
    <3>3. DriverSettling(d)' = drv[d].run
      BY <1>3, <2>2 DEF TurnReturns, DriverSettling, Driver
    <3>4. TakesUp(drv[d].run)
      BY <2>1, <3>1, <3>2, <3>3, <1>0, <1>00, DriverSettles
    <3>5. QED  BY <2>1, <3>4 DEF SettleStep
  <2>3. CASE ~CompleteFence(drv[d].run, drv[d].token)
    BY <1>3, <2>1, <2>3, <1>0, <1>00, DriverSettles DEF TurnReturns, SettleStep, DriverSettling
  <2>4. QED  BY <2>2, <2>3
<1>4. ASSUME NEW retry \in BOOLEAN, TurnThrows(d, retry) PROVE SettleStep
  <2>1. drv'[d].pc # "settling"
    BY <1>4 DEF TurnThrows, Driver
  <2>2. QED  BY <1>4, <2>1, <1>0, <1>00, DriverSettles DEF TurnThrows, SettleStep, DriverSettling
<1>5. CASE FailWrite(d)
  <2>1. drv[d].run \in Runs /\ settled' = settled
    BY <1>5 DEF FailWrite, Active
  <2>2. CASE Owns(drv[d].run, drv[d].token) /\ ~Requeues(drv[d], drv[d].retry, 1)
    <3>1. row[drv[d].run].status = "running"
      BY <2>2 DEF Owns
    <3>2. isTerminal(row'[drv[d].run].status)
      BY <1>5, <2>1, <2>2, RetireParks DEF FailWrite
    <3>3. DriverSettling(d)' = drv[d].run
      BY <1>5, <2>2 DEF FailWrite, DriverSettling, Driver
    <3>4. TakesUp(drv[d].run)
      BY <2>1, <3>1, <3>2, <3>3, <1>0, <1>00, DriverSettles
    <3>5. QED  BY <2>1, <3>4 DEF SettleStep
  <2>3. CASE ~(Owns(drv[d].run, drv[d].token) /\ ~Requeues(drv[d], drv[d].retry, 1))
    <3>1. drv'[d] = Finished(d)
      BY <1>5, <2>3 DEF FailWrite
    <3>2. QED  BY <2>1, <3>1, <1>0, <1>00, DriverSettles DEF SettleStep, DriverSettling
  <2>4. QED  BY <2>2, <2>3
<1>6. CASE Settle(d)
  <2>1. drv[d].run \in Runs /\ drv'[d].pc = "idle" /\ DriverSettling(d) = drv[d].run
    BY <1>6 DEF Settle, Active, DriverSettling
  <2>2. Notifies(<<"driver", d>>)
    BY <1>6, <2>1, <1>0, <1>00, DriverSettles DEF Settle, DriverSettling
  <2>3. QED  BY <2>2, SettlerKinds DEF SettleStep
<1>7. CASE SettleFails(d)
  BY <1>7, <1>0, <1>00, DriverSettles DEF SettleFails, SettleStep, DriverSettling
<1>8. QED  BY <1>1, <1>2, <1>3, <1>4, <1>5, <1>6, <1>7 DEF DriverNext

LEMMA SettleWorker ==
    ASSUME TypeOK, NEW d \in Drivers,
           (d \in Workers /\ WorkerNext(d)) \/ (d \in Inline /\ InlineNext(d))
    PROVE  SettleStep
<1>. /\ drv \in [Drivers -> Driver] /\ drv[d] \in Driver /\ sweep \in [Sweeps -> Sweep]
     /\ \A e \in Drivers : drv[e].pc \in Active => drv[e].run \in Runs
     /\ Idle.pc = "idle" /\ [Idle EXCEPT !.pc = "exited"].pc = "exited"
  BY IdleType, ExitedType DEF TypeOK
<1>1. settled' = settled
  BY DEF WorkerNext, Claim, ClaimsNothing, Launch, HandBack, HandBackFails, LoopEnds, Stop,
         WorkerCrash, Restart, ReleaseInFlight, ReleaseUnlocks, ReleaseRun, ReleaseFails, vars,
         InlineNext, ClaimById, InlineCrash
<1>2. sweep' = sweep \/ \E r \in Runs : sweep' = Renewed(r)
  BY DEF WorkerNext, Claim, ClaimsNothing, Launch, HandBack, HandBackFails, LoopEnds, Stop,
         WorkerCrash, Restart, ReleaseInFlight, ReleaseUnlocks, ReleaseRun, ReleaseFails, vars,
         InlineNext, ClaimById, InlineCrash, ClaimRow, RenewLease, InFlight, Active
<1>3. \A e \in Drivers : e # d => drv'[e] = drv[e]
  BY DEF WorkerNext, Claim, ClaimsNothing, Launch, HandBack, HandBackFails, LoopEnds, Stop,
         WorkerCrash, Restart, ReleaseInFlight, ReleaseUnlocks, ReleaseRun, ReleaseFails, vars,
         InlineNext, ClaimById, InlineCrash
<1>4. DriverSettling(d)' \in {DriverSettling(d), NoRun}
  <2>1. CASE \/ ClaimsNothing(d) \/ ReleaseInFlight(d) \/ ReleaseUnlocks(d) \/ ReleaseRun(d)
             \/ ReleaseFails(d)
    BY <2>1 DEF ClaimsNothing, ReleaseInFlight, ReleaseUnlocks, ReleaseRun, ReleaseFails, vars,
                DriverSettling
  <2>2. CASE (\E r \in Runs : Claim(d, r)) \/ (\E r \in Runs : ClaimById(d, r))
    BY <2>2 DEF Claim, ClaimById, Claimed, DriverSettling
  <2>3. CASE HandBack(d) \/ HandBackFails(d) \/ WorkerCrash(d) \/ Restart(d) \/ InlineCrash(d)
    BY <2>3 DEF HandBack, HandBackFails, WorkerCrash, Restart, InlineCrash, DriverSettling
  <2>4. CASE Launch(d) \/ LoopEnds(d) \/ Stop(d)
    BY <2>4 DEF Launch, LoopEnds, Stop, DriverSettling, Driver
  <2>5. QED  BY <2>1, <2>2, <2>3, <2>4 DEF WorkerNext, InlineNext
<1>5. LetsGo
  BY <1>1, <1>2, <1>3, <1>4, SweepsStill, DriverSettles
<1>6. QED  BY <1>5 DEF SettleStep

\* A sweep that has read is retiring.
LEMMA ReadRetires ==
    ASSUME sweep \in [Sweeps -> Sweep], NEW s \in Sweeps, SweepReads(s)
    PROVE  sweep'[s].pc = "retiring"
<1>1. PICK todo, due : sweep' = [sweep EXCEPT ![s].pc = "retiring", ![s].todo = todo,
                                              ![s].due = due]
  BY DEF SweepReads
<1>2. QED  BY <1>1 DEF Sweep

LEMMA SettleSweep ==
    ASSUME TypeOK, NEW s \in Sweeps, SweepNext(s)
    PROVE  SettleStep
<1>. /\ row \in [Runs -> Row] /\ sweep \in [Sweeps -> Sweep] /\ sweep[s] \in Sweep
     /\ \A t \in Sweeps : sweep[t].pc = "settling" => sweep[t].run \in Runs
     /\ NoRun \notin Runs
  BY RunsAssumption DEF TypeOK
<1>0. drv' = drv /\ \A t \in Sweeps : t # s => sweep'[t] = sweep[t]
  BY DEF SweepNext, SweepReads, SweepRetires, SweepSettles, SweepUnlocks, SweepEnds, SweepCrash
<1>1. CASE SweepSettles(s)
  <2>1. sweep[s].run \in Runs /\ SweepSettling(s) = sweep[s].run /\ sweep'[s].pc = "retiring"
    BY <1>1 DEF SweepSettles, SweepSettling, Sweep
  <2>2. Notifies(<<"sweep", s>>)
    BY <1>1, <2>1, <1>0, SweepSettlesRun DEF SweepSettles, SweepSettling
  <2>3. QED  BY <2>2, SettlerKinds DEF SettleStep
<1>2. ASSUME NEW c \in sweep[s].todo, SweepRetires(s, c) PROVE SettleStep
  <2>1. c.run \in Runs /\ settled' = settled
    BY <1>2 DEF SweepRetires, Sweep, Copy
  <2>2. CASE ReapFence(s, c) /\ ~Requeues(c, ~c.tooOld, 0)
    <3>1. row[c.run].status = "running"
      BY <2>2 DEF ReapFence, Owns
    <3>2. isTerminal(row'[c.run].status)
      BY <1>2, <2>1, <2>2, RetireParks DEF SweepRetires
    <3>3. SweepSettling(s)' = c.run
      BY <1>2, <2>2 DEF SweepRetires, SweepSettling, Sweep
    <3>4. TakesUp(c.run)
      BY <2>1, <3>1, <3>2, <3>3, <1>0, SweepSettlesRun
    <3>5. QED  BY <2>1, <3>4 DEF SettleStep
  <2>3. CASE ~(ReapFence(s, c) /\ ~Requeues(c, ~c.tooOld, 0))
    <3>1. sweep'[s].pc = sweep[s].pc
      BY <1>2, <2>3 DEF SweepRetires, Sweep
    <3>2. sweep[s].pc = "retiring"
      BY <1>2 DEF SweepRetires
    <3>3. QED  BY <2>1, <3>1, <3>2, <1>0, SweepSettlesRun DEF SettleStep, SweepSettling
  <2>4. QED  BY <2>2, <2>3
<1>3. CASE SweepReads(s) \/ SweepEnds(s) \/ SweepCrash(s) \/ \E x \in Sessions : SweepUnlocks(s, x)
  <2>1. settled' = settled
    BY <1>3 DEF SweepReads, SweepEnds, SweepCrash, SweepUnlocks
  <2>2. ASSUME SweepReads(s) PROVE sweep'[s].pc = "retiring"
    BY <2>2, ReadRetires
  <2>3. SweepEnds(s) \/ SweepCrash(s) => sweep'[s].pc = "idle"
    BY DEF SweepEnds, SweepCrash, NoSweep
  <2>4. (\E x \in Sessions : SweepUnlocks(s, x)) => sweep'[s].pc = "retiring"
    BY DEF SweepUnlocks, Sweep
  <2>5. QED  BY <1>3, <2>1, <2>2, <2>3, <2>4, <1>0, SweepSettlesRun DEF SettleStep, SweepSettling
<1>4. QED  BY <1>1, <1>2, <1>3 DEF SweepNext

LEMMA SettleFacts == TypeOK /\ FenceInv /\ [Next]_vars => SettleStep
<1>. SUFFICES ASSUME TypeOK, FenceInv, [Next]_vars PROVE SettleStep
  OBVIOUS
<1>1. drv' = drv /\ sweep' = sweep /\ settled' = settled => SettleStep
  BY DEF SettleStep, LetsGo, Settling, DriverSettling, SweepSettling
<1>2. CASE StoreNext \/ UNCHANGED vars
  BY <1>1, <1>2 DEF StoreNext, Enqueue, LeaseLapses, RunAges, vars
<1>3. ASSUME NEW d \in Drivers, DriverNext(d) PROVE SettleStep
  BY <1>3, SettleDriver
<1>4. ASSUME NEW w \in Workers, WorkerNext(w) PROVE SettleStep
  BY <1>4, SettleWorker DEF Drivers
<1>5. ASSUME NEW i \in Inline, InlineNext(i) PROVE SettleStep
  BY <1>5, SettleWorker DEF Drivers
<1>6. ASSUME NEW s \in Sweeps, SweepNext(s) PROVE SettleStep
  BY <1>6, SettleSweep
<1>7. QED  BY <1>2, <1>3, <1>4, <1>5, <1>6 DEF Next

LEMMA SettleNext ==
    ASSUME TypeOK, FenceInv, SettleInv, [Next]_vars
    PROVE  SettleInv'
<1>. /\ settled \in [Runs -> Nat] /\ NoRun \notin Runs
     /\ \A r \in Runs : isTerminal(row[r].status) => isTerminal(row'[r].status)
  <2>1. RowStep
    BY StepOfRows
  <2>2. \A r \in Runs : isTerminal(row[r].status) => row'[r] = row[r]
    BY <2>1 DEF RowStep, Submitted, Flagged, Started, Ended, Claimable, isTerminal
  <2>3. QED  BY <2>2, RunsAssumption DEF TypeOK
<1>0. /\ \A r \in Runs : settled[r] <= 1 /\ (settled[r] = 1 => isTerminal(row[r].status))
      /\ \A a \in Settlers : Settling(a) # NoRun =>
           /\ Settling(a) \in Runs
           /\ isTerminal(row[Settling(a)].status) /\ settled[Settling(a)] = 0
      /\ \A a, b \in Settlers : Settling(a) # NoRun /\ Settling(a) = Settling(b) => a = b
  BY DEF SettleInv, NotifiedOnce
<1>1. CASE LetsGo
  <2>1. NotifiedOnce'
    BY <1>0, <1>1 DEF LetsGo, NotifiedOnce
  <2>2. QED  BY <1>0, <1>1, <2>1 DEF LetsGo, SettleInv
<1>2. ASSUME NEW r \in Runs, TakesUp(r) PROVE SettleInv'
  <2>1. PICK a \in Settlers : /\ Settling(a)' = r
                              /\ \A b \in Settlers : b # a => Settling(b)' = Settling(b)
    BY <1>2 DEF TakesUp
  <2>2. /\ settled' = settled /\ ~isTerminal(row[r].status) /\ isTerminal(row'[r].status)
        /\ settled[r] = 0
    BY <1>0, <1>2 DEF TakesUp, isTerminal
  <2>3. \A b \in Settlers : Settling(b) # r
    BY <1>0, <2>2
  <2>4. NotifiedOnce'
    BY <1>0, <2>2 DEF NotifiedOnce
  <2>5. \A b \in Settlers : Settling(b)' # NoRun =>
           /\ Settling(b)' \in Runs
           /\ isTerminal(row'[Settling(b)'].status) /\ settled'[Settling(b)'] = 0
    BY <1>0, <2>1, <2>2
  <2>6. \A b, c \in Settlers : Settling(b)' # NoRun /\ Settling(b)' = Settling(c)' => b = c
    BY <1>0, <2>1, <2>3
  <2>7. QED  BY <2>4, <2>5, <2>6 DEF SettleInv
<1>3. ASSUME NEW a \in Settlers, Notifies(a) PROVE SettleInv'
  <2>1. /\ Settling(a) # NoRun /\ settled' = [settled EXCEPT ![Settling(a)] = @ + 1]
        /\ Settling(a)' = NoRun
        /\ \A b \in Settlers : b # a => Settling(b)' = Settling(b)
    BY <1>3 DEF Notifies
  <2>2. /\ Settling(a) \in Runs /\ settled'[Settling(a)] = 1
        /\ isTerminal(row[Settling(a)].status)
        /\ \A q \in Runs : q # Settling(a) => settled'[q] = settled[q]
    BY <1>0, <2>1
  <2>3. NotifiedOnce'
    BY <1>0, <2>2 DEF NotifiedOnce
  <2>4. \A b \in Settlers : Settling(b)' # NoRun =>
           /\ Settling(b)' \in Runs
           /\ isTerminal(row'[Settling(b)'].status) /\ settled'[Settling(b)'] = 0
    BY <1>0, <2>1, <2>2
  <2>5. \A b, c \in Settlers : Settling(b)' # NoRun /\ Settling(b)' = Settling(c)' => b = c
    BY <1>0, <2>1
  <2>6. QED  BY <2>3, <2>4, <2>5 DEF SettleInv
<1>4. QED  BY <1>1, <1>2, <1>3, SettleFacts DEF SettleStep

\* The listeners of a run are notified at most once, and only of a terminal
\* run, whoever of the drivers and sweeps settles it.
THEOREM OneNotification == Spec => []NotifiedOnce
<1>1. ASSUME Init PROVE SettleInv
  <2>1. NotifiedOnce
    <3>1. settled \in [Runs -> {0}]
      BY <1>1 DEF Init
    <3>2. QED  BY <3>1 DEF NotifiedOnce
  <2>2. \A a \in Settlers : Settling(a) = NoRun
    <3>1. \A d \in Drivers : DriverSettling(d) = NoRun
      BY <1>1, IdleType DEF Init, DriverSettling
    <3>2. \A s \in Sweeps : SweepSettling(s) = NoRun
      BY <1>1 DEF Init, SweepSettling, NoSweep
    <3>3. QED  BY <3>1, <3>2, SettlerKinds
  <2>3. QED  BY <2>1, <2>2 DEF SettleInv
<1>2. SettleInv => NotifiedOnce
  BY DEF SettleInv
<1>3. QED  BY <1>1, <1>2, SettleNext, TypeCorrect, LeaseFence, PTL DEF Spec
=============================================================================
