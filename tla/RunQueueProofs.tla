--------------------------- MODULE RunQueueProofs ---------------------------
(***************************************************************************)
(* Proofs about RunQueue, for every set of runs, sessions, drivers and     *)
(* sweeps and for every budget.                                            *)
(***************************************************************************)
EXTENDS RunQueue, TLAPS

-----------------------------------------------------------------------------
(***************************************************************************)
(* Type correctness: first what the statements of the store do to the      *)
(* table, then what each process does.                                     *)
(***************************************************************************)

\* What a driver is set to when it exits, finishes or claims is a driver state.
LEMMA IdleType == Idle \in Driver /\ Idle.pc = "idle"
BY DEF Idle, Driver, Active, LEASE_LOST_CONSECUTIVE

LEMMA ExitedType ==
    /\ [Idle EXCEPT !.pc = "exited"] \in Driver
    /\ [Idle EXCEPT !.pc = "exited"].pc = "exited"
<1>1. \A x \in Driver : /\ [x EXCEPT !.pc = "exited"] \in Driver
                        /\ [x EXCEPT !.pc = "exited"].pc = "exited"
  BY DEF Driver
<1>2. QED  BY <1>1, IdleType

LEMMA FinishedType ==
    ASSUME drv \in [Drivers -> Driver], NEW d \in Drivers
    PROVE  Finished(d) \in Driver /\ Finished(d).pc = "idle"
<1>1. \A x \in Driver, b \in BOOLEAN : /\ [x EXCEPT !.stopped = b] \in Driver
                                       /\ [x EXCEPT !.stopped = b].pc = x.pc
  BY DEF Driver
<1>2. drv[d].stopped \in BOOLEAN
  BY DEF Driver
<1>3. QED  BY <1>1, <1>2, IdleType DEF Finished

LEMMA ClaimedType ==
    ASSUME drv \in [Drivers -> Driver], row \in [Runs -> Row], nextToken \in Nat \ {0},
           NEW d \in Drivers, NEW r \in Runs, NEW pc \in {"claimed", "turn"}
    PROVE  Claimed(d, r, pc) \in Driver /\ Claimed(d, r, pc).run \in Runs
<1>1. errorParks(row[r].attempts + 1, row[r].errorAttempts) \in BOOLEAN
  BY DEF errorParks
<1>2. /\ row[r].attempts + 1 \in Nat /\ row[r].errorAttempts \in Nat
      /\ nextToken \in Nat /\ drv[d].stopped \in BOOLEAN
  BY DEF Row, Driver
<1>3. QED  BY <1>1, <1>2 DEF Claimed, Driver, Active, LEASE_LOST_CONSECUTIVE

\* A driver update that keeps the other drivers keeps the type.
LEMMA DriverUpdate ==
    ASSUME drv \in [Drivers -> Driver],
           \A d \in Drivers : drv[d].pc \in Active => drv[d].run \in Runs,
           NEW d \in Drivers, NEW x \in Driver, x.pc \in Active => x.run \in Runs,
           drv' = [drv EXCEPT ![d] = x]
    PROVE  /\ drv' \in [Drivers -> Driver]
           /\ \A e \in Drivers : drv'[e].pc \in Active => drv'[e].run \in Runs
OBVIOUS

LEMMA RetireType ==
    ASSUME row \in [Runs -> Row], NEW r \in Runs, NEW c, NEW error \in Reasons,
           NEW retry \in BOOLEAN, NEW counted \in {0, 1},
           RetireRow(r, c, error, retry, counted)
    PROVE  row' \in [Runs -> Row]
<1>1. RetireReason(c, error, retry, counted) \in Reasons
  BY DEF RetireReason, Reasons
<1>2. CASE Requeues(c, retry, counted)
  BY <1>2 DEF RetireRow, Row, Statuses
<1>3. CASE ~Requeues(c, retry, counted)
  BY <1>1, <1>3 DEF RetireRow, Row, Statuses
<1>4. QED  BY <1>2, <1>3

LEMMA RenewedType ==
    ASSUME sweep \in [Sweeps -> Sweep], NEW r \in Runs
    PROVE  /\ Renewed(r) \in [Sweeps -> Sweep]
           /\ \A s \in Sweeps : /\ Renewed(r)[s].pc = sweep[s].pc
                                /\ Renewed(r)[s].run = sweep[s].run
BY DEF Renewed, Sweep

LEMMA ClaimRowType ==
    ASSUME row \in [Runs -> Row], nextToken \in Nat \ {0}, NEW r \in Runs, ClaimRow(r)
    PROVE  row' \in [Runs -> Row] /\ nextToken' \in Nat \ {0} /\ sweep' = Renewed(r)
BY DEF ClaimRow, Row, Statuses

LEMMA RenewLeaseType ==
    ASSUME row \in [Runs -> Row], NEW r \in Runs, RenewLease(r)
    PROVE  row' \in [Runs -> Row] /\ sweep' = Renewed(r)
BY DEF RenewLease, Row

LEMMA ReleaseRowType ==
    ASSUME row \in [Runs -> Row], handed \in [Runs -> Nat], NEW r \in Runs, ReleaseRow(r)
    PROVE  row' \in [Runs -> Row] /\ handed' \in [Runs -> Nat]
<1>1. row' \in [Runs -> Row]
  BY ZenonT(60) DEF ReleaseRow, Row, Statuses
<1>2. handed' \in [Runs -> Nat]
  BY DEF ReleaseRow
<1>3. QED  BY <1>1, <1>2

LEMMA TypeStore ==
    ASSUME TypeOK, NEW r \in Runs, Enqueue(r) \/ LeaseLapses(r) \/ RunAges(r)
    PROVE  TypeOK'
<1>. row \in [Runs -> Row] /\ created \in Nat
  BY DEF TypeOK
<1>1. CASE Enqueue(r)
  <2>1. row' \in [Runs -> Row]
    BY <1>1, ZenonT(60) DEF Enqueue, Row, Statuses
  <2>2. QED  BY <1>1, <2>1 DEF TypeOK, Enqueue
<1>2. CASE LeaseLapses(r)
  <2>1. row' \in [Runs -> Row]
    BY <1>2 DEF LeaseLapses, Row
  <2>2. QED  BY <1>2, <2>1 DEF TypeOK, LeaseLapses
<1>3. CASE RunAges(r)
  <2>1. row' \in [Runs -> Row]
    BY <1>3 DEF RunAges, Row
  <2>2. QED  BY <1>3, <2>1 DEF TypeOK, RunAges
<1>4. QED  BY <1>1, <1>2, <1>3

LEMMA TypeDriver ==
    ASSUME TypeOK, NEW d \in Drivers, DriverNext(d)
    PROVE  TypeOK'
<1>. DEFINE DrvOK == /\ drv' \in [Drivers -> Driver]
                     /\ \A e \in Drivers : drv'[e].pc \in Active => drv'[e].run \in Runs
<1>. /\ row \in [Runs -> Row] /\ sweep \in [Sweeps -> Sweep]
     /\ drv \in [Drivers -> Driver] /\ drv[d] \in Driver
     /\ \A e \in Drivers : drv[e].pc \in Active => drv[e].run \in Runs
  BY DEF TypeOK
<1>1. CASE Beat(d)
  <2>1. drv[d].run \in Runs
    BY <1>1 DEF Beat, Active
  <2>2. CASE Owns(drv[d].run, drv[d].token)
    <3>1. row' \in [Runs -> Row] /\ sweep' = Renewed(drv[d].run)
      BY <1>1, <2>1, <2>2, RenewLeaseType DEF Beat
    <3>2. DrvOK
      BY <1>1, <2>1, <2>2 DEF Beat, Driver, LEASE_LOST_CONSECUTIVE
    <3>3. QED  BY <1>1, <2>1, <3>1, <3>2, RenewedType DEF Beat, TypeOK
  <2>3. CASE ~Owns(drv[d].run, drv[d].token)
    <3>1. DrvOK
      BY <1>1, <2>1, <2>3 DEF Beat, Driver, LEASE_LOST_CONSECUTIVE
    <3>2. QED  BY <1>1, <2>3, <3>1 DEF Beat, TypeOK
  <2>4. QED  BY <2>2, <2>3
<1>2. CASE BeatFails(d)
  <2>1. DrvOK
    BY <1>2 DEF BeatFails, Driver, LEASE_LOST_CONSECUTIVE
  <2>2. QED  BY <1>2, <2>1 DEF BeatFails, TypeOK
<1>3. CASE TurnReturns(d)
  <2>1. drv[d].run \in Runs
    BY <1>3 DEF TurnReturns, Active
  <2>2. CASE CompleteFence(drv[d].run, drv[d].token)
    <3>1. row' \in [Runs -> Row]
      BY <1>3, <2>1, <2>2 DEF TurnReturns, CompleteRow, Row, Statuses, Reasons
    <3>2. DrvOK
      BY <1>3, <2>1, <2>2 DEF TurnReturns, Driver, Active
    <3>3. QED  BY <1>3, <3>1, <3>2 DEF TurnReturns, TypeOK
  <2>3. CASE ~CompleteFence(drv[d].run, drv[d].token)
    <3>1. DrvOK
      BY <1>3, <2>3, FinishedType DEF TurnReturns, Active
    <3>2. QED  BY <1>3, <2>3, <3>1 DEF TurnReturns, TypeOK
  <2>4. QED  BY <2>2, <2>3
<1>4. ASSUME NEW retry \in BOOLEAN, TurnThrows(d, retry)
      PROVE  TypeOK'
  <2>1. drv[d].run \in Runs
    BY <1>4 DEF TurnThrows, Active
  <2>2. DrvOK
    <3>1. CASE row[drv[d].run].token = drv[d].token
      <4>1. row[drv[d].run].attempts \in Nat /\ row[drv[d].run].errorAttempts \in Nat
        BY <2>1 DEF Row
      <4>2. QED  BY <1>4, <2>1, <3>1, <4>1 DEF TurnThrows, Driver, Active
    <3>2. CASE row[drv[d].run].token # drv[d].token
      BY <1>4, <3>2, FinishedType DEF TurnThrows, Active
    <3>3. QED  BY <3>1, <3>2
  <2>3. QED  BY <1>4, <2>2 DEF TurnThrows, TypeOK
<1>5. CASE FailWrite(d)
  <2>1. drv[d].run \in Runs /\ drv[d].retry \in BOOLEAN
    BY <1>5 DEF FailWrite, Active, Driver
  <2>2. CASE Owns(drv[d].run, drv[d].token)
    <3>1. row' \in [Runs -> Row]
      BY <1>5, <2>1, <2>2, RetireType DEF FailWrite, Reasons
    <3>2. DrvOK
      <4>1. CASE Requeues(drv[d], drv[d].retry, 1)
        BY <1>5, <2>2, <4>1, FinishedType DEF FailWrite, Active
      <4>2. CASE ~Requeues(drv[d], drv[d].retry, 1)
        BY <1>5, <2>1, <2>2, <4>2 DEF FailWrite, Driver, Active
      <4>3. QED  BY <4>1, <4>2
    <3>3. QED  BY <1>5, <3>1, <3>2 DEF FailWrite, TypeOK
  <2>3. CASE ~Owns(drv[d].run, drv[d].token)
    <3>1. DrvOK
      BY <1>5, <2>3, FinishedType DEF FailWrite, Active
    <3>2. QED  BY <1>5, <2>3, <3>1 DEF FailWrite, TypeOK
  <2>4. QED  BY <2>2, <2>3
<1>6. CASE Settle(d)
  <2>1. DrvOK
    BY <1>6, FinishedType DEF Settle, Active
  <2>2. settled' \in [Runs -> Nat]
    <3>1. settled \in [Runs -> Nat] /\ drv[d].run \in Runs
      BY <1>6 DEF TypeOK, Settle, Active
    <3>2. QED  BY <1>6, <3>1 DEF Settle
  <2>3. QED  BY <1>6, <2>1, <2>2 DEF Settle, TypeOK
<1>7. CASE SettleFails(d)
  <2>1. DrvOK
    BY <1>7, FinishedType DEF SettleFails, Active
  <2>2. QED  BY <1>7, <2>1 DEF SettleFails, TypeOK
<1>8. QED  BY <1>1, <1>2, <1>3, <1>4, <1>5, <1>6, <1>7 DEF DriverNext

LEMMA TypeWorker ==
    ASSUME TypeOK, NEW w \in Workers, WorkerNext(w)
    PROVE  TypeOK'
<1>. DEFINE DrvOK == /\ drv' \in [Drivers -> Driver]
                     /\ \A e \in Drivers : drv'[e].pc \in Active => drv'[e].run \in Runs
            RelOK == /\ rel' \in [Workers -> Release]
                     /\ \A v \in Workers : rel'[v].pc # "none" => rel'[v].run \in Runs
<1>. /\ row \in [Runs -> Row] /\ sweep \in [Sweeps -> Sweep]
     /\ nextToken \in Nat \ {0} /\ handed \in [Runs -> Nat]
     /\ w \in Drivers /\ drv \in [Drivers -> Driver] /\ drv[w] \in Driver
     /\ \A e \in Drivers : drv[e].pc \in Active => drv[e].run \in Runs
     /\ rel \in [Workers -> Release] /\ rel[w] \in Release
     /\ \A v \in Workers : rel[v].pc # "none" => rel[v].run \in Runs
  BY DEF TypeOK, Drivers
<1>0. NoRelease \in Release /\ NoRelease.pc = "none"
  BY DEF NoRelease, Release
<1>1. ASSUME NEW r \in Runs, Claim(w, r)
      PROVE  TypeOK'
  <2>1. row' \in [Runs -> Row] /\ nextToken' \in Nat \ {0} /\ sweep' = Renewed(r)
    BY <1>1, ClaimRowType DEF Claim
  <2>2. DrvOK
    BY <1>1, ClaimedType DEF Claim
  <2>3. QED  BY <1>1, <2>1, <2>2, RenewedType DEF Claim, TypeOK
<1>2. CASE ClaimsNothing(w)
  BY <1>2 DEF ClaimsNothing, vars, TypeOK
<1>3. CASE Launch(w)
  <2>1. DrvOK
    BY <1>3 DEF Launch, Driver, Active
  <2>2. QED  BY <1>3, <2>1 DEF Launch, TypeOK
<1>4. CASE HandBack(w)
  <2>1. drv[w].run \in Runs
    BY <1>4 DEF HandBack, Active
  <2>2. row' \in [Runs -> Row] /\ handed' \in [Runs -> Nat]
    BY <1>4, <2>1, ReleaseRowType DEF HandBack
  <2>3. DrvOK
    BY <1>4, ExitedType DEF HandBack, Active
  <2>4. QED  BY <1>4, <2>2, <2>3 DEF HandBack, TypeOK
<1>5. CASE HandBackFails(w)
  <2>1. DrvOK
    BY <1>5, ExitedType DEF HandBackFails, Active
  <2>2. QED  BY <1>5, <2>1 DEF HandBackFails, TypeOK
<1>6. CASE LoopEnds(w)
  <2>1. DrvOK
    BY <1>6 DEF LoopEnds, Driver, Active
  <2>2. QED  BY <1>6, <2>1 DEF LoopEnds, TypeOK
<1>7. CASE Stop(w)
  <2>1. DrvOK
    BY <1>7 DEF Stop, Driver
  <2>2. QED  BY <1>7, <2>1 DEF Stop, TypeOK
<1>8. CASE WorkerCrash(w)
  <2>1. DrvOK
    BY <1>8, ExitedType DEF WorkerCrash, Active
  <2>2. RelOK
    BY <1>8, <1>0 DEF WorkerCrash
  <2>3. QED  BY <1>8, <2>1, <2>2 DEF WorkerCrash, TypeOK
<1>9. CASE Restart(w)
  <2>1. DrvOK
    BY <1>9, IdleType DEF Restart, Active
  <2>2. RelOK
    BY <1>9, <1>0 DEF Restart
  <2>3. QED  BY <1>9, <2>1, <2>2 DEF Restart, TypeOK
<1>10. CASE ReleaseInFlight(w)
  <2>1. drv[w].run \in Runs /\ drv[w].token \in Nat
    BY <1>10 DEF ReleaseInFlight, InFlight, Active, Driver
  <2>2. RelOK
    BY <1>10, <2>1 DEF ReleaseInFlight, Release
  <2>3. CASE Owns(drv[w].run, drv[w].token)
    <3>1. row' \in [Runs -> Row] /\ sweep' = Renewed(drv[w].run)
      BY <1>10, <2>1, <2>3, RenewLeaseType DEF ReleaseInFlight
    <3>2. QED  BY <1>10, <2>1, <2>2, <3>1, RenewedType DEF ReleaseInFlight, TypeOK
  <2>4. CASE ~Owns(drv[w].run, drv[w].token)
    BY <1>10, <2>2, <2>4 DEF ReleaseInFlight, TypeOK
  <2>5. QED  BY <2>3, <2>4
<1>11. CASE ReleaseUnlocks(w)
  <2>1. RelOK
    BY <1>11 DEF ReleaseUnlocks, Release
  <2>2. QED  BY <1>11, <2>1 DEF ReleaseUnlocks, TypeOK
<1>12. CASE ReleaseRun(w)
  <2>1. rel[w].run \in Runs
    BY <1>12 DEF ReleaseRun
  <2>2. row' \in [Runs -> Row] /\ handed' \in [Runs -> Nat]
    BY <1>12, <2>1, ReleaseRowType DEF ReleaseRun
  <2>3. RelOK
    BY <1>12 DEF ReleaseRun, NoRelease, Release
  <2>4. QED  BY <1>12, <2>2, <2>3 DEF ReleaseRun, TypeOK
<1>13. CASE ReleaseFails(w)
  <2>1. RelOK
    BY <1>13 DEF ReleaseFails, NoRelease, Release
  <2>2. QED  BY <1>13, <2>1 DEF ReleaseFails, TypeOK
<1>14. QED  BY <1>1, <1>2, <1>3, <1>4, <1>5, <1>6, <1>7, <1>8, <1>9, <1>10,
               <1>11, <1>12, <1>13 DEF WorkerNext

LEMMA TypeInline ==
    ASSUME TypeOK, NEW i \in Inline, InlineNext(i)
    PROVE  TypeOK'
<1>. DEFINE DrvOK == /\ drv' \in [Drivers -> Driver]
                     /\ \A e \in Drivers : drv'[e].pc \in Active => drv'[e].run \in Runs
<1>. /\ row \in [Runs -> Row] /\ sweep \in [Sweeps -> Sweep] /\ nextToken \in Nat \ {0}
     /\ i \in Drivers /\ drv \in [Drivers -> Driver]
     /\ \A e \in Drivers : drv[e].pc \in Active => drv[e].run \in Runs
  BY DEF TypeOK, Drivers
<1>1. ASSUME NEW r \in Runs, ClaimById(i, r)
      PROVE  TypeOK'
  <2>1. row' \in [Runs -> Row] /\ nextToken' \in Nat \ {0} /\ sweep' = Renewed(r)
    BY <1>1, ClaimRowType DEF ClaimById
  <2>2. DrvOK
    BY <1>1, ClaimedType DEF ClaimById
  <2>3. QED  BY <1>1, <2>1, <2>2, RenewedType, SMTT(30) DEF ClaimById, TypeOK
<1>2. CASE InlineCrash(i)
  <2>1. DrvOK
    BY <1>2, IdleType DEF InlineCrash, Active
  <2>2. QED  BY <1>2, <2>1 DEF InlineCrash, TypeOK
<1>3. QED  BY <1>1, <1>2 DEF InlineNext

LEMMA TypeSweep ==
    ASSUME TypeOK, NEW s \in Sweeps, SweepNext(s)
    PROVE  TypeOK'
<1>. DEFINE SwOK == /\ sweep' \in [Sweeps -> Sweep]
                    /\ \A t \in Sweeps : sweep'[t].pc = "settling" => sweep'[t].run \in Runs
<1>. /\ row \in [Runs -> Row] /\ sweep \in [Sweeps -> Sweep] /\ sweep[s] \in Sweep
     /\ \A t \in Sweeps : sweep[t].pc = "settling" => sweep[t].run \in Runs
     /\ settled \in [Runs -> Nat]
  BY DEF TypeOK
<1>0. NoSweep \in Sweep /\ NoSweep.pc = "idle"
  BY DEF NoSweep, Sweep
<1>1. CASE SweepReads(s)
  <2>1. {Expired(r) : r \in {q \in Runs : leaseLapsed(q)}} \in SUBSET Copy
    BY DEF Expired, Copy, Row
  <2>2. SwOK
    BY <1>1, <2>1 DEF SweepReads, Sweep
  <2>3. QED  BY <1>1, <2>2 DEF SweepReads, TypeOK
<1>2. ASSUME NEW c \in sweep[s].todo, SweepRetires(s, c)
      PROVE  TypeOK'
  <2>1. c \in Copy /\ c.run \in Runs /\ c.tooOld \in BOOLEAN
    BY DEF Sweep, Copy
  <2>2. CASE ReapFence(s, c)
    <3>1. row' \in [Runs -> Row]
      BY <1>2, <2>1, <2>2, RetireType DEF SweepRetires, Reasons
    <3>2. SessionOf[c.run] \in Sessions
      BY <2>1, RunsAssumption
    <3>3. SwOK
      BY <1>2, <2>1, <2>2, <3>2 DEF SweepRetires, Sweep
    <3>4. QED  BY <1>2, <2>2, <3>1, <3>3 DEF SweepRetires, TypeOK
  <2>3. CASE ~ReapFence(s, c)
    <3>1. SwOK
      BY <1>2, <2>3 DEF SweepRetires, Sweep
    <3>2. QED  BY <1>2, <2>3, <3>1 DEF SweepRetires, TypeOK
  <2>4. QED  BY <2>2, <2>3
<1>3. CASE SweepSettles(s)
  <2>1. settled' \in [Runs -> Nat]
    BY <1>3 DEF SweepSettles
  <2>2. SwOK
    BY <1>3 DEF SweepSettles, Sweep
  <2>3. QED  BY <1>3, <2>1, <2>2 DEF SweepSettles, TypeOK
<1>4. ASSUME NEW x \in Sessions, SweepUnlocks(s, x)
      PROVE  TypeOK'
  <2>1. SwOK
    BY <1>4 DEF SweepUnlocks, Sweep
  <2>2. QED  BY <1>4, <2>1 DEF SweepUnlocks, TypeOK
<1>5. CASE SweepEnds(s)
  <2>1. SwOK
    BY <1>5, <1>0 DEF SweepEnds
  <2>2. QED  BY <1>5, <2>1 DEF SweepEnds, TypeOK
<1>6. CASE SweepCrash(s)
  <2>1. SwOK
    BY <1>6, <1>0 DEF SweepCrash
  <2>2. QED  BY <1>6, <2>1 DEF SweepCrash, TypeOK
<1>7. QED  BY <1>1, <1>2, <1>3, <1>4, <1>5, <1>6 DEF SweepNext

LEMMA TypeInit == Init => TypeOK
<1>1. NoRow \in Row /\ Idle \in Driver /\ Idle.pc = "idle"
  BY IdleType DEF NoRow, Row, Statuses, Reasons
<1>2. NoRelease \in Release /\ NoSweep \in Sweep
      /\ NoRelease.pc = "none" /\ NoSweep.pc = "idle"
  BY DEF NoRelease, Release, NoSweep, Sweep
<1>3. QED  BY <1>1, <1>2 DEF Init, TypeOK, Active

LEMMA TypeNext == TypeOK /\ [Next]_vars => TypeOK'
<1>. SUFFICES ASSUME TypeOK, [Next]_vars PROVE TypeOK'
  OBVIOUS
<1>1. CASE StoreNext
  BY <1>1, TypeStore DEF StoreNext
<1>2. ASSUME NEW d \in Drivers, DriverNext(d) PROVE TypeOK'
  BY <1>2, TypeDriver
<1>3. ASSUME NEW w \in Workers, WorkerNext(w) PROVE TypeOK'
  BY <1>3, TypeWorker
<1>4. ASSUME NEW i \in Inline, InlineNext(i) PROVE TypeOK'
  BY <1>4, TypeInline
<1>5. ASSUME NEW s \in Sweeps, SweepNext(s) PROVE TypeOK'
  BY <1>5, TypeSweep
<1>6. CASE UNCHANGED vars
  BY <1>6 DEF vars, TypeOK
<1>7. QED  BY <1>1, <1>2, <1>3, <1>4, <1>5, <1>6 DEF Next

\* Every reachable state of the queue is well typed, whatever the constants.
THEOREM TypeCorrect == Spec => []TypeOK
BY TypeInit, TypeNext, PTL DEF Spec

-----------------------------------------------------------------------------
(***************************************************************************)
(* The lease fence.  A row carries a token exactly while it is running and *)
(* whoever works on a run carries a token that is not NULL: that is why a  *)
(* statement fenced by the token alone, complete(), never reaches a run    *)
(* that is pending or terminal.                                            *)
(***************************************************************************)
FenceInv == /\ \A r \in Runs : row[r].token # 0 <=> row[r].status = "running"
            /\ \A d \in Drivers : drv[d].pc \in Active => drv[d].token # 0

\* The four things a step can do to the row of one run.
Submitted(r) == /\ row[r].status = "absent" /\ row'[r].status = "pending"
                /\ row'[r].token = row[r].token
Flagged(r)   == /\ row[r].status \in {"pending", "running"}
                /\ row'[r].status = row[r].status /\ row'[r].token = row[r].token
Started(r)   == /\ Claimable(r) /\ row'[r].status = "running"
                /\ row'[r].token = nextToken
Ended(r)     == /\ row[r].status = "running" /\ row'[r].token = 0
                /\ row'[r].status \in {"pending", "done", "failed"}

RowStep == \/ row' = row
           \/ \E r \in Runs : /\ \A q \in Runs : q # r => row'[q] = row[q]
                              /\ Submitted(r) \/ Flagged(r) \/ Started(r) \/ Ended(r)

\* A driver that works on a run keeps its token or has just been given one.
TokenStep == \A e \in Drivers : drv'[e].pc \in Active =>
                 \/ drv[e].pc \in Active /\ drv'[e].token = drv[e].token
                 \/ drv'[e].token = nextToken

LEMMA RetireEnds ==
    ASSUME row \in [Runs -> Row], NEW r \in Runs, row[r].status = "running",
           NEW c, NEW error, NEW retry, NEW counted, RetireRow(r, c, error, retry, counted)
    PROVE  RowStep
<1>1. CASE Requeues(c, retry, counted)
  BY <1>1 DEF RetireRow, RowStep, Ended, Row
<1>2. CASE ~Requeues(c, retry, counted)
  BY <1>2 DEF RetireRow, RowStep, Ended, Row
<1>3. QED  BY <1>1, <1>2

LEMMA ReleaseEnds ==
    ASSUME row \in [Runs -> Row], NEW r \in Runs, row[r].status = "running", ReleaseRow(r)
    PROVE  RowStep
BY DEF ReleaseRow, RowStep, Ended, Row

LEMMA RenewFlags ==
    ASSUME row \in [Runs -> Row], NEW r \in Runs, row[r].status = "running", RenewLease(r)
    PROVE  RowStep
BY DEF RenewLease, RowStep, Flagged, Row

LEMMA ClaimStarts ==
    ASSUME row \in [Runs -> Row], NEW r \in Runs, Claimable(r), ClaimRow(r)
    PROVE  RowStep
BY DEF ClaimRow, RowStep, Started, Row

\* A driver update by which one driver keeps its token, or stops working.
LEMMA TokenUpdate ==
    ASSUME drv \in [Drivers -> Driver], NEW d \in Drivers, NEW x \in Driver,
           drv' = [drv EXCEPT ![d] = x],
           x.pc \in Active => \/ drv[d].pc \in Active /\ x.token = drv[d].token
                              \/ x.token = nextToken
    PROVE  TokenStep
BY DEF TokenStep

LEMMA RowStepStore ==
    ASSUME TypeOK, NEW r \in Runs, Enqueue(r) \/ LeaseLapses(r) \/ RunAges(r)
    PROVE  RowStep /\ TokenStep
<1>. row \in [Runs -> Row]
  BY DEF TypeOK
<1>1. CASE Enqueue(r)
  BY <1>1 DEF Enqueue, RowStep, TokenStep, Submitted, Row
<1>2. CASE LeaseLapses(r)
  BY <1>2 DEF LeaseLapses, RowStep, TokenStep, Flagged, Row
<1>3. CASE RunAges(r)
  BY <1>3 DEF RunAges, RowStep, TokenStep, Flagged, Row
<1>4. QED  BY <1>1, <1>2, <1>3

LEMMA RowStepDriver ==
    ASSUME TypeOK, FenceInv, NEW d \in Drivers, DriverNext(d)
    PROVE  RowStep /\ TokenStep
<1>. /\ row \in [Runs -> Row] /\ drv \in [Drivers -> Driver] /\ drv[d] \in Driver
     /\ \A e \in Drivers : drv[e].pc \in Active => drv[e].run \in Runs
  BY DEF TypeOK
<1>0. Finished(d).pc = "idle" /\ Finished(d) \in Driver
  BY FinishedType
<1>1. CASE Beat(d)
  <2>1. drv[d].run \in Runs
    BY <1>1 DEF Beat, Active
  <2>2. RowStep
    BY <1>1, <2>1, RenewFlags DEF Beat, RowStep, Owns
  <2>3. TokenStep
    BY <1>1 DEF Beat, TokenStep, Driver
  <2>4. QED  BY <2>2, <2>3
<1>2. CASE BeatFails(d)
  BY <1>2 DEF BeatFails, RowStep, TokenStep, Driver
<1>3. CASE TurnReturns(d)
  <2>1. drv[d].run \in Runs /\ drv[d].token # 0 /\ drv[d].pc \in Active
    BY <1>3 DEF TurnReturns, Active, FenceInv
  <2>2. CASE CompleteFence(drv[d].run, drv[d].token)
    <3>1. row[drv[d].run].status = "running"
      BY <2>1, <2>2 DEF CompleteFence, FenceInv
    <3>2. RowStep
      BY <1>3, <2>1, <2>2, <3>1 DEF TurnReturns, CompleteRow, RowStep, Ended, Row
    <3>3. TokenStep
      BY <1>3, <2>1, <2>2 DEF TurnReturns, TokenStep, Driver
    <3>4. QED  BY <3>2, <3>3
  <2>3. CASE ~CompleteFence(drv[d].run, drv[d].token)
    BY <1>3, <2>3, <1>0 DEF TurnReturns, RowStep, TokenStep, Active
  <2>4. QED  BY <2>2, <2>3
<1>4. ASSUME NEW retry \in BOOLEAN, TurnThrows(d, retry)
      PROVE  RowStep /\ TokenStep
  <2>1. drv[d].pc \in Active
    BY <1>4 DEF TurnThrows, Active
  <2>2. CASE row[drv[d].run].token = drv[d].token
    BY <1>4, <2>1, <2>2 DEF TurnThrows, RowStep, TokenStep, Driver
  <2>3. CASE row[drv[d].run].token # drv[d].token
    BY <1>4, <2>3, <1>0 DEF TurnThrows, RowStep, TokenStep, Active
  <2>4. QED  BY <2>2, <2>3
<1>5. CASE FailWrite(d)
  <2>1. drv[d].run \in Runs /\ drv[d].pc \in Active
    BY <1>5 DEF FailWrite, Active
  <2>2. CASE Owns(drv[d].run, drv[d].token)
    <3>1. RowStep
      BY <1>5, <2>1, <2>2, RetireEnds DEF FailWrite, Owns
    <3>2. CASE Requeues(drv[d], drv[d].retry, 1)
      BY <1>5, <2>2, <3>1, <3>2, <1>0 DEF FailWrite, TokenStep, Active
    <3>3. CASE ~Requeues(drv[d], drv[d].retry, 1)
      BY <1>5, <2>1, <2>2, <3>1, <3>3 DEF FailWrite, TokenStep, Driver
    <3>4. QED  BY <3>2, <3>3
  <2>3. CASE ~Owns(drv[d].run, drv[d].token)
    BY <1>5, <2>3, <1>0 DEF FailWrite, RowStep, TokenStep, Active
  <2>4. QED  BY <2>2, <2>3
<1>6. CASE Settle(d)
  BY <1>6, <1>0 DEF Settle, RowStep, TokenStep, Active
<1>7. CASE SettleFails(d)
  BY <1>7, <1>0 DEF SettleFails, RowStep, TokenStep, Active
<1>8. QED  BY <1>1, <1>2, <1>3, <1>4, <1>5, <1>6, <1>7 DEF DriverNext

LEMMA RowStepWorker ==
    ASSUME TypeOK, NEW w \in Workers, WorkerNext(w)
    PROVE  RowStep /\ TokenStep
<1>. /\ row \in [Runs -> Row] /\ nextToken \in Nat \ {0}
     /\ w \in Drivers /\ drv \in [Drivers -> Driver] /\ drv[w] \in Driver
     /\ \A e \in Drivers : drv[e].pc \in Active => drv[e].run \in Runs
     /\ \A v \in Workers : rel[v].pc # "none" => rel[v].run \in Runs
  BY DEF TypeOK, Drivers
<1>0. /\ Idle.pc = "idle"
      /\ [Idle EXCEPT !.pc = "exited"].pc = "exited"
  BY IdleType, ExitedType
<1>1. ASSUME NEW r \in Runs, Claim(w, r)
      PROVE  RowStep /\ TokenStep
  <2>1. RowStep
    BY <1>1, ClaimStarts DEF Claim
  <2>2. Claimed(w, r, "claimed").token = nextToken
    BY DEF Claimed
  <2>3. QED  BY <1>1, <2>1, <2>2 DEF Claim, TokenStep
<1>2. CASE ClaimsNothing(w)
  BY <1>2 DEF ClaimsNothing, vars, RowStep, TokenStep
<1>3. CASE Launch(w)
  BY <1>3 DEF Launch, RowStep, TokenStep, Driver, Active
<1>4. CASE HandBack(w)
  <2>1. drv[w].run \in Runs
    BY <1>4 DEF HandBack, Active
  <2>2. RowStep
    BY <1>4, <2>1, ReleaseEnds DEF HandBack, RowStep, Owns
  <2>3. QED  BY <1>4, <1>0, <2>2 DEF HandBack, TokenStep, Active
<1>5. CASE HandBackFails(w)
  BY <1>5, <1>0 DEF HandBackFails, RowStep, TokenStep, Active
<1>6. CASE LoopEnds(w)
  BY <1>6 DEF LoopEnds, RowStep, TokenStep, Driver, Active
<1>7. CASE Stop(w)
  BY <1>7 DEF Stop, RowStep, TokenStep, Driver
<1>8. CASE WorkerCrash(w)
  BY <1>8, <1>0 DEF WorkerCrash, RowStep, TokenStep, Active
<1>9. CASE Restart(w)
  BY <1>9, <1>0 DEF Restart, RowStep, TokenStep, Active
<1>10. CASE ReleaseInFlight(w)
  <2>1. drv[w].run \in Runs
    BY <1>10 DEF ReleaseInFlight, InFlight, Active
  <2>2. QED  BY <1>10, <2>1, RenewFlags DEF ReleaseInFlight, Owns, RowStep, TokenStep
<1>11. CASE ReleaseUnlocks(w)
  BY <1>11 DEF ReleaseUnlocks, RowStep, TokenStep
<1>12. CASE ReleaseRun(w)
  <2>1. rel[w].run \in Runs
    BY <1>12 DEF ReleaseRun
  <2>2. QED  BY <1>12, <2>1, ReleaseEnds DEF ReleaseRun, Owns, RowStep, TokenStep
<1>13. CASE ReleaseFails(w)
  BY <1>13 DEF ReleaseFails, RowStep, TokenStep
<1>14. QED  BY <1>1, <1>2, <1>3, <1>4, <1>5, <1>6, <1>7, <1>8, <1>9, <1>10,
               <1>11, <1>12, <1>13 DEF WorkerNext

LEMMA RowStepInline ==
    ASSUME TypeOK, NEW i \in Inline, InlineNext(i)
    PROVE  RowStep /\ TokenStep
<1>. /\ row \in [Runs -> Row] /\ i \in Drivers /\ drv \in [Drivers -> Driver]
  BY DEF TypeOK, Drivers
<1>1. ASSUME NEW r \in Runs, ClaimById(i, r)
      PROVE  RowStep /\ TokenStep
  <2>1. RowStep
    BY <1>1, ClaimStarts DEF ClaimById
  <2>2. Claimed(i, r, "turn").token = nextToken
    BY DEF Claimed
  <2>3. QED  BY <1>1, <2>1, <2>2 DEF ClaimById, TokenStep
<1>2. CASE InlineCrash(i)
  BY <1>2, IdleType DEF InlineCrash, RowStep, TokenStep, Active
<1>3. QED  BY <1>1, <1>2 DEF InlineNext

LEMMA RowStepSweep ==
    ASSUME TypeOK, NEW s \in Sweeps, SweepNext(s)
    PROVE  RowStep /\ TokenStep
<1>. row \in [Runs -> Row] /\ sweep[s] \in Sweep
  BY DEF TypeOK
<1>1. TokenStep
  BY DEF SweepNext, SweepReads, SweepRetires, SweepSettles, SweepUnlocks, SweepEnds,
         SweepCrash, TokenStep
<1>2. ASSUME NEW c \in sweep[s].todo, SweepRetires(s, c)
      PROVE  RowStep
  <2>1. c.run \in Runs
    BY DEF Sweep, Copy
  <2>2. QED  BY <1>2, <2>1, RetireEnds DEF SweepRetires, ReapFence, Owns, RowStep
<1>3. CASE SweepReads(s) \/ SweepSettles(s) \/ SweepEnds(s) \/ SweepCrash(s)
           \/ \E x \in Sessions : SweepUnlocks(s, x)
  BY <1>1, <1>3 DEF SweepReads, SweepSettles, SweepUnlocks, SweepEnds, SweepCrash, RowStep
<1>4. QED  BY <1>1, <1>2, <1>3 DEF SweepNext

\* Every step of the queue does one of four things to one row.
LEMMA StepOfRows == TypeOK /\ FenceInv /\ [Next]_vars => RowStep /\ TokenStep
<1>. SUFFICES ASSUME TypeOK, FenceInv, [Next]_vars PROVE RowStep /\ TokenStep
  OBVIOUS
<1>1. CASE StoreNext
  BY <1>1, RowStepStore DEF StoreNext
<1>2. ASSUME NEW d \in Drivers, DriverNext(d) PROVE RowStep /\ TokenStep
  BY <1>2, RowStepDriver
<1>3. ASSUME NEW w \in Workers, WorkerNext(w) PROVE RowStep /\ TokenStep
  BY <1>3, RowStepWorker
<1>4. ASSUME NEW i \in Inline, InlineNext(i) PROVE RowStep /\ TokenStep
  BY <1>4, RowStepInline
<1>5. ASSUME NEW s \in Sweeps, SweepNext(s) PROVE RowStep /\ TokenStep
  BY <1>5, RowStepSweep
<1>6. CASE UNCHANGED vars
  BY <1>6 DEF vars, RowStep, TokenStep
<1>7. QED  BY <1>1, <1>2, <1>3, <1>4, <1>5, <1>6 DEF Next

LEMMA FenceInit == Init => FenceInv
BY IdleType DEF Init, FenceInv, NoRow, Active

LEMMA FenceNext == TypeOK /\ FenceInv /\ [Next]_vars => FenceInv'
<1>. SUFFICES ASSUME TypeOK, FenceInv, [Next]_vars PROVE FenceInv'
  OBVIOUS
<1>1. RowStep /\ TokenStep /\ nextToken # 0
  BY StepOfRows DEF TypeOK
<1>2. \A r \in Runs : row'[r].token # 0 <=> row'[r].status = "running"
  BY <1>1 DEF FenceInv, RowStep, Submitted, Flagged, Started, Ended
<1>3. \A d \in Drivers : drv'[d].pc \in Active => drv'[d].token # 0
  BY <1>1 DEF FenceInv, TokenStep
<1>4. QED  BY <1>2, <1>3 DEF FenceInv

\* A row carries a lease token exactly while it is running, whoever claims,
\* completes, fails, hands back or reaps it.
THEOREM LeaseFence == Spec => []FenceInv
<1>1. TypeOK /\ FenceInv /\ [Next]_vars => FenceInv'
  BY FenceNext
<1>2. QED  BY FenceInit, TypeCorrect, <1>1, PTL DEF Spec

\* The turns of a session are serial, for any number of runs, sessions,
\* workers, requests and sweeps.
THEOREM SerialSessions == Spec => []OneRunningPerSession
<1>1. Init => OneRunningPerSession
  BY DEF Init, OneRunningPerSession, NoRow
<1>2. ASSUME TypeOK, FenceInv, OneRunningPerSession, [Next]_vars
      PROVE  OneRunningPerSession'
  <2>1. RowStep
    BY <1>2, StepOfRows
  <2>2. QED  BY <1>2, <2>1 DEF RowStep, Submitted, Flagged, Started, Ended, Claimable,
                               OneRunningPerSession
<1>3. QED  BY <1>1, <1>2, TypeCorrect, LeaseFence, PTL DEF Spec

\* A run that is done or failed never changes again: no late completion,
\* failure, hand-back, heartbeat or reap of an earlier lease reaches its row.
THEOREM TerminalStays == Spec => TerminalIsFinal
<1>1. ASSUME TypeOK, FenceInv, [Next]_vars
      PROVE  \A r \in Runs : isTerminal(row[r].status) => row'[r] = row[r]
  <2>1. RowStep
    BY <1>1, StepOfRows
  <2>2. QED  BY <2>1 DEF RowStep, Submitted, Flagged, Started, Ended, Claimable, isTerminal
<1>2. QED  BY <1>1, TypeCorrect, LeaseFence, PTL DEF Spec, TerminalIsFinal
=============================================================================
