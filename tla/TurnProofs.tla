----------------------------- MODULE TurnProofs -----------------------------
(***************************************************************************)
(* Proofs about TurnExecution, for every set of runs, sessions, drivers    *)
(* and sweeps: turns implement the run queue, and the session log is       *)
(* fenced by the session lease.                                            *)
(***************************************************************************)
EXTENDS TurnExecution, RunBudgetProofs

-----------------------------------------------------------------------------
(***************************************************************************)
(* Turns implement the queue: whatever is proved of RunQueue holds of it   *)
(* with the session store added.                                           *)
(***************************************************************************)
LEMMA TurnEndsInQueue ==
    ASSUME turn \in [Drivers -> Turn], NEW d \in Drivers, TurnEnds(d)
    PROVE  DriverNext(d)
<1>1. turn[d].retry \in BOOLEAN
  BY DEF Turn
<1>2. QED  BY <1>1 DEF TurnEnds, DriverNext

LEMMA QueueOnlyInQueue == QueueOnly => Next
<1>1. CASE StoreNext
  BY <1>1 DEF Next
<1>2. ASSUME NEW d \in Drivers, Beat(d) \/ BeatFails(d) \/ FailWrite(d) \/ Settle(d) \/ SettleFails(d)
      PROVE  Next
  BY <1>2 DEF Next, DriverNext
<1>3. ASSUME NEW w \in Workers,
             \/ \E r \in Runs : Claim(w, r)
             \/ ClaimsNothing(w) \/ HandBack(w) \/ HandBackFails(w)
             \/ LoopEnds(w) \/ Stop(w) \/ Restart(w)
             \/ ReleaseInFlight(w) \/ ReleaseRun(w) \/ ReleaseFails(w)
      PROVE  Next
  <2>1. WorkerNext(w)
    BY <1>3 DEF WorkerNext
  <2>2. QED  BY <2>1 DEF Next
<1>4. ASSUME NEW s \in Sweeps,
             \/ SweepReads(s) \/ SweepSettles(s) \/ SweepEnds(s) \/ SweepCrash(s)
             \/ \E c \in sweep[s].todo : SweepRetires(s, c)
      PROVE  Next
  BY <1>4 DEF Next, SweepNext
<1>5. QED  BY <1>1, <1>2, <1>3, <1>4 DEF QueueOnly

\* A step of a turn that the queue does not notice.
TurnQuiet(d) ==
    \/ TurnLocks(d) \/ TurnAppends(d) \/ TurnCloses(d) \/ TurnDeclines(d)
    \/ TurnRefusesEarly(d) \/ TurnUnlocks(d) \/ TurnUnlockFails(d)
    \/ \E retry \in BOOLEAN : TurnErrs(d, retry) \/ TurnErrsEarly(d, retry)

LEMMA QuietUnseen == ASSUME NEW d, TurnQuiet(d) PROVE UNCHANGED vars
BY DEF TurnQuiet, TurnLocks, TurnAppends, TurnCloses, TurnDeclines, TurnRefusesEarly,
       TurnUnlocks, TurnUnlockFails, TurnErrs, TurnErrsEarly

\* What shares the lease with the turns, and time.
SessionQuiet(x) == LockExpires(x) \/ CompactionLocks(x) \/ CompactionWrites(x) \/ CompactionEnds(x)

LEMMA SessionUnseen == ASSUME NEW x, SessionQuiet(x) PROVE UNCHANGED vars
BY DEF SessionQuiet, LockExpires, CompactionLocks, CompactionWrites, CompactionEnds

\* The kinds of step there are.
LEMMA TurnCases ==
    ASSUME TurnNext
    PROVE  \/ QueueOnly
           \/ \E d \in Drivers : TurnStarts(d) \/ TurnQuiet(d) \/ TurnEnds(d) \/ ProcessDies(d)
           \/ \E w \in Workers : Drain(w)
           \/ \E s \in Sweeps, x \in Sessions : Unstrand(s, x)
           \/ \E x \in Sessions : SessionQuiet(x)
BY DEF TurnNext, TurnQuiet, SessionQuiet

LEMMA TurnStepsQueue ==
    ASSUME turn \in [Drivers -> Turn], [TurnNext]_turnVars
    PROVE  [Next]_vars
<1>1. CASE UNCHANGED turnVars
  BY <1>1 DEF turnVars
<1>2. CASE QueueOnly
  BY <1>2, QueueOnlyInQueue
<1>3. ASSUME NEW d \in Drivers, TurnStarts(d) \/ ProcessDies(d)
      PROVE  Next
  <2>1. \/ d \in Workers /\ (Launch(d) \/ WorkerCrash(d))
        \/ d \in Inline /\ (InlineCrash(d) \/ \E r \in Runs : ClaimById(d, r))
    BY <1>3 DEF TurnStarts, ProcessDies
  <2>2. \/ d \in Workers /\ WorkerNext(d)
        \/ d \in Inline /\ InlineNext(d)
    BY <2>1 DEF WorkerNext, InlineNext
  <2>3. QED  BY <2>2 DEF Next
<1>4. ASSUME NEW d \in Drivers, TurnQuiet(d) PROVE UNCHANGED vars
  BY <1>4, QuietUnseen
<1>5. ASSUME NEW d \in Drivers, TurnEnds(d) PROVE Next
  BY <1>5, TurnEndsInQueue DEF Next
<1>6. ASSUME NEW w \in Workers, Drain(w) PROVE Next
  BY <1>6 DEF Drain, WorkerNext, Next
<1>7. ASSUME NEW s \in Sweeps, NEW x \in Sessions, Unstrand(s, x) PROVE Next
  BY <1>7 DEF Unstrand, SweepNext, Next
<1>8. ASSUME NEW x \in Sessions, SessionQuiet(x) PROVE UNCHANGED vars
  BY <1>8, SessionUnseen
<1>9. QED  BY <1>1, <1>2, <1>3, <1>4, <1>5, <1>6, <1>7, <1>8, TurnCases

-----------------------------------------------------------------------------
(***************************************************************************)
(* What a step may do to the lease and the log of one session.             *)
(***************************************************************************)
Entry == Nat \X (Runs \cup {NoRun}) \X Nat

Untouched(x) == lock'[x].token = lock[x].token /\ log'[x] = log[x]

\* A lease is taken, by whoever finds it free.
Taken(x) == /\ lock'[x].token = nextLock /\ nextLock' = nextLock + 1
            /\ log'[x] = log[x]

\* A lease is given up, or taken away by force.
Left(x) == lock'[x].token = 0 /\ log'[x] = log[x] /\ nextLock' = nextLock

\* The holder of the lease writes.
Written(x) == /\ lock[x].token # 0 /\ lock'[x].token = lock[x].token
              /\ nextLock' = nextLock
              /\ \E e \in Entry : e[1] = lock[x].token /\ log'[x] = Append(log[x], e)

SessionStep == \/ nextLock' = nextLock /\ \A x \in Sessions : Untouched(x)
               \/ \E x \in Sessions : /\ \A y \in Sessions : y # x => Untouched(y)
                                      /\ Taken(x) \/ Left(x) \/ Written(x)

StoreType == /\ lock \in [Sessions -> Lock]
             /\ log \in [Sessions -> Seq(Entry)]
             /\ nextLock \in Nat \ {0}

LEMMA TakeStep ==
    ASSUME StoreType, NEW x \in Sessions, NEW r \in Runs \cup {NoRun}, NEW n \in Nat,
           TakeLock(x, r, n), log' = log
    PROVE  StoreType' /\ SessionStep
<1>1. lock' \in [Sessions -> Lock]
  BY DEF StoreType, TakeLock, Lock
<1>2. SessionStep
  BY DEF StoreType, TakeLock, SessionStep, Untouched, Taken
<1>3. QED  BY <1>1, <1>2 DEF StoreType, TakeLock

LEMMA UnlockStep ==
    ASSUME StoreType, NEW x \in Sessions, NEW token,
           \/ lock' = Unlocked(x, token)
           \/ ForceReleaseLease(x),
           log' = log, nextLock' = nextLock
    PROVE  StoreType' /\ SessionStep
<1>1. NoLock \in Lock /\ NoLock.token = 0
  BY DEF NoLock, Lock
<1>2. lock' \in [Sessions -> Lock]
  BY <1>1 DEF StoreType, Unlocked, ForceReleaseLease
<1>3. SessionStep
  BY <1>1 DEF StoreType, Unlocked, ForceReleaseLease, SessionStep, Untouched, Left
<1>4. QED  BY <1>2, <1>3 DEF StoreType

LEMMA WriteStep ==
    ASSUME StoreType, NEW x \in Sessions, NEW token, NEW r \in Runs \cup {NoRun}, NEW n \in Nat,
           HoldsLock(x, token), token # 0, Append1(x, token, r, n), nextLock' = nextLock
    PROVE  StoreType' /\ SessionStep
<1>1. lock' \in [Sessions -> Lock]
  BY DEF StoreType, Append1, Lock
<1>2. \A y \in Sessions : lock'[y].token = lock[y].token
  BY DEF StoreType, Append1, Lock
<1>3. <<token, r, n>> \in Entry /\ <<token, r, n>>[1] = lock[x].token
  BY DEF StoreType, Lock, HoldsLock, Entry
<1>4. log[x] \in Seq(Entry) /\ Append(log[x], <<token, r, n>>) \in Seq(Entry)
  BY <1>3 DEF StoreType
<1>5. log' \in [Sessions -> Seq(Entry)]
  BY <1>4 DEF StoreType, Append1
<1>6. /\ log'[x] = Append(log[x], <<token, r, n>>)
      /\ \A y \in Sessions : y # x => log'[y] = log[y]
  BY DEF StoreType, Append1
<1>7. Written(x)
  BY <1>2, <1>3, <1>6 DEF Written, HoldsLock
<1>8. SessionStep
  BY <1>2, <1>6, <1>7 DEF SessionStep, Untouched
<1>9. QED  BY <1>1, <1>5, <1>8 DEF StoreType

-----------------------------------------------------------------------------
(***************************************************************************)
(* The type invariant, and SessionStep for every action.                   *)
(***************************************************************************)
TurnsOK == /\ turn \in [Drivers -> Turn]
           /\ \A d \in Drivers : turn[d].step \in {"open", "wrote"} => turn[d].token # 0

RestOK == comp \in [Sessions -> Nat] /\ compacted \in Nat
          /\ result \in [Runs -> {"none", "ok", "refused"}]

LEMMA TurnTypeParts == TurnTypeOK <=> StoreType /\ TurnsOK /\ RestOK
BY DEF TurnTypeOK, StoreType, TurnsOK, RestOK, Entry

LEMMA TurnTypePartsNext == StoreType' /\ TurnsOK' /\ RestOK' => TurnTypeOK'
BY DEF TurnTypeOK, StoreType, TurnsOK, RestOK, Entry

LEMMA SameStore ==
    ASSUME StoreType, UNCHANGED <<lock, log, nextLock>>
    PROVE  StoreType' /\ SessionStep
BY DEF StoreType, SessionStep, Untouched

LEMMA ForgetOK ==
    ASSUME TurnsOK, NEW d \in Drivers, Forget(d)
    PROVE  TurnsOK'
BY DEF TurnsOK, Forget, NoTurn, Turn

\* The driver of a turn works on a run of some session.
LEMMA WorkingRun ==
    ASSUME TypeOK, NEW d \in Drivers, Working(d)
    PROVE  drv[d].run \in Runs /\ drv[d].attempts \in Nat /\ SessionAt(d) \in Sessions
<1>1. drv[d].run \in Runs /\ drv[d] \in Driver
  BY DEF TypeOK, Working, Active
<1>2. QED  BY <1>1, RunsAssumption DEF SessionAt, Driver

LEMMA TurnTypeQuiet ==
    ASSUME TypeOK, TurnTypeOK, NEW d \in Drivers, TurnQuiet(d)
    PROVE  TurnTypeOK' /\ SessionStep
<1>. DEFINE x == SessionAt(d)
<1>. /\ StoreType /\ TurnsOK /\ RestOK
     /\ turn \in [Drivers -> Turn] /\ turn[d] \in Turn /\ nextLock \in Nat \ {0}
  BY TurnTypeParts DEF TurnsOK, StoreType
<1>w. Working(d) /\ UNCHANGED <<comp, compacted, result>>
  BY DEF TurnQuiet, TurnLocks, TurnAppends, TurnCloses, TurnDeclines, TurnRefusesEarly,
         TurnUnlocks, TurnUnlockFails, TurnErrs, TurnErrsEarly
<1>r. drv[d].run \in Runs /\ drv[d].attempts \in Nat /\ x \in Sessions
  BY <1>w, WorkingRun
<1>c. RestOK'
  BY <1>w DEF RestOK
<1>1. CASE TurnLocks(d)
  <2>1. CASE LockFree(x)
    <3>1. StoreType' /\ SessionStep
      BY <1>1, <1>r, <2>1, TakeStep DEF TurnLocks
    <3>2. TurnsOK'
      BY <1>1, <2>1 DEF TurnLocks, TurnsOK, Turn
    <3>3. QED  BY <1>c, <3>1, <3>2, TurnTypePartsNext
  <2>2. CASE ~LockFree(x)
    <3>1. StoreType' /\ SessionStep
      BY <1>1, <2>2, SameStore DEF TurnLocks
    <3>2. TurnsOK'
      BY <1>1, <2>2 DEF TurnLocks, TurnsOK, Turn
    <3>3. QED  BY <1>c, <3>1, <3>2, TurnTypePartsNext
  <2>3. QED  BY <2>1, <2>2
<1>2. CASE TurnAppends(d)
  <2>1. turn[d].token # 0
    BY <1>2 DEF TurnAppends, TurnsOK
  <2>2. StoreType' /\ SessionStep
    BY <1>2, <1>r, <2>1, WriteStep DEF TurnAppends
  <2>3. TurnsOK'
    BY <1>2, <2>1 DEF TurnAppends, TurnsOK, Turn
  <2>4. QED  BY <1>c, <2>2, <2>3, TurnTypePartsNext
<1>3. CASE TurnCloses(d) \/ TurnDeclines(d) \/ TurnUnlocks(d)
  <2>1. StoreType' /\ SessionStep
    BY <1>3, <1>r, UnlockStep DEF TurnCloses, TurnDeclines, TurnUnlocks
  <2>2. TurnsOK'
    BY <1>3 DEF TurnCloses, TurnDeclines, TurnUnlocks, TurnsOK, Turn
  <2>3. QED  BY <1>c, <2>1, <2>2, TurnTypePartsNext
<1>4. CASE TurnRefusesEarly(d) \/ TurnUnlockFails(d) \/ \E retry \in BOOLEAN : TurnErrsEarly(d, retry)
  <2>1. StoreType' /\ SessionStep
    BY <1>4, SameStore DEF TurnRefusesEarly, TurnUnlockFails, TurnErrsEarly
  <2>2. TurnsOK'
    BY <1>4 DEF TurnRefusesEarly, TurnUnlockFails, TurnErrsEarly, TurnsOK, Turn
  <2>3. QED  BY <1>c, <2>1, <2>2, TurnTypePartsNext
<1>5. ASSUME NEW retry \in BOOLEAN, TurnErrs(d, retry)
      PROVE  TurnTypeOK' /\ SessionStep
  <2>1. turn[d].token # 0 /\ nextLock' = nextLock
    BY <1>5 DEF TurnErrs, TurnsOK
  <2>2. \/ HoldsLock(x, turn[d].token) /\ Append1(x, turn[d].token, drv[d].run, drv[d].attempts)
        \/ UNCHANGED <<log, lock>>
    BY <1>5 DEF TurnErrs
  <2>3. StoreType' /\ SessionStep
    BY <1>r, <2>1, <2>2, WriteStep, SameStore
  <2>4. TurnsOK'
    BY <1>5 DEF TurnErrs, TurnsOK, Turn
  <2>5. QED  BY <1>c, <2>3, <2>4, TurnTypePartsNext
<1>6. QED  BY <1>1, <1>2, <1>3, <1>4, <1>5 DEF TurnQuiet

LEMMA TurnTypeSession ==
    ASSUME TurnTypeOK, NEW x \in Sessions, SessionQuiet(x)
    PROVE  TurnTypeOK' /\ SessionStep
<1>. /\ StoreType /\ TurnsOK /\ RestOK
     /\ lock \in [Sessions -> Lock] /\ nextLock \in Nat \ {0}
     /\ comp \in [Sessions -> Nat] /\ compacted \in Nat
     /\ result \in [Runs -> {"none", "ok", "refused"}]
  BY TurnTypeParts DEF RestOK, StoreType
<1>1. TurnsOK'
  BY DEF SessionQuiet, LockExpires, CompactionLocks, CompactionWrites, CompactionEnds, TurnsOK
<1>2. RestOK'
  <2>1. result' = result
    BY DEF SessionQuiet, LockExpires, CompactionLocks, CompactionWrites, CompactionEnds
  <2>2. comp' \in [Sessions -> Nat] /\ compacted' \in Nat
    BY DEF SessionQuiet, LockExpires, CompactionLocks, CompactionWrites, CompactionEnds
  <2>3. QED  BY <2>1, <2>2 DEF RestOK
<1>3. CASE LockExpires(x)
  <2>1. StoreType'
    BY <1>3 DEF LockExpires, StoreType, Lock
  <2>2. SessionStep
    BY <1>3 DEF LockExpires, StoreType, Lock, SessionStep, Untouched
  <2>3. QED  BY <1>1, <1>2, <2>1, <2>2, TurnTypePartsNext
<1>4. CASE CompactionLocks(x)
  <2>1. StoreType' /\ SessionStep
    BY <1>4, TakeStep DEF CompactionLocks
  <2>2. QED  BY <1>1, <1>2, <2>1, TurnTypePartsNext
<1>5. CASE CompactionWrites(x)
  <2>1. StoreType' /\ SessionStep
    BY <1>5, WriteStep DEF CompactionWrites
  <2>2. QED  BY <1>1, <1>2, <2>1, TurnTypePartsNext
<1>6. CASE CompactionEnds(x)
  <2>1. StoreType' /\ SessionStep
    BY <1>6, UnlockStep DEF CompactionEnds
  <2>2. QED  BY <1>1, <1>2, <2>1, TurnTypePartsNext
<1>7. QED  BY <1>3, <1>4, <1>5, <1>6 DEF SessionQuiet

LEMMA TurnTypeQueue ==
    ASSUME TypeOK, TurnTypeOK,
           \/ QueueOnly
           \/ \E d \in Drivers : TurnStarts(d) \/ TurnEnds(d) \/ ProcessDies(d)
           \/ \E w \in Workers : Drain(w)
           \/ \E s \in Sweeps, x \in Sessions : Unstrand(s, x)
    PROVE  TurnTypeOK' /\ SessionStep
<1>. StoreType /\ TurnsOK /\ RestOK
  BY TurnTypeParts
<1>1. CASE QueueOnly
  <2>1. UNCHANGED sessionVars
    BY <1>1 DEF QueueOnly
  <2>2. StoreType' /\ SessionStep
    BY <2>1, SameStore DEF sessionVars
  <2>3. QED  BY <2>1, <2>2, TurnTypePartsNext DEF sessionVars, TurnsOK, RestOK
<1>2. ASSUME NEW d \in Drivers, TurnStarts(d) \/ ProcessDies(d)
      PROVE  TurnTypeOK' /\ SessionStep
  <2>1. Forget(d) /\ UNCHANGED <<lock, log, comp, nextLock, compacted, result>>
    BY <1>2 DEF TurnStarts, ProcessDies
  <2>2. QED  BY <2>1, ForgetOK, SameStore, TurnTypePartsNext DEF RestOK
<1>3. ASSUME NEW d \in Drivers, TurnEnds(d)
      PROVE  TurnTypeOK' /\ SessionStep
  <2>1. Forget(d) /\ UNCHANGED <<lock, log, comp, nextLock, compacted>>
    BY <1>3 DEF TurnEnds
  <2>2. result' \in [Runs -> {"none", "ok", "refused"}]
    BY <1>3 DEF TurnEnds, RestOK
  <2>3. QED  BY <2>1, <2>2, ForgetOK, SameStore, TurnTypePartsNext DEF RestOK
<1>4. ASSUME NEW w \in Workers, Drain(w)
      PROVE  TurnTypeOK' /\ SessionStep
  <2>1. SessionOf[rel[w].run] \in Sessions
    BY <1>4, RunsAssumption DEF Drain, ReleaseUnlocks, TypeOK
  <2>2. StoreType' /\ SessionStep
    BY <1>4, <2>1, UnlockStep DEF Drain
  <2>3. QED  BY <1>4, <2>2, TurnTypePartsNext DEF Drain, TurnsOK, RestOK
<1>5. ASSUME NEW s \in Sweeps, NEW x \in Sessions, Unstrand(s, x)
      PROVE  TurnTypeOK' /\ SessionStep
  <2>1. StoreType' /\ SessionStep
    BY <1>5, UnlockStep DEF Unstrand
  <2>2. QED  BY <1>5, <2>1, TurnTypePartsNext DEF Unstrand, TurnsOK, RestOK
<1>6. QED  BY <1>1, <1>2, <1>3, <1>4, <1>5

\* Every step keeps the types and does one of three things to one session.
LEMMA TurnTypeNext ==
    ASSUME TypeOK, TurnTypeOK, [TurnNext]_turnVars
    PROVE  TurnTypeOK' /\ SessionStep
<1>1. CASE UNCHANGED turnVars
  <2>1. SessionStep
    BY <1>1 DEF turnVars, sessionVars, SessionStep, Untouched
  <2>2. QED  BY <1>1, <2>1 DEF turnVars, sessionVars, TurnTypeOK
<1>2. QED  BY <1>1, TurnCases, TurnTypeQuiet, TurnTypeSession, TurnTypeQueue

LEMMA TurnTypeInit == TurnInit => TypeOK /\ TurnTypeOK
<1>. SUFFICES ASSUME TurnInit PROVE TypeOK /\ TurnTypeOK
  OBVIOUS
<1>1. TypeOK
  BY TypeInit DEF TurnInit
<1>2. NoLock \in Lock /\ NoTurn \in Turn /\ NoTurn.step = "none"
  BY DEF NoLock, Lock, NoTurn, Turn
<1>3. QED  BY <1>1, <1>2 DEF TurnInit, TurnTypeOK

\* Every reachable state of the queue and the session store is well typed.
THEOREM TurnTypeCorrect == TurnSpec => [](TypeOK /\ TurnTypeOK)
<1>1. TypeOK /\ TurnTypeOK /\ [TurnNext]_turnVars => TypeOK' /\ TurnTypeOK'
  BY TurnTypeNext, TurnStepsQueue, TypeNext DEF TurnTypeOK
<1>2. QED  BY TurnTypeInit, <1>1, PTL DEF TurnSpec

\* Turns with their session part are an implementation of the run queue: each
\* step of a turn is a step of the queue, or one that the queue does not see.
THEOREM TurnsImplementQueue == TurnSpec => Spec
<1>1. TurnInit => Init
  BY DEF TurnInit
<1>2. TurnTypeOK /\ [TurnNext]_turnVars => [Next]_vars
  BY TurnStepsQueue DEF TurnTypeOK
<1>3. QED  BY <1>1, <1>2, TurnTypeCorrect, PTL DEF TurnSpec, Spec

-----------------------------------------------------------------------------
(***************************************************************************)
(* The fence of the session log.  Tokens are handed out in growing order   *)
(* and only the holder of the lease writes, so it is enough that no entry  *)
(* is younger than the lease of its session.                               *)
(***************************************************************************)
LogBounded == \A x \in Sessions :
                /\ lock[x].token < nextLock
                /\ \A i \in DOMAIN log[x] :
                     /\ log[x][i][1] < nextLock
                     /\ lock[x].token # 0 => log[x][i][1] <= lock[x].token

LEMMA AppendEntries ==
    ASSUME NEW s \in Seq(Entry), NEW e \in Entry
    PROVE  \A i \in DOMAIN Append(s, e) : \/ i \in DOMAIN s /\ Append(s, e)[i] = s[i]
                                          \/ i = Len(s) + 1 /\ Append(s, e)[i] = e
OBVIOUS

LEMMA EntryToken == ASSUME NEW s \in Seq(Entry), NEW i \in DOMAIN s PROVE s[i][1] \in Nat
<1>1. s[i] \in Entry
  OBVIOUS
<1>2. QED  BY <1>1 DEF Entry

LEMMA FenceStep ==
    ASSUME StoreType, StoreType', SessionStep, LogBounded, LogFenced
    PROVE  LogBounded' /\ LogFenced'
<1>. DEFINE Fenced(x) ==
       /\ lock[x].token < nextLock
       /\ \A i \in DOMAIN log[x] : /\ log[x][i][1] < nextLock
                                   /\ lock[x].token # 0 => log[x][i][1] <= lock[x].token
       /\ \A i, j \in DOMAIN log[x] : i < j => log[x][i][1] <= log[x][j][1]
<1>1. \A x \in Sessions : Fenced(x)
  BY DEF LogBounded, LogFenced
<1>2. /\ nextLock \in Nat \ {0} /\ nextLock' \in {nextLock, nextLock + 1}
      /\ \A x \in Sessions : lock[x].token \in Nat /\ lock'[x].token \in Nat
      /\ \A x \in Sessions : log[x] \in Seq(Entry) /\ log'[x] \in Seq(Entry)
  BY DEF StoreType, Lock, SessionStep, Taken, Left, Written
<1>3. ASSUME NEW x \in Sessions PROVE Fenced(x)'
  <2>1. \A i \in DOMAIN log[x] : log[x][i][1] \in Nat
    BY <1>2, EntryToken
  <2>2. CASE Untouched(x)
    BY <1>1, <1>2, <2>1, <2>2 DEF Untouched
  <2>3. CASE Taken(x)
    BY <1>1, <1>2, <2>1, <2>3 DEF Taken
  <2>4. CASE Left(x)
    BY <1>1, <1>2, <2>1, <2>4 DEF Left
  <2>5. CASE Written(x)
    <3>1. PICK e \in Entry : e[1] = lock[x].token /\ log'[x] = Append(log[x], e)
      BY <2>5 DEF Written
    <3>2. \A i \in DOMAIN log'[x] : \/ i \in DOMAIN log[x] /\ log'[x][i] = log[x][i]
                                    \/ i = Len(log[x]) + 1 /\ log'[x][i] = e
      BY <1>2, <3>1, AppendEntries
    <3>3. \A i \in DOMAIN log[x] : i \in Nat /\ i < Len(log[x]) + 1
      BY <1>2
    <3>4. /\ lock[x].token # 0 /\ lock'[x].token = lock[x].token /\ nextLock' = nextLock
      BY <2>5 DEF Written
    <3>5. \A i \in DOMAIN log'[x] : log'[x][i][1] < nextLock /\ log'[x][i][1] <= lock[x].token
      BY <1>1, <1>2, <2>1, <3>1, <3>2, <3>4
    <3>6. ASSUME NEW i \in DOMAIN log'[x], NEW j \in DOMAIN log'[x], i < j
          PROVE  log'[x][i][1] <= log'[x][j][1]
      <4>1. CASE j \in DOMAIN log[x] /\ log'[x][j] = log[x][j]
        <5>1. i \in DOMAIN log[x] /\ log'[x][i] = log[x][i]
          BY <3>2, <3>3, <3>6, <4>1
        <5>2. QED  BY <1>1, <3>6, <4>1, <5>1
      <4>2. CASE log'[x][j] = e
        BY <3>1, <3>5, <4>2
      <4>3. QED  BY <3>2, <4>1, <4>2
    <3>7. QED  BY <1>1, <3>4, <3>5, <3>6
  <2>6. QED  BY <2>2, <2>3, <2>4, <2>5 DEF SessionStep
<1>4. QED  BY <1>3 DEF LogBounded, LogFenced

\* Once a later lease wrote to a session, no earlier holder does, for any
\* number of turns, compactions, reaps and shutdowns.
THEOREM SessionLogFenced == TurnSpec => []LogFenced
<1>1. TurnInit => LogBounded /\ LogFenced
  BY DEF TurnInit, LogBounded, LogFenced, NoLock
<1>2. ASSUME TypeOK, TurnTypeOK, LogBounded, LogFenced, [TurnNext]_turnVars
      PROVE  LogBounded' /\ LogFenced'
  <2>1. TurnTypeOK' /\ SessionStep
    BY <1>2, TurnTypeNext
  <2>2. StoreType /\ StoreType'
    BY <1>2, <2>1 DEF TurnTypeOK, StoreType, Entry
  <2>3. QED  BY <1>2, <2>1, <2>2, FenceStep
<1>3. QED  BY <1>1, <1>2, TurnTypeCorrect, PTL DEF TurnSpec

-----------------------------------------------------------------------------
(***************************************************************************)
(* A run reported done with a reply is in the log.  The attempt wrote, or  *)
(* its third missed heartbeat cancelled it; but a missed heartbeat means   *)
(* that the lease of the run is gone, and complete() then changes nothing. *)
(***************************************************************************)
Recorded(r, n) == \E i \in DOMAIN log[SessionOf[r]] :
                     log[SessionOf[r]][i][2] = r /\ log[SessionOf[r]][i][3] = n

LostInv == \A d \in Drivers :
             drv[d].pc \in Active /\ drv[d].lost > 0 => row[drv[d].run].token # drv[d].token

WroteInv == \A d \in Drivers : Working(d) =>
              /\ turn[d].step = "wrote" => Recorded(drv[d].run, drv[d].attempts)
              /\ turn[d].step = "over" => \/ Recorded(drv[d].run, drv[d].attempts)
                                          \/ drv[d].lost = LEASE_LOST_CONSECUTIVE

DoneInv == \A r \in Runs : result[r] = "ok" =>
             row[r].status = "done" /\ Recorded(r, row[r].attempts)

RecordInv == LostInv /\ WroteInv /\ DoneInv

LEMMA LogGrows ==
    ASSUME StoreType, SessionStep, NEW r \in Runs, NEW n, Recorded(r, n)
    PROVE  Recorded(r, n)'
<1>. DEFINE x == SessionOf[r]
<1>1. x \in Sessions /\ log[x] \in Seq(Entry)
  BY RunsAssumption DEF StoreType
<1>2. PICK i \in DOMAIN log[x] : log[x][i][2] = r /\ log[x][i][3] = n
  BY DEF Recorded
<1>3. i \in DOMAIN log'[x] /\ log'[x][i] = log[x][i]
  <2>1. CASE log'[x] = log[x]
    BY <2>1, <1>2
  <2>2. ASSUME NEW e \in Entry, log'[x] = Append(log[x], e)
        PROVE  i \in DOMAIN log'[x] /\ log'[x][i] = log[x][i]
    BY <1>1, <1>2, <2>2
  <2>3. QED  BY <1>1, <2>1, <2>2 DEF SessionStep, Untouched, Taken, Left, Written
<1>4. QED  BY <1>2, <1>3 DEF Recorded

\* What a step does to a driver and its turn, as far as the log is concerned.
MissStep(e) == /\ drv[e].pc \in Active
               /\ drv'[e].run = drv[e].run /\ drv'[e].token = drv[e].token
               /\ drv'[e].lost > 0 => \/ drv[e].lost > 0
                                      \/ row[drv[e].run].token # drv[e].token

StaysInTurn(e) == /\ drv[e].pc = "turn" /\ drv'[e].attempts = drv[e].attempts
                  /\ drv[e].lost = LEASE_LOST_CONSECUTIVE => drv'[e].lost = drv[e].lost

LogsStep(e) == \/ turn'[e].step \notin {"wrote", "over"}
               \/ turn'[e].step = turn[e].step
               \/ turn'[e].step = "over" /\ turn[e].step = "wrote"
               \/ turn'[e].step = "over" /\ drv[e].lost = LEASE_LOST_CONSECUTIVE
               \/ turn'[e].step = "wrote" /\ Recorded(drv[e].run, drv[e].attempts)'

TurnStep(e) == drv'[e].pc \in Active =>
                 /\ drv'[e].lost = 0 \/ MissStep(e)
                 /\ drv'[e].pc = "turn" => \/ turn'[e].step = "none"
                                           \/ MissStep(e) /\ StaysInTurn(e) /\ LogsStep(e)

LEMMA SameDriver ==
    ASSUME drv \in [Drivers -> Driver], NEW e \in Drivers, drv'[e] = drv[e], turn'[e] = turn[e]
    PROVE  TurnStep(e)
BY DEF TurnStep, MissStep, StaysInTurn, LogsStep, Active, Driver

\* A driver that keeps its claim and its heartbeat count, and leaves the turn.
LEMMA LeavesTurn ==
    ASSUME NEW e, drv[e].pc \in Active, drv'[e].pc # "turn",
           drv'[e].run = drv[e].run, drv'[e].token = drv[e].token, drv'[e].lost = drv[e].lost
    PROVE  TurnStep(e)
BY DEF TurnStep, MissStep

LEMMA QueueTurnStep ==
    ASSUME TypeOK, FenceInv, turn \in [Drivers -> Turn], QueueOnly, NEW e \in Drivers
    PROVE  TurnStep(e)
<1>. /\ drv \in [Drivers -> Driver] /\ drv[e] \in Driver /\ turn' = turn
     /\ row \in [Runs -> Row]
     /\ Workers \subseteq Drivers
  BY DEF TypeOK, QueueOnly, sessionVars, Drivers
<1>0. Idle.pc = "idle" /\ [Idle EXCEPT !.pc = "exited"].pc = "exited"
  BY IdleType, ExitedType
<1>1. CASE drv' = drv
  BY <1>1, SameDriver
<1>2. ASSUME NEW d \in Drivers, Beat(d) \/ BeatFails(d) \/ FailWrite(d) \/ Settle(d) \/ SettleFails(d)
      PROVE  TurnStep(e)
  <2>1. CASE e # d
    <3>1. drv'[e] = drv[e]
      BY <1>2, <2>1 DEF Beat, BeatFails, FailWrite, Settle, SettleFails
    <3>2. QED  BY <3>1, SameDriver
  <2>2. CASE e = d /\ (Beat(d) \/ BeatFails(d))
    <3>1. drv[e].pc = "turn" /\ drv[e].lost # LEASE_LOST_CONSECUTIVE
      BY <2>2 DEF Beat, BeatFails, LEASE_LOST_CONSECUTIVE
    <3>2. /\ drv'[e].pc = "turn" /\ drv'[e].run = drv[e].run /\ drv'[e].token = drv[e].token
          /\ drv'[e].attempts = drv[e].attempts
      BY <2>2, <3>1 DEF Beat, BeatFails, Driver
    <3>3. drv'[e].lost = 0 \/ ~Owns(drv[e].run, drv[e].token)
      BY <2>2 DEF Beat, BeatFails, Driver
    <3>4. drv'[e].lost > 0 => row[drv[e].run].token # drv[e].token
      <4>1. drv[e].run \in Runs /\ drv[e].token # 0
        BY <3>1 DEF TypeOK, FenceInv, Active
      <4>2. QED  BY <3>3, <4>1 DEF Owns, FenceInv
    <3>5. MissStep(e) /\ StaysInTurn(e) /\ LogsStep(e)
      BY <3>1, <3>2, <3>4 DEF MissStep, StaysInTurn, LogsStep, Active
    <3>6. QED  BY <3>5 DEF TurnStep
  <2>3. CASE e = d /\ (FailWrite(d) \/ Settle(d) \/ SettleFails(d))
    <3>1. drv[e].pc \in Active /\ Finished(e).pc = "idle"
      BY <2>3, FinishedType DEF FailWrite, Settle, SettleFails, Active
    <3>2. \/ drv'[e] = Finished(e)
          \/ drv'[e] = [drv[e] EXCEPT !.pc = "settling"]
      BY <2>3 DEF FailWrite, Settle, SettleFails
    <3>3. CASE drv'[e] = Finished(e)
      BY <3>1, <3>3 DEF TurnStep, Active
    <3>4. CASE drv'[e] = [drv[e] EXCEPT !.pc = "settling"]
      BY <3>1, <3>4, LeavesTurn DEF Driver
    <3>5. QED  BY <3>2, <3>3, <3>4
  <2>4. QED  BY <1>2, <2>1, <2>2, <2>3
<1>3. ASSUME NEW w \in Workers,
             \/ \E r \in Runs : Claim(w, r)
             \/ HandBack(w) \/ HandBackFails(w) \/ LoopEnds(w) \/ Stop(w) \/ Restart(w)
      PROVE  TurnStep(e)
  <2>1. CASE e # w
    <3>1. drv'[e] = drv[e]
      BY <1>3, <2>1 DEF Claim, HandBack, HandBackFails, LoopEnds, Stop, Restart
    <3>2. QED  BY <3>1, SameDriver
  <2>2. ASSUME e = w, NEW r \in Runs, Claim(w, r) PROVE TurnStep(e)
    <3>1. drv'[e] = Claimed(w, r, "claimed")
      BY <2>2 DEF Claim
    <3>2. drv'[e].lost = 0 /\ drv'[e].pc = "claimed"
      BY <3>1 DEF Claimed
    <3>3. QED  BY <3>2 DEF TurnStep
  <2>3. CASE e = w /\ (HandBack(w) \/ HandBackFails(w) \/ LoopEnds(w) \/ Restart(w))
    <3>1. drv'[e].pc \in {"idle", "exited"}
      BY <2>3, <1>0 DEF HandBack, HandBackFails, LoopEnds, Restart, Driver
    <3>2. QED  BY <3>1 DEF TurnStep, Active
  <2>4. CASE e = w /\ Stop(w)
    <3>1. /\ drv'[e].pc = drv[e].pc /\ drv'[e].run = drv[e].run /\ drv'[e].token = drv[e].token
          /\ drv'[e].attempts = drv[e].attempts /\ drv'[e].lost = drv[e].lost
      BY <2>4 DEF Stop, Driver
    <3>2. QED  BY <3>1 DEF TurnStep, MissStep, StaysInTurn, LogsStep, Active, Driver
  <2>5. QED  BY <1>3, <2>1, <2>2, <2>3, <2>4
<1>4. QED
  <2>1. StoreNext => drv' = drv
    BY DEF StoreNext, Enqueue, LeaseLapses, RunAges
  <2>2. \A w \in Workers : ClaimsNothing(w) \/ ReleaseInFlight(w) \/ ReleaseRun(w) \/ ReleaseFails(w)
                           => drv' = drv
    BY DEF ClaimsNothing, vars, ReleaseInFlight, ReleaseRun, ReleaseFails
  <2>3. \A s \in Sweeps : \/ SweepReads(s) \/ SweepSettles(s) \/ SweepEnds(s) \/ SweepCrash(s)
                          \/ \E c \in sweep[s].todo : SweepRetires(s, c)
                          => drv' = drv
    BY DEF SweepReads, SweepSettles, SweepEnds, SweepCrash, SweepRetires
  <2>4. QED  BY <1>1, <1>2, <1>3, <2>1, <2>2, <2>3 DEF QueueOnly

\* A step of the turn itself: the driver stays, the log says what it wrote.
LEMMA QuietTurnStep ==
    ASSUME TypeOK, TurnTypeOK, NEW d \in Drivers, TurnQuiet(d), NEW e \in Drivers
    PROVE  TurnStep(e)
<1>. /\ drv \in [Drivers -> Driver] /\ turn \in [Drivers -> Turn]
     /\ log \in [Sessions -> Seq(Entry)]
  BY TurnTypeParts DEF TypeOK, TurnsOK, StoreType
<1>1. drv' = drv /\ row' = row
  BY QuietUnseen DEF vars
<1>2. CASE e # d
  <2>1. turn'[e] = turn[e]
    BY <1>2 DEF TurnQuiet, TurnLocks, TurnAppends, TurnCloses, TurnDeclines, TurnRefusesEarly,
                TurnUnlocks, TurnUnlockFails, TurnErrs, TurnErrsEarly
  <2>2. QED  BY <1>1, <2>1, SameDriver
<1>3. CASE e = d
  <2>1. Working(e)
    BY <1>3 DEF TurnQuiet, TurnLocks, TurnAppends, TurnCloses, TurnDeclines, TurnRefusesEarly,
                TurnUnlocks, TurnUnlockFails, TurnErrs, TurnErrsEarly
  <2>2. MissStep(e) /\ StaysInTurn(e)
    BY <1>1, <2>1 DEF MissStep, StaysInTurn, Working, Active, Driver
  <2>3. LogsStep(e)
    <3>1. CASE TurnAppends(e)
      <4>1. turn'[e].step = "wrote"
        BY <3>1 DEF TurnAppends, Turn
      <4>2. /\ drv[e].run \in Runs /\ drv[e].attempts \in Nat /\ SessionAt(e) \in Sessions
            /\ log[SessionAt(e)] \in Seq(Entry) /\ turn[e].token \in Nat
        BY <2>1, WorkingRun DEF Turn
      <4>3. log'[SessionAt(e)] =
              Append(log[SessionAt(e)], <<turn[e].token, drv[e].run, drv[e].attempts>>)
        BY <3>1, <4>2 DEF TurnAppends, Append1
      <4>4. <<turn[e].token, drv[e].run, drv[e].attempts>> \in Entry
        BY <4>2 DEF Entry
      <4>5. PICK i \in DOMAIN log'[SessionAt(e)] :
                log'[SessionAt(e)][i] = <<turn[e].token, drv[e].run, drv[e].attempts>>
        <5>. DEFINE i == Len(log[SessionAt(e)]) + 1
        <5>1. i \in DOMAIN log'[SessionAt(e)]
              /\ log'[SessionAt(e)][i] = <<turn[e].token, drv[e].run, drv[e].attempts>>
          BY <4>2, <4>3, <4>4
        <5>2. QED  BY <5>1
      <4>6. \E j \in DOMAIN log'[SessionAt(e)] : /\ log'[SessionAt(e)][j][2] = drv[e].run
                                                /\ log'[SessionAt(e)][j][3] = drv[e].attempts
        <5>1. log'[SessionAt(e)][i][2] = drv[e].run /\ log'[SessionAt(e)][i][3] = drv[e].attempts
          BY <4>5
        <5>2. QED  BY <5>1, Zenon
      <4>7. drv'[e].run = drv[e].run /\ drv'[e].attempts = drv[e].attempts
        BY <1>1
      <4>8. Recorded(drv[e].run, drv[e].attempts)'
        BY <4>6, <4>7 DEF Recorded, SessionAt
      <4>9. QED  BY <4>1, <4>8 DEF LogsStep
    <3>2. CASE TurnCloses(e)
      BY <3>2 DEF TurnCloses, LogsStep, Turn
    <3>3. CASE \/ TurnLocks(e) \/ TurnDeclines(e) \/ TurnRefusesEarly(e) \/ TurnUnlocks(e)
               \/ TurnUnlockFails(e)
               \/ \E retry \in BOOLEAN : TurnErrs(e, retry) \/ TurnErrsEarly(e, retry)
      <4>1. turn'[e].step \in {"open", "busy", "refused", "threw", "closing"}
        BY <3>3 DEF TurnLocks, TurnDeclines, TurnRefusesEarly, TurnUnlocks, TurnUnlockFails,
                    TurnErrs, TurnErrsEarly, Turn
      <4>2. QED  BY <4>1 DEF LogsStep
    <3>4. QED  BY <1>3, <3>1, <3>2, <3>3 DEF TurnQuiet
  <2>4. QED  BY <2>2, <2>3 DEF TurnStep
<1>4. QED  BY <1>2, <1>3

LEMMA EdgeTurnStep ==
    ASSUME TypeOK, turn \in [Drivers -> Turn], NEW d \in Drivers,
           TurnStarts(d) \/ TurnEnds(d) \/ ProcessDies(d), NEW e \in Drivers
    PROVE  TurnStep(e)
<1>. drv \in [Drivers -> Driver] /\ drv[e] \in Driver /\ Forget(d)
  BY DEF TypeOK, TurnStarts, TurnEnds, ProcessDies
<1>0. /\ Idle.pc = "idle" /\ [Idle EXCEPT !.pc = "exited"].pc = "exited"
      /\ Finished(e).pc = "idle"
  BY IdleType, ExitedType, FinishedType
<1>1. CASE e # d
  <2>1. drv'[e] = drv[e]
    BY <1>1 DEF TurnStarts, TurnEnds, ProcessDies, Launch, ClaimById, TurnReturns, TurnThrows,
                WorkerCrash, InlineCrash
  <2>2. QED  BY <1>1, <2>1, SameDriver DEF Forget
<1>2. CASE e = d
  <2>1. turn'[e].step = "none"
    BY <1>2 DEF Forget, NoTurn
  <2>2. CASE Launch(e)
    <3>1. /\ drv[e].pc \in Active /\ drv'[e].run = drv[e].run
          /\ drv'[e].token = drv[e].token /\ drv'[e].lost = drv[e].lost
      BY <2>2 DEF Launch, Driver, Active
    <3>2. QED  BY <2>1, <3>1 DEF TurnStep, MissStep
  <2>3. ASSUME NEW r \in Runs, ClaimById(e, r) PROVE TurnStep(e)
    <3>1. drv'[e].lost = 0
      BY <2>3 DEF ClaimById, Claimed
    <3>2. QED  BY <2>1, <3>1 DEF TurnStep
  <2>4. CASE WorkerCrash(e) \/ InlineCrash(e)
    <3>1. drv'[e].pc \in {"idle", "exited"}
      BY <2>4, <1>0 DEF WorkerCrash, InlineCrash
    <3>2. QED  BY <3>1 DEF TurnStep, Active
  <2>5. CASE TurnReturns(e) \/ \E retry \in BOOLEAN : TurnThrows(e, retry)
    <3>1. drv[e].pc \in Active
      BY <2>5 DEF TurnReturns, TurnThrows, Active
    <3>2. \/ drv'[e] = Finished(e)
          \/ /\ drv'[e].pc \in {"settling", "failing"} /\ drv'[e].run = drv[e].run
             /\ drv'[e].token = drv[e].token /\ drv'[e].lost = drv[e].lost
      BY <2>5 DEF TurnReturns, TurnThrows, Driver
    <3>3. QED  BY <1>0, <2>1, <3>1, <3>2 DEF TurnStep, MissStep, Active
  <2>6. turn[e].retry \in BOOLEAN
    BY DEF Turn
  <2>7. QED  BY <1>2, <2>2, <2>3, <2>4, <2>5, <2>6 DEF TurnStarts, TurnEnds, ProcessDies
<1>3. QED  BY <1>1, <1>2

LEMMA AllTurnSteps ==
    ASSUME TypeOK, FenceInv, TurnTypeOK, [TurnNext]_turnVars, NEW e \in Drivers
    PROVE  TurnStep(e)
<1>. drv \in [Drivers -> Driver] /\ turn \in [Drivers -> Turn]
  BY DEF TypeOK, TurnTypeOK
<1>1. CASE UNCHANGED <<drv, turn>>
  BY <1>1, SameDriver
<1>2. UNCHANGED turnVars => UNCHANGED <<drv, turn>>
  BY DEF turnVars, vars, sessionVars
<1>3. ASSUME NEW w \in Workers, Drain(w) PROVE UNCHANGED <<drv, turn>>
  BY <1>3 DEF Drain, ReleaseUnlocks
<1>4. ASSUME NEW s \in Sweeps, NEW x \in Sessions, Unstrand(s, x) PROVE UNCHANGED <<drv, turn>>
  BY <1>4 DEF Unstrand, SweepUnlocks
<1>5. ASSUME NEW x \in Sessions, SessionQuiet(x) PROVE UNCHANGED <<drv, turn>>
  BY <1>5 DEF SessionQuiet, LockExpires, CompactionLocks, CompactionWrites, CompactionEnds, vars
<1>6. QED  BY <1>1, <1>2, <1>3, <1>4, <1>5, TurnCases, QueueTurnStep, QuietTurnStep, EdgeTurnStep

\* A lease token that is not the row's any more never comes back to it.
LEMMA TokenGone ==
    ASSUME TypeOK, CopyInv, OneRow, NEW r \in Runs, NEW t \in Nat,
           t # 0, t < nextToken, row[r].token # t
    PROVE  row'[r].token # t
BY TokenKeepsRow

LEMMA RecordNext ==
    ASSUME AllInv, TurnTypeOK, RecordInv, [TurnNext]_turnVars
    PROVE  RecordInv'
<1>. /\ TypeOK /\ FenceInv /\ CopyInv /\ [Next]_vars
     /\ row \in [Runs -> Row] /\ drv \in [Drivers -> Driver]
     /\ \A d \in Drivers : drv[d].pc \in Active => drv[d].run \in Runs
  BY TurnStepsQueue DEF AllInv, TypeOK, TurnTypeOK
<1>1. /\ SessionStep /\ StoreType
      /\ \A e \in Drivers : TurnStep(e)
      /\ OneRow /\ RowStep
  BY TurnTypeNext, AllTurnSteps, AllFacts, StepOfRows, TurnTypeParts DEF StepFacts
<1>2. LostInv'
  <2>1. SUFFICES ASSUME NEW e \in Drivers, drv'[e].pc \in Active, drv'[e].lost > 0
                 PROVE  row'[drv'[e].run].token # drv'[e].token
    BY DEF LostInv
  <2>2. MissStep(e)
    BY <1>1, <2>1 DEF TurnStep
  <2>3. row[drv[e].run].token # drv[e].token
    BY <2>1, <2>2 DEF MissStep, RecordInv, LostInv
  <2>4. /\ drv[e].run \in Runs /\ drv[e].token \in Nat
        /\ drv[e].token # 0 /\ drv[e].token < nextToken
    BY <2>2 DEF MissStep, CopyInv, FenceInv, Driver
  <2>5. QED  BY <1>1, <2>2, <2>3, <2>4, TokenGone DEF MissStep
<1>3. WroteInv'
  <2>1. SUFFICES ASSUME NEW e \in Drivers, drv'[e].pc = "turn",
                        turn'[e].step \in {"wrote", "over"}
                 PROVE  /\ turn'[e].step = "wrote" => Recorded(drv[e].run, drv[e].attempts)'
                        /\ turn'[e].step = "over" =>
                             \/ Recorded(drv[e].run, drv[e].attempts)'
                             \/ drv'[e].lost = LEASE_LOST_CONSECUTIVE
    BY DEF WroteInv, Working
  <2>2. MissStep(e) /\ StaysInTurn(e) /\ LogsStep(e)
    BY <1>1, <2>1 DEF TurnStep, Active
  <2>3. /\ drv'[e].run = drv[e].run /\ drv'[e].attempts = drv[e].attempts
        /\ drv[e].run \in Runs
    BY <2>2 DEF MissStep, StaysInTurn
  <2>4. ASSUME Recorded(drv[e].run, drv[e].attempts)
        PROVE  Recorded(drv[e].run, drv[e].attempts)'
    <3>1. PICK r \in Runs : r = drv[e].run
      BY <2>3
    <3>2. PICK n \in Nat : n = drv[e].attempts
      BY DEF Driver
    <3>3. Recorded(r, n)
      BY <2>4, <3>1, <3>2
    <3>4. Recorded(r, n)'
      BY <1>1, <3>3, LogGrows
    <3>5. QED  BY <2>3, <3>1, <3>2, <3>4 DEF Recorded
  <2>5. /\ turn[e].step = "wrote" => Recorded(drv[e].run, drv[e].attempts)
        /\ turn[e].step = "over" => \/ Recorded(drv[e].run, drv[e].attempts)
                                   \/ drv[e].lost = LEASE_LOST_CONSECUTIVE
    BY <2>2 DEF RecordInv, WroteInv, Working, StaysInTurn
  <2>6. QED  BY <2>1, <2>2, <2>4, <2>5 DEF LogsStep, StaysInTurn
<1>4. DoneInv'
  <2>1. SUFFICES ASSUME NEW r \in Runs, result'[r] = "ok"
                 PROVE  row'[r].status = "done" /\ Recorded(r, row[r].attempts)'
    BY DEF DoneInv
  <2>2. CASE result[r] = "ok"
    <3>1. row[r].status = "done" /\ Recorded(r, row[r].attempts)
      BY <2>2 DEF RecordInv, DoneInv
    <3>2. row'[r] = row[r]
      BY <1>1, <3>1 DEF RowStep, Submitted, Flagged, Started, Ended, Claimable
    <3>3. PICK n \in Nat : n = row[r].attempts
      BY DEF Row
    <3>4. Recorded(r, n)'
      BY <1>1, <3>1, <3>3, LogGrows
    <3>5. QED  BY <3>1, <3>2, <3>3, <3>4
  <2>3. CASE result[r] # "ok"
    <3>1. PICK d \in Drivers : TurnEnds(d) /\ result' # result
      <4>1. result' # result
        BY <2>1, <2>3
      <4>2. UNCHANGED turnVars => result' = result
        BY DEF turnVars, sessionVars
      <4>3. QueueOnly => result' = result
        BY DEF QueueOnly, sessionVars
      <4>4. \A d \in Drivers : TurnStarts(d) \/ TurnQuiet(d) \/ ProcessDies(d) => result' = result
        BY DEF TurnStarts, ProcessDies, TurnQuiet, TurnLocks, TurnAppends, TurnCloses, TurnDeclines,
               TurnRefusesEarly, TurnUnlocks, TurnUnlockFails, TurnErrs, TurnErrsEarly
      <4>5. /\ \A w \in Workers : Drain(w) => result' = result
            /\ \A s \in Sweeps, x \in Sessions : Unstrand(s, x) => result' = result
            /\ \A x \in Sessions : SessionQuiet(x) => result' = result
        BY DEF Drain, Unstrand, SessionQuiet, LockExpires, CompactionLocks, CompactionWrites,
               CompactionEnds
      <4>6. QED  BY <4>1, <4>2, <4>3, <4>4, <4>5, TurnCases
    <3>2. /\ TurnReturns(d) /\ turn[d].step = "over" /\ r = drv[d].run
          /\ row'[drv[d].run] # row[drv[d].run]
      <4>1. result \in [Runs -> {"none", "ok", "refused"}]
        BY DEF TurnTypeOK
      <4>2. QED  BY <2>1, <2>3, <3>1, <4>1 DEF TurnEnds
    <3>3. /\ drv[d].pc = "turn" /\ CompleteFence(r, drv[d].token)
          /\ CompleteRow(r)
      BY <3>2 DEF TurnReturns
    <3>4. row'[r].status = "done" /\ row'[r].attempts = row[r].attempts
      BY <3>3 DEF CompleteRow, Row
    <3>5. drv[d].attempts = row[r].attempts /\ row[r].token = drv[d].token
      BY <3>2, <3>3 DEF CompleteFence, CopyInv, Active
    <3>6. drv[d].lost # LEASE_LOST_CONSECUTIVE
      BY <3>2, <3>3, <3>5 DEF RecordInv, LostInv, Active, LEASE_LOST_CONSECUTIVE
    <3>7. Recorded(r, row[r].attempts)
      BY <3>2, <3>3, <3>5, <3>6 DEF RecordInv, WroteInv, Working
    <3>8. PICK n \in Nat : n = row[r].attempts
      BY DEF Row
    <3>9. Recorded(r, n)'
      BY <1>1, <3>7, <3>8, LogGrows
    <3>10. QED  BY <3>4, <3>8, <3>9
  <2>4. QED  BY <2>2, <2>3
<1>5. QED  BY <1>2, <1>3, <1>4 DEF RecordInv

\* No run is reported done with a reply that its session does not have: not
\* when the lease is lost half-way, reaped, handed back or taken over.
THEOREM RepliesRecorded == TurnSpec => []DoneIsRecorded
<1>1. TurnInit => RecordInv
  BY IdleType DEF TurnInit, Init, RecordInv, LostInv, WroteInv, DoneInv, Active, Working
<1>2. ASSUME AllInv, TypeOK /\ TurnTypeOK, RecordInv, [TurnNext]_turnVars
      PROVE  RecordInv'
  BY <1>2, RecordNext
<1>3. RecordInv => DoneIsRecorded
  BY DEF RecordInv, DoneInv, DoneIsRecorded, Recorded
<1>4. QED  BY <1>1, <1>2, <1>3, TurnsImplementQueue, CopiesCurrent, TurnTypeCorrect, PTL DEF TurnSpec
=============================================================================
