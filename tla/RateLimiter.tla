----------------------------- MODULE RateLimiter -----------------------------
(***************************************************************************)
(* The limit on the turns one principal may start in a window of time      *)
(* (ratelimit/rate-limiter.ts and postgres-rate-limiter.ts).  The form in  *)
(* memory and the one in Postgres, whose upsert counts the calls of all    *)
(* processes, are run side by side on the same calls.  A call is a turn's  *)
(* or a security screen's (core/orchestrator.ts); what is refused counts   *)
(* in the store and not in memory.                                         *)
(***************************************************************************)
EXTENDS Integers, Sequences

CONSTANTS
    RateMax, RateWindow,  \* maxPerWindow, windowMs
    RateTime,              \* bound on time
    RateCalls              \* bound on the calls counted in one window

ASSUME RateAssumption ==
    /\ {RateMax, RateWindow} \subseteq Nat \ {0}
    /\ {RateTime, RateCalls} \subseteq Nat

VARIABLES
    time,
    inMemory, inStore,  \* the window of the principal, in each form
    admitted            \* history: the times of the calls that were let through

rateVars == <<time, inMemory, inStore, admitted>>

RateTimes == 0 .. RateTime

RateInit ==
    /\ time = 0
    /\ inMemory = [start |-> -RateWindow, count |-> 0]
    /\ inStore = inMemory
    /\ admitted = <<>>

\* Mutated form: a window is one tick too long.
ElapsedLate(w) == time - w.start > RateWindow

Elapsed(w) == time - w.start >= RateWindow

\* Mutated form: the window goes on.
CountedOn(w) == [w EXCEPT !.count = IF Elapsed(w) THEN 1 ELSE @ + 1]

\* The upsert: the count it returns decides.
Counted(w) == IF Elapsed(w) THEN [start |-> time, count |-> 1] ELSE [w EXCEPT !.count = @ + 1]

StoreAllows(w) == Counted(w).count <= RateMax

\* The form in memory decides before it counts.
MemoryAllows(w) == time - w.start >= RateWindow \/ w.count < RateMax

Remembered(w) ==
    IF time - w.start >= RateWindow THEN [start |-> time, count |-> 1]
    ELSE IF MemoryAllows(w) THEN [w EXCEPT !.count = @ + 1] ELSE w

Passes ==
    /\ time < RateTime /\ time' = time + 1
    /\ UNCHANGED <<inMemory, inStore, admitted>>

CallArrives ==
    /\ inStore.count < RateCalls \/ Elapsed(inStore)
    /\ inStore' = Counted(inStore)
    /\ inMemory' = Remembered(inMemory)
    /\ admitted' = IF StoreAllows(inStore) THEN Append(admitted, time) ELSE admitted
    /\ UNCHANGED time

RateNext == Passes \/ CallArrives

RateSpec == RateInit /\ [][RateNext]_rateVars
-----------------------------------------------------------------------------
RateTypeOK ==
    /\ time \in RateTimes
    /\ {inMemory, inStore} \subseteq [start : {-RateWindow} \cup RateTimes, count : Nat]
    /\ admitted \in Seq(RateTimes)

\* The limiter in memory and the one in Postgres give the same answers, though the one
\* counts refused calls and the other does not.
LimitersAgree == MemoryAllows(inMemory) <=> StoreAllows(inStore)

\* A burst across the border of two windows lets less than twice the limit through in
\* the length of one window: of so many calls let through one after another the last
\* comes at least a window after the first.
BurstBounded ==
    \A i \in DOMAIN admitted :
        LET j == i + 2 * RateMax - 1
        IN  j \in DOMAIN admitted => admitted[j] - admitted[i] >= RateWindow
=============================================================================
