--------------------------- MODULE CronScheduler ---------------------------
(***************************************************************************)
(* The scheduler in queue mode (cron/scheduler.ts, cron-store.ts and       *)
(* schedule.ts over the job queue of job-queue.ts).  A cron owes one slot, *)
(* the time of its next fire.  Fire jobs wait in the queue; a worker that  *)
(* fetches one claims the slot on the cron's row, which moves the schedule *)
(* on, runs a turn under the slot's fire key, and then either chains the   *)
(* next slot or gives the claimed one back.  Users reschedule, pause and   *)
(* run crons by hand at any time, a turn that is in progress included.     *)
(*                                                                         *)
(* Times are small numbers, Never is "no time".  A worker stands for one   *)
(* handler of one process (fire concurrency 1).  The interval scheduler,   *)
(* the fallback when the queue does not start, is not part of this module. *)
(***************************************************************************)
EXTENDS Naturals, FiniteSets

CONSTANTS
    Crons,
    Workers,     \* fire handlers of the core processes
    NoCron,      \* no cron
    CronKinds,   \* schedule kinds in play, a subset of ScheduleKinds
    Every,       \* the interval, and the distance of calendar slots
    Skew,        \* how far the queue's clock runs ahead of a worker's
    MaxTime,     \* bound on the clock
    MaxEdits,    \* bound on what users do
    MaxCronFaults, \* bound on turns and statements that throw
    MaxCrashes   \* bound on processes dying, or failing to give a slot back

ScheduleKinds == {"once", "every", "calendar"}

ASSUME CronAssumption ==
    /\ CronKinds \subseteq ScheduleKinds /\ NoCron \notin Crons
    /\ Every \in Nat \ {0} /\ Skew \in Nat /\ MaxTime \in Nat \ {0}
    /\ MaxEdits \in Nat /\ MaxCronFaults \in Nat /\ MaxCrashes \in Nat

VARIABLES
    crons,    \* the crons
    jobs,     \* the fire jobs that wait, one for each cron and slot
    fireJob,  \* what each worker is doing
    fireTurn, \* the turn of each fire key
    clock,
    edited,   \* history: the crons that were rescheduled
    edits, cronFaults, crashes  \* how much has happened, bounded

cronVars == <<crons, jobs, fireJob, fireTurn, clock, edited, edits, cronFaults, crashes>>

Never == 0
Times == 0 .. MaxTime + Every

Schedule == [kind : CronKinds, first : Times]
Cron == [sched : Schedule, on : BOOLEAN, last : Times, next : Times]

FireJob == [at : {"idle", "read", "claim", "fire", "run", "settle", "chain", "denied", "undo"},
        cron : Crons \cup {NoCron}, slot : Times, t : Times, prior : Times, kind : CronKinds \cup {"none"}]
Idle == [at |-> "idle", cron |-> NoCron, slot |-> Never, t |-> Never, prior |-> Never, kind |-> "none"]

CronFault == cronFaults < MaxCronFaults /\ cronFaults' = cronFaults + 1

-----------------------------------------------------------------------------
(* Schedules.                                                              *)

NextCalendar(t) == ((t \div Every) + 1) * Every

\* advanceNextFireAt
Advance(sched, from) ==
    CASE sched.kind = "calendar" -> NextCalendar(from)
      [] sched.kind = "every"    -> from + Every
      [] sched.kind = "once"     -> Never

\* recoverNextFireAt: the slot the cron owes.  Every row has had a nextFireAt, so
\* createdAt is never needed.
Owed(c) ==
    IF c.next # Never THEN c.next
    ELSE CASE c.sched.kind = "calendar" -> NextCalendar(c.last)
           [] c.sched.kind = "every"    -> IF c.last = Never THEN c.sched.first ELSE c.last + Every
           [] c.sched.kind = "once"     -> IF c.last = Never THEN c.sched.first ELSE Never

\* normalizeSchedule, applied to a row: a past first fire is allowed.
Rescheduled(c, kind, first) ==
    [c EXCEPT !.sched = [kind |-> kind, first |-> IF kind = "calendar" THEN Never ELSE first],
              !.next = IF kind = "calendar" THEN NextCalendar(clock) ELSE first]

-----------------------------------------------------------------------------
(* The claim.                                                              *)

\* Mutated form: any enabled cron can be claimed, whatever slot it owes.
MayClaimAny(c, slot) == c.on

MayClaim(c, slot) == c.on /\ Owed(c) = slot

ClaimRow(c, slot, t) ==
    [c EXCEPT !.last = t,
              !.next = Advance(c.sched, IF c.sched.kind = "calendar" THEN slot ELSE t)]

\* Mutated form: the claim is undone whoever made the last one.
UnclaimRowAlways(c, j) == [c EXCEPT !.last = j.prior, !.next = j.slot]

\* Mutated form: a one-shot's claim is never undone.
UnclaimRowRepeats(c, j) ==
    IF c.last # j.t \/ j.kind = "once" THEN c ELSE [c EXCEPT !.last = j.prior, !.next = j.slot]

\* unclaimSlot: only the claim that was made at j.t is undone.
UnclaimRow(c, j) == IF c.last # j.t THEN c ELSE [c EXCEPT !.last = j.prior, !.next = j.slot]

-----------------------------------------------------------------------------
CronInit ==
    /\ \E kind \in CronKinds, first \in 1 .. MaxTime :
           crons = [c \in Crons |->
                    [sched |-> [kind |-> kind, first |-> IF kind = "calendar" THEN Never ELSE first],
                     on |-> TRUE, last |-> Never,
                     next |-> IF kind = "calendar" THEN NextCalendar(Never) ELSE first]]
    /\ jobs = {} /\ fireJob = [w \in Workers |-> Idle]
    /\ fireTurn = [k \in Crons \X Times |-> "none"]
    /\ clock = 1 /\ edited = {} /\ edits = 0 /\ cronFaults = 0 /\ crashes = 0

Key(j) == <<j.cron, j.slot>>
ByHand(j) == j.slot = Never

\* enqueueNext: the slot an enabled cron owes, under its singleton key.
Queued(c) == IF crons[c].on /\ Owed(crons[c]) # Never THEN {<<c, Owed(crons[c])>>} ELSE {}

-----------------------------------------------------------------------------
(* The world outside the handlers.                                         *)

Tick ==
    /\ clock < MaxTime
    /\ clock' = clock + 1
    /\ UNCHANGED <<crons, jobs, fireJob, fireTurn, edited, edits, cronFaults, crashes>>

\* reconcile, on the tick job, and notifyChanged, after a change.
EnqueueNext(c) ==
    /\ jobs' = jobs \cup Queued(c)
    /\ UNCHANGED <<crons, fireJob, fireTurn, clock, edited, edits, cronFaults, crashes>>

\* The run of a fire key ends (modelled in RunQueue); a second fire of the key
\* joins the run that is there.
FireEnds(k) ==
    /\ fireTurn[k] = "running"
    /\ fireTurn' = [fireTurn EXCEPT ![k] = "over"]
    /\ UNCHANGED <<crons, jobs, fireJob, clock, edited, edits, cronFaults, crashes>>

\* update with a schedule, by a user or by the agent in the fired turn itself.
Reschedule(c, kind, first) ==
    /\ edits < MaxEdits /\ edits' = edits + 1
    /\ crons' = [crons EXCEPT ![c] = Rescheduled(@, kind, first)]
    /\ edited' = edited \cup {c}
    /\ UNCHANGED <<jobs, fireJob, fireTurn, clock, cronFaults, crashes>>

\* setEnabled, or archiving.
SetEnabled(c) ==
    /\ edits < MaxEdits /\ edits' = edits + 1
    /\ crons' = [crons EXCEPT ![c].on = ~@]
    /\ UNCHANGED <<jobs, fireJob, fireTurn, clock, edited, cronFaults, crashes>>

\* runNow: a fire of its own, under a random key and without a slot.
RunNow(w, c) ==
    /\ edits < MaxEdits /\ edits' = edits + 1
    /\ fireJob[w].at = "idle" /\ crons[c].on
    /\ fireJob' = [fireJob EXCEPT ![w] = [Idle EXCEPT !.at = "fire", !.cron = c, !.kind = crons[c].sched.kind]]
    /\ UNCHANGED <<crons, jobs, fireTurn, clock, edited, cronFaults, crashes>>

-----------------------------------------------------------------------------
(* A fire job.                                                             *)

\* The queue hands out a job at its slot by its own clock, and never again.
Fetch(w, k) ==
    /\ fireJob[w].at = "idle" /\ k \in jobs /\ k[2] <= clock + Skew
    /\ jobs' = jobs \ {k}
    /\ fireJob' = [fireJob EXCEPT ![w] = [Idle EXCEPT !.at = "read", !.cron = k[1], !.slot = k[2]]]
    /\ UNCHANGED <<crons, fireTurn, clock, edited, edits, cronFaults, crashes>>

\* The cron and the time are read: a stale job ends, an early one goes back.
JobReads(w) ==
    /\ fireJob[w].at = "read"
    /\ LET c == crons[fireJob[w].cron] IN
       IF ~(c.on /\ Owed(c) = fireJob[w].slot)
       THEN fireJob' = [fireJob EXCEPT ![w] = Idle] /\ UNCHANGED jobs
       ELSE IF clock < fireJob[w].slot
       THEN fireJob' = [fireJob EXCEPT ![w] = Idle] /\ jobs' = jobs \cup {Key(fireJob[w])}
       ELSE /\ fireJob' = [fireJob EXCEPT ![w].at = "claim", ![w].t = clock, ![w].prior = c.last,
                                  ![w].kind = c.sched.kind]
            /\ UNCHANGED jobs
    /\ UNCHANGED <<crons, fireTurn, clock, edited, edits, cronFaults, crashes>>

\* A worker between its claim and the end of its fire.
Holding(w) == fireJob[w].at \in {"fire", "run", "settle", "denied", "undo"} /\ ~ByHand(fireJob[w])

\* Claims of one cron do not fall in one millisecond: the time of this one is not in
\* use yet, in the row, by a claim that stands or by a job that read the row since.
NewTime(w) ==
    /\ crons[fireJob[w].cron].last # fireJob[w].t
    /\ \A v \in Workers \ {w} : fireJob[v].cron = fireJob[w].cron =>
           fireJob[v].prior # fireJob[w].t /\ (Holding(v) => fireJob[v].t # fireJob[w].t)

\* claimSlot, one atomic update.
JobClaims(w) ==
    /\ fireJob[w].at = "claim"
    /\ IF MayClaim(crons[fireJob[w].cron], fireJob[w].slot) /\ NewTime(w)
       THEN /\ crons' = [crons EXCEPT ![fireJob[w].cron] = ClaimRow(@, fireJob[w].slot, fireJob[w].t)]
            /\ fireJob' = [fireJob EXCEPT ![w].at = "fire"]
       ELSE fireJob' = [fireJob EXCEPT ![w] = Idle] /\ UNCHANGED crons
    /\ UNCHANGED <<jobs, fireTurn, clock, edited, edits, cronFaults, crashes>>

\* Where a fire goes when it ends: a fire by hand is over, a job settles its slot.
After(w, at) == fireJob' = [fireJob EXCEPT ![w] = IF ByHand(@) THEN Idle ELSE [@ EXCEPT !.at = at]]

\* runTrigger: the owner is no longer internal, or not a member any more.
FireDenied(w) ==
    /\ fireJob[w].at = "fire" /\ CronFault
    /\ fireJob' = [fireJob EXCEPT ![w].at = "denied"]
    /\ UNCHANGED <<crons, jobs, fireTurn, clock, edited, edits, crashes>>

\* A denied fire disables the cron, then gives the slot back.
Denied(w) ==
    /\ fireJob[w].at = "denied"
    /\ crons' = [crons EXCEPT ![fireJob[w].cron].on = FALSE]
    /\ After(w, "undo")
    /\ UNCHANGED <<jobs, fireTurn, clock, edited, edits, cronFaults, crashes>>

\* runTrigger: a key committed before is not run again; otherwise a turn is
\* submitted under the key.
FireStarts(w) ==
    /\ fireJob[w].at = "fire"
    /\ IF ByHand(fireJob[w]) \/ fireTurn[Key(fireJob[w])] # "kept"
       THEN fireJob' = [fireJob EXCEPT ![w].at = "run"]
       ELSE fireJob' = [fireJob EXCEPT ![w].at = "settle"]
    /\ fireTurn' = IF ~ByHand(fireJob[w]) /\ fireTurn[Key(fireJob[w])] = "none"
               THEN [fireTurn EXCEPT ![Key(fireJob[w])] = "running"] ELSE fireTurn
    /\ UNCHANGED <<crons, jobs, clock, edited, edits, cronFaults, crashes>>

\* The turn is over and its key is committed; the fire is recorded.
RunReturns(w) ==
    /\ fireJob[w].at = "run" /\ (ByHand(fireJob[w]) \/ fireTurn[Key(fireJob[w])] \in {"over", "kept"})
    /\ fireTurn' = IF ByHand(fireJob[w]) THEN fireTurn ELSE [fireTurn EXCEPT ![Key(fireJob[w])] = "kept"]
    /\ fireJob' = [fireJob EXCEPT ![w].at = "settle"]
    /\ UNCHANGED <<crons, jobs, clock, edited, edits, cronFaults, crashes>>

\* A one-shot is disabled after its fire; the schedule is the one read before it.
FireSettles(w) ==
    /\ fireJob[w].at = "settle"
    /\ crons' = IF fireJob[w].kind = "once" THEN [crons EXCEPT ![fireJob[w].cron].on = FALSE] ELSE crons
    /\ After(w, "chain")
    /\ UNCHANGED <<jobs, fireTurn, clock, edited, edits, cronFaults, crashes>>

Chains(w) ==
    /\ fireJob[w].at = "chain"
    /\ jobs' = jobs \cup Queued(fireJob[w].cron)
    /\ fireJob' = [fireJob EXCEPT ![w] = Idle]
    /\ UNCHANGED <<crons, fireTurn, clock, edited, edits, cronFaults, crashes>>

\* A statement or the wait for the turn throws anywhere in the fire.
FireThrows(w) ==
    /\ fireJob[w].at \in {"fire", "run", "settle", "denied"} /\ CronFault
    /\ After(w, "undo")
    /\ UNCHANGED <<crons, jobs, fireTurn, clock, edited, edits, crashes>>

Unclaims(w) ==
    /\ fireJob[w].at = "undo"
    /\ crons' = [crons EXCEPT ![fireJob[w].cron] = UnclaimRow(@, fireJob[w])]
    /\ fireJob' = [fireJob EXCEPT ![w] = Idle]
    /\ UNCHANGED <<jobs, fireTurn, clock, edited, edits, cronFaults, crashes>>

\* The process dies, or a statement outside the fire throws: the job is not
\* retried (retryLimit 0).
JobLost(w) ==
    /\ fireJob[w].at # "idle" /\ crashes < MaxCrashes /\ crashes' = crashes + 1
    /\ fireJob' = [fireJob EXCEPT ![w] = Idle]
    /\ UNCHANGED <<crons, jobs, fireTurn, clock, edited, edits, cronFaults>>

-----------------------------------------------------------------------------
JobSteps(w) ==
    \/ JobReads(w) \/ JobClaims(w) \/ Denied(w) \/ FireStarts(w)
    \/ RunReturns(w) \/ FireSettles(w) \/ Chains(w) \/ Unclaims(w)

Serve(c) == EnqueueNext(c) /\ jobs' # jobs

\* Time, the tick job and the workers, with fires that are denied or throw.
CronSteps ==
    \/ Tick
    \/ \E c \in Crons : EnqueueNext(c)
    \/ \E k \in Crons \X Times : FireEnds(k)
    \/ \E w \in Workers :
         \/ JobSteps(w) \/ FireDenied(w) \/ FireThrows(w)
         \/ \E k \in jobs : Fetch(w, k)

\* What its owners do to a cron, and deaths.
Disturbance ==
    \/ \E c \in Crons :
         \/ SetEnabled(c)
         \/ \E kind \in CronKinds, first \in 1 .. MaxTime : Reschedule(c, kind, first)
    \/ \E w \in Workers :
         \/ JobLost(w)
         \/ \E c \in Crons : RunNow(w, c)

CronNext == CronSteps \/ Disturbance

CronSpec == CronInit /\ [][CronNext]_cronVars

\* The tick job reconciles every few seconds, a worker polls its queue, a handler's
\* promises settle, a run ends (RunQueue) and time passes.  Nobody edits, nobody dies.
CronFairSpec ==
    /\ CronInit /\ [][CronSteps]_cronVars
    /\ WF_cronVars(Tick)
    /\ \A c \in Crons : WF_cronVars(Serve(c))
    /\ \A k \in Crons \X Times : WF_cronVars(FireEnds(k)) /\ SF_cronVars(\E w \in Workers : Fetch(w, k))
    /\ \A w \in Workers : WF_cronVars(JobSteps(w))
-----------------------------------------------------------------------------
CronTypeOK ==
    /\ crons \in [Crons -> Cron]
    /\ jobs \subseteq Crons \X (Times \ {Never})
    /\ fireJob \in [Workers -> FireJob]
    /\ fireTurn \in [Crons \X Times -> {"none", "running", "over", "kept"}]
    /\ clock \in 1 .. MaxTime /\ edits \in 0 .. MaxEdits
    /\ cronFaults \in 0 .. MaxCronFaults /\ crashes \in 0 .. MaxCrashes

\* A claim stands while its fire lasts: the cron owes neither its slot nor one before
\* it, so no failing fire gives back a slot from under a later claim (unclaimSlot
\* recognises its own claim by its time), as long as the cron is not rescheduled.
ClaimStands ==
    \A w \in Workers :
        Holding(w) /\ fireJob[w].cron \notin edited =>
            Owed(crons[fireJob[w].cron]) \notin 1 .. fireJob[w].slot

\* Exactly one claimant wins a slot: two workers never fire the same slot of a cron
\* that is not rescheduled, however jobs are duplicated, fail and come back, and
\* whoever pauses, resumes or runs the cron by hand.
ClaimExclusive ==
    \A w, v \in Workers :
        w # v /\ Holding(w) /\ Holding(v) /\ fireJob[w].cron \notin edited => Key(fireJob[w]) # Key(fireJob[v])

\* Every slot a cron owes is run, or a later one in its stead, unless the cron is
\* paused or a fire that failed gives back an earlier slot: jobs that are stale,
\* early or duplicated and fires that throw lose none (nobody dies in between).
SlotsAreServed ==
    \A k \in Crons \X (1 .. MaxTime) :
        crons[k[1]].on /\ Owed(crons[k[1]]) = k[2] ~>
            \/ \E s \in Times : s >= k[2] /\ fireTurn[<<k[1], s>>] \in {"over", "kept"}
            \/ ~crons[k[1]].on
            \/ Owed(crons[k[1]]) \in 1 .. k[2] - 1

\* A job queued before a reschedule does not fire: a slot that is claimed is not
\* before the first fire of the schedule the cron has.
StaleSlotsStayStale ==
    [][\A w \in Workers : fireJob[w].at = "claim" /\ fireJob'[w].at = "fire" =>
           fireJob[w].slot >= crons[fireJob[w].cron].sched.first]_cronVars
=============================================================================
