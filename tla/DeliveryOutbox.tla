--------------------------- MODULE DeliveryOutbox ---------------------------
(***************************************************************************)
(* The outbox that carries messages from the core to Slack.  A row of the  *)
(* deliveries table (delivery/postgres-delivery-store.ts) is enqueued      *)
(* under an idempotency key, claimed for a while by the drain of some core *)
(* process (slack/deliveries.ts), posted, and acknowledged.  Each process  *)
(* remembers in its own tracker (slack/delivery.ts) what it posted, what   *)
(* keeps failing and what it gave up on.  A run's answer travels twice: the *)
(* handler that submitted the turn posts it directly (slack/core-bridge.ts)*)
(* and the run's end enqueues a recovery copy (run-result-delivery.ts),    *)
(* which the handler acknowledges by key so that no drain posts it.        *)
(*                                                                         *)
(* Time is abstract: a claim may lapse (15 s) and the recovery grace of a  *)
(* run's row may end (15 s) at any moment after they began.                *)
(***************************************************************************)
EXTENDS Naturals, Sequences, FiniteSets, SequencesExt

CONSTANTS
    Notices,      \* deliveries enqueued by the agent or a trigger, no run behind them
    Replies,      \* runs whose turn ends with an ordinary answer
    Refusals,     \* runs whose turn ends in a security quarantine
    Pollers,      \* core processes, each with a drain and a tracker
    None,         \* no delivery
    MaxAttempts,  \* DELIVERY_MAX_ATTEMPTS
    MaxTracked,   \* DELIVERY_MAX_TRACKED
    PostTries,    \* attempts of one postWithVerify
    MaxFaults     \* bound on failed calls and crashes

Runs       == Replies \cup Refusals
Deliveries == Notices \cup Runs

ASSUME DeliveriesAssumption ==
    /\ IsFiniteSet(Deliveries) /\ None \notin Deliveries \cup Pollers
    /\ Notices \cap Runs = {} /\ Replies \cap Refusals = {}
ASSUME BoundsAssumption ==
    /\ MaxAttempts \in Nat \ {0} /\ MaxTracked \in Nat \ {0}
    /\ PostTries \in Nat \ {0} /\ MaxFaults \in Nat

VARIABLES
    row,      \* the deliveries table
    tracker,  \* each process's posted, failing and given-up deliveries
    job,      \* each process's drain: what it claimed and what it is doing
    live,     \* the handler that waits for a run, and its acknowledgement
    result,   \* whether a run has ended and its listener has run
    shown,    \* how a delivery shows in Slack: with its key, or bare
    wrote,    \* history: deliveries this process knows it posted
    faults    \* failed calls and crashes so far

vars == <<row, tracker, job, live, result, shown, wrote, faults>>

Row     == [st : {"none", "pending", "delivered"}, claimed : BOOLEAN, fresh : BOOLEAN]
Tracker == [posted : Seq(Deliveries), dead : Seq(Deliveries), failing : Seq(Deliveries),
            count : [Deliveries -> 0 .. MaxAttempts - 1]]
Job     == [at : {"idle", "next", "verify", "post", "scan", "ack"},
            batch : SUBSET Deliveries, cur : Deliveries \cup {None}, tries : 0 .. PostTries]
Live    == [at : {"off", "waiting", "post", "done"}, on : Pollers \cup {None},
            ack : {"no", "trying", "over"}]

Absent  == [st |-> "none", claimed |-> FALSE, fresh |-> FALSE]
NewTracker == [posted |-> <<>>, dead |-> <<>>, failing |-> <<>>,
               count |-> [d \in Deliveries |-> 0]]
NoJob   == [at |-> "idle", batch |-> {}, cur |-> None, tries |-> 0]

Fault == faults < MaxFaults /\ faults' = faults + 1

-----------------------------------------------------------------------------
(* The table: delivery-store.ts and its Postgres form.                     *)

\* Mutated form: the insert overwrites whatever is under the key.
EnqueueRowUpserts(r) == [st |-> "pending", claimed |-> FALSE, fresh |-> TRUE]

\* enqueue: a key is inserted once; a second enqueue, or one that finds the
\* tombstone an early acknowledgement left, returns the row that is there.
EnqueueRow(r) ==
    IF r.st = "none" THEN [st |-> "pending", claimed |-> FALSE, fresh |-> TRUE] ELSE r

\* claimPending: undelivered rows whose claim is absent or has lapsed.
Claimable == {d \in Deliveries : row[d].st = "pending" /\ ~row[d].claimed}

\* ack: marks the row delivered unless it already is.
AckRow(r) == IF r.st = "pending" THEN [r EXCEPT !.st = "delivered"] ELSE r

\* ackByKey: the same, and a row that is not there yet is inserted delivered.
AckKeyRow(r) == [r EXCEPT !.st = "delivered"]

-----------------------------------------------------------------------------
(* The tracker of one process.  Its maps keep insertion order, setting a   *)
(* key that is present does not move it, and the oldest entries go first.  *)

Put(s, d)     == IF Contains(s, d) THEN s ELSE Append(s, d)
Without(s, d) == IF Contains(s, d) THEN RemoveAt(s, CHOOSE i \in DOMAIN s : s[i] = d) ELSE s
CapMap(s)     == IF Len(s) > MaxTracked THEN SubSeq(s, Len(s) - MaxTracked + 1, Len(s)) ELSE s

GivenUp(t, d) == Contains(t.dead, d)

Forget(t, d) == [t EXCEPT !.failing = Without(@, d), !.count[d] = 0]

Bury(t, d) == [Forget(t, d) EXCEPT !.posted = Without(@, d), !.dead = CapMap(Put(@, d))]

\* markPosted: beyond the cap the oldest posted entry is given up on.
MarkPosted(t, d) ==
    LET u == [t EXCEPT !.posted = Put(@, d)]
    IN  IF Len(u.posted) > MaxTracked THEN Bury(u, Head(u.posted)) ELSE u

\* Mutated form: the attempt cap is off by one.
RecordFailureLate(t, d) ==
    IF t.count[d] >= MaxAttempts THEN Bury(t, d)
    ELSE [t EXCEPT !.failing = Put(@, d), !.count[d] = @ + 1]

\* Mutated form: any failure, that of an acknowledgement too, forgets the post.
RecordFailureAnew(t, d) ==
    IF t.count[d] + 1 >= MaxAttempts THEN Bury(t, d)
    ELSE [t EXCEPT !.posted = Without(@, d), !.failing = Put(@, d), !.count[d] = @ + 1]

\* recordFailure: the last attempt buries the delivery; otherwise the count
\* goes up, and beyond the cap the oldest count is forgotten.
RecordFailure(t, d) ==
    LET n == t.count[d] + 1
        u == [t EXCEPT !.failing = Put(@, d), !.count[d] = n]
    IN  IF n >= MaxAttempts THEN Bury(t, d)
        ELSE IF Len(u.failing) > MaxTracked THEN Forget(u, Head(u.failing)) ELSE u

\* clear: an acknowledged delivery needs no memory.
Clear(t, d) == [Forget(t, d) EXCEPT !.posted = Without(@, d)]

-----------------------------------------------------------------------------
Init ==
    /\ row     = [d \in Deliveries |-> Absent]
    /\ tracker = [p \in Pollers |-> NewTracker]
    /\ job     = [p \in Pollers |-> NoJob]
    /\ live    = [d \in Runs |-> [at |-> "off", on |-> None, ack |-> "no"]]
    /\ result  = [d \in Runs |-> "running"]
    /\ shown   = [d \in Deliveries |-> {}]
    /\ wrote   = [p \in Pollers |-> {}]
    /\ faults  = 0

-----------------------------------------------------------------------------
(* Producers.                                                              *)

\* enqueue by a tool, a cron or a trigger; retried callers come back.
Enqueue(d) ==
    /\ d \in Notices
    /\ row' = [row EXCEPT ![d] = EnqueueRow(@)]
    /\ UNCHANGED <<tracker, job, live, result, shown, wrote, faults>>

\* The run store settles the run (modelled in RunQueue).
RunEnds(d) ==
    /\ result[d] = "running"
    /\ result' = [result EXCEPT ![d] = "settled"]
    /\ UNCHANGED <<row, tracker, job, live, shown, wrote, faults>>

\* The onTerminal listener enqueues the recovery copy under the run's key ...
Listen(d) ==
    /\ result[d] = "settled"
    /\ result' = [result EXCEPT ![d] = "listened"]
    /\ row' = [row EXCEPT ![d] = EnqueueRow(@)]
    /\ UNCHANGED <<tracker, job, live, shown, wrote, faults>>

\* ... or fails, which is only logged.
ListenFails(d) ==
    /\ result[d] = "settled" /\ Fault
    /\ result' = [result EXCEPT ![d] = "listened"]
    /\ UNCHANGED <<row, tracker, job, live, shown, wrote>>

-----------------------------------------------------------------------------
(* The live handler of a run, in the process that took the message.        *)

\* Mutated form: the pin is dropped as soon as the answer is known.
PinnedWhileWaiting(p, d) == d \in Runs /\ live[d].on = p /\ live[d].at = "waiting"

\* inFlightRuns.has: pinned while the handler waits, until the acknowledgement
\* loop ends; a quarantine's pin also covers the post that precedes it.
Pinned(p, d) ==
    /\ d \in Runs /\ live[d].on = p
    /\ \/ live[d].at = "waiting"
       \/ live[d].ack = "trying"
       \/ live[d].at = "post" /\ d \in Refusals

\* pollRun pins the run as soon as the submission returns, in some process.  That is taken
\* to be before the grace of the run's recovery row is over (15 seconds from its creation):
\* a submission that returns later is left out.
LiveWaits(d) ==
    /\ live[d].at = "off"
    /\ row[d].st = "none" \/ row[d].fresh
    /\ \E p \in Pollers : live' = [live EXCEPT ![d].at = "waiting", ![d].on = p]
    /\ UNCHANGED <<row, tracker, job, result, shown, wrote, faults>>

\* waitRun throws (the run stalls, the core is unreachable): unpinned, and the
\* recovery copy will answer.
LiveLetsGo(d) ==
    /\ live[d].at = "waiting"
    /\ live' = [live EXCEPT ![d].at = "done"]
    /\ UNCHANGED <<row, tracker, job, result, shown, wrote, faults>>

\* Mutated form: every outcome is acknowledged before it is posted.
StartsEveryAck(d) == "trying"

\* waitRun returns.  An ordinary answer starts the acknowledgement loop before
\* the handler posts; a quarantine is posted first.
StartsAck(d) == IF d \in Replies THEN "trying" ELSE "no"
LiveAnswered(d) ==
    /\ live[d].at = "waiting" /\ result[d] # "running"
    /\ live' = [live EXCEPT ![d].at = "post", ![d].ack = StartsAck(d)]
    /\ UNCHANGED <<row, tracker, job, result, shown, wrote, faults>>

\* The handler's post: a quarantine carries the run's key (postWithVerify), an
\* ordinary reply carries none.
LivePosts(d) ==
    /\ live[d].at = "post"
    /\ shown' = [shown EXCEPT ![d] = @ \cup {IF d \in Replies THEN "bare" ELSE "keyed"}]
    /\ live' = [live EXCEPT ![d].at = "done",
                            ![d].ack = IF d \in Refusals THEN "trying" ELSE @]
    /\ UNCHANGED <<row, tracker, job, result, wrote, faults>>

\* The post fails: a quarantine is released for recovery, the acknowledgement
\* of an ordinary reply goes on regardless.
LivePostFails(d) ==
    /\ live[d].at = "post" /\ Fault
    /\ live' = [live EXCEPT ![d].at = "done",
                            ![d].ack = IF d \in Refusals THEN "over" ELSE @]
    /\ UNCHANGED <<row, tracker, job, result, shown, wrote>>

\* ackRunDeliveryWithRetry reaches the core ...
AckByKey(d) ==
    /\ live[d].ack = "trying"
    /\ row' = [row EXCEPT ![d] = AckKeyRow(@)]
    /\ live' = [live EXCEPT ![d].ack = "over"]
    /\ UNCHANGED <<tracker, job, result, shown, wrote, faults>>

\* ... or gives up after its last delay.
AckByKeyGivesUp(d) ==
    /\ live[d].ack = "trying" /\ Fault
    /\ live' = [live EXCEPT ![d].ack = "over"]
    /\ UNCHANGED <<row, tracker, job, result, shown, wrote>>

-----------------------------------------------------------------------------
(* The drain of process p: one at a time per process (drainDeliveries).    *)

Drain(p) ==
    /\ job[p].at = "idle" /\ Claimable # {}
    /\ job' = [job EXCEPT ![p] = [NoJob EXCEPT !.at = "next", !.batch = Claimable]]
    /\ row' = [d \in Deliveries |-> IF d \in Claimable THEN [row[d] EXCEPT !.claimed = TRUE]
                                                       ELSE row[d]]
    /\ UNCHANGED <<tracker, live, result, shown, wrote, faults>>

DrainEnds(p) ==
    /\ job[p].at = "next" /\ job[p].batch = {}
    /\ job' = [job EXCEPT ![p] = NoJob]
    /\ UNCHANGED <<row, tracker, live, result, shown, wrote, faults>>

\* Mutated form: a delivery this process posted is passed over as well.
PassesOverPosted(p, d) ==
    \/ Pinned(p, d)
    \/ d \in Runs /\ row[d].fresh
    \/ GivenUp(tracker[p], d)
    \/ Contains(tracker[p].posted, d)

\* A run with a live handler here, a run's row within its grace, and a delivery
\* given up on are passed over; their claim stays until it lapses.  createdAt is
\* on the claimed copy and Date.now() is read now.
PassesOver(p, d) ==
    \/ Pinned(p, d)
    \/ d \in Runs /\ row[d].fresh
    \/ GivenUp(tracker[p], d)

Skip(p, d) ==
    /\ job[p].at = "next" /\ d \in job[p].batch
    /\ PassesOver(p, d)
    /\ job' = [job EXCEPT ![p].batch = @ \ {d}]
    /\ UNCHANGED <<row, tracker, live, result, shown, wrote, faults>>

\* deliverWithRetry: what was posted before only has its acknowledgement
\* retried; a run's copy is first looked for in Slack (verifyFirst).
FirstStep(p, d) ==
    IF Contains(tracker[p].posted, d) THEN "ack"
    ELSE IF d \in Runs THEN "verify" ELSE "post"

Begin(p, d) ==
    /\ job[p].at = "next" /\ d \in job[p].batch
    /\ ~PassesOver(p, d)
    /\ job' = [job EXCEPT ![p] = [at |-> FirstStep(p, d), batch |-> @.batch \ {d},
                                  cur |-> d, tries |-> 0]]
    /\ UNCHANGED <<row, tracker, live, result, shown, wrote, faults>>

\* post() returned: markPosted, then the acknowledgement.
Posted(p) ==
    LET d == job[p].cur IN
    /\ tracker' = [tracker EXCEPT ![p] = MarkPosted(@, d)]
    /\ wrote' = [wrote EXCEPT ![p] = @ \cup {d}]
    /\ job' = [job EXCEPT ![p].at = "ack"]

\* post() or ack() threw: recordFailure, and on to the next row.
Failed(p) ==
    /\ tracker' = [tracker EXCEPT ![p] = RecordFailure(@, job[p].cur)]
    /\ job' = [job EXCEPT ![p] = [NoJob EXCEPT !.at = "next", !.batch = job[p].batch]]

\* The preflight, and the scan after a post whose outcome is unknown: a message
\* with the key counts as posted.
FindsPost(p) ==
    /\ job[p].at \in {"verify", "scan"}
    /\ "keyed" \in shown[job[p].cur]
    /\ Posted(p)
    /\ UNCHANGED <<row, live, result, shown, faults>>

FindsNothing(p) ==
    /\ job[p].at \in {"verify", "scan"}
    /\ "keyed" \notin shown[job[p].cur]
    /\ IF job[p].tries < PostTries
       THEN job' = [job EXCEPT ![p].at = "post"] /\ UNCHANGED tracker
       ELSE Failed(p)
    /\ UNCHANGED <<row, live, result, shown, wrote, faults>>

\* Slack cannot be read: the drain's post() throws.
ScanFails(p) ==
    /\ job[p].at \in {"verify", "scan"} /\ Fault
    /\ Failed(p)
    /\ UNCHANGED <<row, live, result, shown, wrote>>

Post(p) ==
    /\ job[p].at = "post"
    /\ shown' = [shown EXCEPT ![job[p].cur] = @ \cup {"keyed"}]
    /\ Posted(p)
    /\ UNCHANGED <<row, live, result, faults>>

\* A platform error: nothing was posted, no retry.
PostRefused(p) ==
    /\ job[p].at = "post" /\ Fault
    /\ Failed(p)
    /\ UNCHANGED <<row, live, result, shown, wrote>>

\* Rate limited: nothing was posted; retried without a scan.
PostLimited(p) ==
    /\ job[p].at = "post" /\ Fault
    /\ IF job[p].tries + 1 < PostTries
       THEN job' = [job EXCEPT ![p].tries = @ + 1] /\ UNCHANGED tracker
       ELSE Failed(p)
    /\ UNCHANGED <<row, live, result, shown, wrote>>

\* The answer is lost: the message may or may not be there.
PostUnclear(p) ==
    /\ job[p].at = "post" /\ Fault
    /\ \/ shown' = [shown EXCEPT ![job[p].cur] = @ \cup {"keyed"}]
       \/ UNCHANGED shown
    /\ job' = [job EXCEPT ![p].at = "scan", ![p].tries = @ + 1]
    /\ UNCHANGED <<row, tracker, live, result, wrote>>

Ack(p) ==
    /\ job[p].at = "ack"
    /\ row' = [row EXCEPT ![job[p].cur] = AckRow(@)]
    /\ tracker' = [tracker EXCEPT ![p] = Clear(@, job[p].cur)]
    /\ job' = [job EXCEPT ![p] = [NoJob EXCEPT !.at = "next", !.batch = job[p].batch]]
    /\ UNCHANGED <<live, result, shown, wrote, faults>>

\* The acknowledgement fails; the write may have landed all the same.
AckFails(p) ==
    /\ job[p].at = "ack" /\ Fault
    /\ \/ row' = [row EXCEPT ![job[p].cur] = AckRow(@)]
       \/ UNCHANGED row
    /\ Failed(p)
    /\ UNCHANGED <<live, result, shown, wrote>>

-----------------------------------------------------------------------------
(* The environment.                                                        *)

\* The process dies and comes back with nothing in memory; its handlers are gone.
Crash(p) ==
    /\ Fault
    /\ tracker' = [tracker EXCEPT ![p] = NewTracker]
    /\ job'     = [job EXCEPT ![p] = NoJob]
    /\ wrote'   = [wrote EXCEPT ![p] = {}]
    /\ live'    = [d \in Runs |->
                     IF live[d].on = p /\ live[d].at # "off"
                     THEN [live[d] EXCEPT !.at = "done", !.ack = "over"] ELSE live[d]]
    /\ UNCHANGED <<row, result, shown>>

ClaimLapses(d) ==
    /\ row[d].st = "pending" /\ row[d].claimed
    /\ row' = [row EXCEPT ![d].claimed = FALSE]
    /\ UNCHANGED <<tracker, job, live, result, shown, wrote, faults>>

GraceEnds(d) ==
    /\ d \in Runs /\ row[d].st = "pending" /\ row[d].fresh
    /\ row' = [row EXCEPT ![d].fresh = FALSE]
    /\ UNCHANGED <<tracker, job, live, result, shown, wrote, faults>>

DrainSteps(p) ==
    \/ Drain(p) \/ DrainEnds(p) \/ FindsPost(p) \/ FindsNothing(p) \/ Post(p) \/ Ack(p)
    \/ \E d \in Deliveries : Skip(p, d) \/ Begin(p, d)

LiveSteps(d) == LiveAnswered(d) \/ LivePosts(d) \/ AckByKey(d)

Next ==
    \/ \E d \in Notices : Enqueue(d)
    \/ \E d \in Runs : \/ RunEnds(d) \/ Listen(d) \/ ListenFails(d)
                       \/ LiveWaits(d) \/ LiveLetsGo(d) \/ LivePostFails(d)
                       \/ AckByKeyGivesUp(d) \/ LiveSteps(d)
    \/ \E p \in Pollers : \/ DrainSteps(p) \/ Crash(p)
                          \/ ScanFails(p) \/ PostRefused(p) \/ PostLimited(p)
                          \/ PostUnclear(p) \/ AckFails(p)
    \/ \E d \in Deliveries : ClaimLapses(d) \/ GraceEnds(d)

Spec == Init /\ [][Next]_vars

\* A process's event loop runs its drain (enqueue listener and 60 s timer), a
\* handler's promises settle, and claims and graces are wall-clock intervals.
FairSpec ==
    /\ Spec
    /\ \A p \in Pollers : WF_vars(DrainSteps(p))
    /\ \A d \in Runs : WF_vars(LiveSteps(d))
    /\ \A d \in Deliveries : WF_vars(ClaimLapses(d)) /\ WF_vars(GraceEnds(d))
-----------------------------------------------------------------------------
TypeOK ==
    /\ row \in [Deliveries -> Row]
    /\ tracker \in [Pollers -> Tracker]
    /\ job \in [Pollers -> Job]
    /\ live \in [Runs -> Live]
    /\ result \in [Runs -> {"running", "settled", "listened"}]
    /\ shown \in [Deliveries -> SUBSET {"keyed", "bare"}]
    /\ wrote \in [Pollers -> SUBSET Deliveries]
    /\ faults \in 0 .. MaxFaults

Trying(p, d) == job[p].cur = d /\ job[p].at \in {"verify", "post", "scan"}

\* A notice or a quarantine note marked delivered is in Slack: post comes before
\* ack in deliverWithRetry and in postThenAckRunDelivery, whatever fails, lapses
\* or crashes in between.  (An ordinary reply is excluded: pollRun starts its
\* acknowledgement before the handler posts.)
DeliveredWasShown ==
    \A d \in Notices \cup Refusals : row[d].st = "delivered" => shown[d] # {}

\* A process never sets out again to post what it knows it posted: after a failed
\* acknowledgement only the acknowledgement is retried, until the delivery is
\* acknowledged or given up on, and then it is skipped (the tracker's promise).
NeverPostsAgain ==
    \A p \in Pollers, d \in Deliveries : row[d].st = "pending" /\ Trying(p, d) => d \notin wrote[p]

\* The drain does not post a run's recovery copy while the handler of the same
\* process still waits for the run, posts its quarantine note or acknowledges it.
RecoveryStandsBack ==
    \A p \in Pollers, d \in Runs :
        Trying(p, d) /\ live[d].on = p =>
            /\ live[d].at # "waiting" /\ live[d].ack # "trying"
            /\ d \in Refusals => live[d].at # "post"

\* A delivered row stays delivered: neither a late enqueue of the recovery copy
\* over an early acknowledgement's tombstone nor a retried enqueue revives it.
SettledStays ==
    [][\A d \in Deliveries : row[d].st = "delivered" => row'[d].st = "delivered"]_vars

\* Every row that is waiting is eventually delivered, or some process gave up on
\* it: graces, pins, lapsing claims, failed acknowledgements and crashes delay a
\* row but do not strand it.
Settles ==
    \A d \in Deliveries :
        row[d].st = "pending" ~> \/ row[d].st = "delivered"
                                \/ \E p \in Pollers : GivenUp(tracker[p], d)
=============================================================================
