# LOS core: TLA+ models, checks and proofs

This directory models the headless core of LOS (`src/src/`): the part that takes a message, queues a
run, drives a turn of an agent over a session, delivers the answer, fires crons, and the services
around it (signals, monitors, asks for credentials, limits, durable maps, published apps, the move of a
computer). It holds TLA+ modules translated from the TypeScript, TLC configurations that check them on small instances, and
theorems proved with TLAPS for every value of the constants. `PROJECT.json` ties each definition to
the source lines it stands for, each property to the run that checks it, and lists the hazards.

Run a check with `tlc -config X.cfg M.tla`, the proofs of a module with `tlapm M.tla`, for M one of
`RunQueueProofs`, `RunBudgetProofs`, `TurnProofs`, `OutboxProofs`, `SignalProofs`, `WordProofs`, `ServiceProofs`
and `CompositionProofs`.

## The system

Several core processes share one Postgres database. Nothing else is shared: whatever coordination
there is consists of single SQL statements, fences on tokens, and wall-clock leases.

| Part | State it keeps | Operations | What makes it correct |
|---|---|---|---|
| Run queue (`runs/`) | `runs` rows: status, attempts, errors, lease token and expiry | enqueue, claim, heartbeat, complete, fail (retire), release, reap, notify | one running run per session; a lost lease is harmless; budgets hold; a run ends once, and does end |
| Workers, inline requests, reaper | the run in hand, lost beats, the stop flag | the loop, `processRun`, `releaseInFlight`, `reapExpired` | shutdown and death lose no run; a sweep reaps only lapsed leases |
| Turn (`core/orchestrator.ts`) | the session lease, the entries appended | open, append, close, release | the log is fenced; a run reported ok is in the log |
| Session store (`sessions/`) | `session_leases`, entries | acquire, append, release, force-release | a former holder cannot write after a later one |
| Compaction (`core/orchestrator/compaction.ts`, `harness/context-compaction.ts`) | summaries in the log | plan, summarise, write, read the window | nothing leaves the context unsummarised; the boundary never moves back |
| Delivery outbox (`delivery/`, `slack/`) | `deliveries` rows; per process: posted, failing, given up; pins | enqueue, claim, post, verify, ack, ack by key | at most one post per process; what is marked delivered was shown; every row settles |
| Cron (`cron/`, `triggers/`, `idempotency/`) | cron rows, fire jobs, committed fire keys | fetch, claim, fire, settle, chain, unclaim, reconcile, edit | a slot has one owner; a claim stands; every slot owed is served |
| Run signals (`runs/*signal*`, `api/app-turn.ts`) | `run_signals` rows; per attempt: the poll, its drain, the batch in hand | send and recheck, drain, handle, stop, replay by sender, listener or sweep | a message reaches a model once; a stopped poll is quiet; none waits for ever |
| Monitors (`monitors/`, `persistence/leader-lease.ts`) | the watch with its cursor and held-back tail; the tick lease; fire keys | watch, unwatch, a pass: read, fire, commit, advance, disable | output is told once and in whole lines; the end of a job is told |
| Asks for credentials (`credentials/keychain.ts`, `triggers/keychain-ask.ts`) | the ask's status and `notifiedAt`; keys in flight and done | create, approve, decline, adopt, expire, sweep, fire, fall back, mark, prune | marked notified means told; each ask is told |
| Limits (`ratelimit/`) | windows; spend per key and time | check, record | both limiters agree; bursts and overruns are bounded |
| Durable maps (`persistence/durable-map.ts`) | rows and a version; a cache in each process | update under the version's row lock, cached reads | no write lost; a read is as new as its call |
| Published apps (`deploy/`) | the record: versions, current, applied, status, endpoint; the live body | publish, roll back, archive, restore, rename under a lock; visits, transfers and some settings without it | versions stand and the record is true, as long as no write without the lock is stale |
| A scope's computer (`sandbox/sandbox-routing.ts`, `sandbox-migration-runner.ts`) | the route, a cache of it in each router, a home on each backend | pick a backend, move the home to another one | work that no move came between meets on one computer |
| API, Slack, web and admin surfaces; harnesses; provisioning; credentials proper; memory; skills | | | I/O and decision functions, not modelled, see below |

How they meet: an API request enqueues a run (under its idempotency key) and either drives it inline
or leaves it to a worker. A driver holds the run's lease (`runs.lease_token`, renewed by a beat) and
inside it the session's lease (`session_leases`, taken by the turn). The reaper retires runs with a
lapsed lease and then force-releases their sessions. A terminal run notifies listeners, one of which
enqueues a recovery copy of the reply in the outbox; the live handler that waits for the run posts
the reply itself and acknowledges the copy by key. A cron fire is a run under the key of its slot.

What is hard here: zombies (a driver whose lease was reaped goes on computing), decisions on rows
read before an `await`, sweeps that overlap, the two leases being released in different statements
by different processes, shutdown in the middle of any of these, caches with a cap, edits that
race with a fire, records that are read whole and put back whole, caches of rows and routes in several
processes, spend that is recorded after it was checked.

## Modules

| Module | Models | Composition |
|---|---|---|
| `RunLifecycle` | what a run promises: absent, pending, running, ended; ends once | abstract specification |
| `RunQueue` | run store, worker, inline driver, reaper | implements `RunLifecycle` (`ImplementsLifecycle`) |
| `TurnExecution` | the turn over the session lease and log | extends `RunQueue`: every queue step, with the turn inside the driver's `running` phase |
| `DeliveryOutbox` | the outbox, live handlers, drains of several processes | stands alone; a run's end is one action |
| `Compaction` | folding of a session by turns and background passes | stands alone |
| `CronScheduler` | the scheduler in queue mode | stands alone; a fired run is started and over |
| `RunSignals` | messages to a live run, their polls and replays | stands alone; runs are reduced to who owns them |
| `MonitorPoller` | the watch on a job, passes under the tick lease | stands alone |
| `KeychainAsks` | an ask, its answers, the turn or the message that tells | stands alone |
| `RateLimiter`, `SpendBudget` | the limits on turns and on money | stand alone |
| `DurableMap` | the versioned, cached table most stores are made of | stands alone |
| `DeployService` | one published app: operations and visits | stands alone |
| `SandboxMove` | one scope's computer: turns sent by cached routes, moves | stands alone |
| `RunQueueProofs`, `RunBudgetProofs` | theorems about `RunQueue` | the second extends the first |
| `TurnProofs` | theorems about `TurnExecution` | extends it and the proofs of the queue |
| `OutboxProofs` | theorems about `DeliveryOutbox` | extends it |
| `SignalProofs` | theorems about `RunSignals` | extends it |
| `WordProofs` | theorems about `KeychainAsks`, `MonitorPoller` and the composition `MCSignals` | extends it and `SignalProofs` |
| `ServiceProofs` | theorems about `DurableMap`, `RateLimiter`, `SpendBudget`, `SandboxMove`, `CronScheduler`, `Compaction`, `DeployService`, a section each | extends them |
| `CompositionProofs` | theorems about the composition `MCServices` | extends it, `OutboxProofs` and `ServiceProofs` |
| `MCRunQueue`, `MCTurnExecution` | the instances for TLC | extend the module they are named for |
| `MCServices` | eight services that share no state | extends `DeliveryOutbox`, `Compaction`, `CronScheduler`, `RateLimiter`, `SpendBudget`, `DurableMap`, `DeployService`, `SandboxMove` |
| `MCSignals` | three components that bring word to somebody | extends `RunSignals`, `MonitorPoller`, `KeychainAsks` |

### Conventions

- **One SQL statement is one step.** Between two statements of a handler everybody else may run; the
  handler's local variables are part of its record (`drv`, `rel`, `sweep`, `job`). `FOR UPDATE SKIP
  LOCKED` is therefore the choice of a row nobody has.
- **Time is what the code compares it with.** A lease has `lapsed`, a run is `aged`, a row of the
  outbox is `fresh` (in its grace) or `claimed`; an action of the environment flips them. A sweep
  keeps the set `due` of the rows that had lapsed when it read the table: a renewal takes a row out,
  which is exactly `ifExpiredAt`. Only cron has a clock, of small numbers, since slots are computed
  from times.
- **Two assumptions about time** are in guards. A claim of a cron does not fall in the millisecond of
  another one that is still in the row, under way, or read by a job that is about to claim (`NewTime`; a job
  to which it would happen is dropped), because `unclaimSlot` tells its claim by its millisecond. And a live
  handler begins to wait for its run before the grace of the recovery row (15 s from its creation) is over
  (`LiveWaits`): a submission that takes longer than its run and 15 s to return is left out; its handler would
  pin a run whose copy another process may be posting. That the claim on a row (15 s as well) runs out while
  a drain is still busy with the row is not excluded: `ClaimLapses` can happen at any time.
- **Faults** (a death, a shutdown, a failed statement) are counted by `faults` and bounded by
  `MaxFaults`; so are edits, crashes and the length of logs. Every bound is a named constant.
- A definition whose comment begins with **"Mutated form"** is never used by the specification. It is
  the definition after it with a plausible mistake, and shows that a property can fail.
- Data is abstracted to what is compared: a reply is its run, a log entry is a token, a run and an
  attempt, a transcript entry is a kind and a call.

### RunQueue

`row` is the table; `drv[d]` is `processRun` and the loop around it, with the copy of the row it read
at claim time; `rel[w]` is `releaseInFlight`; `sweep[s]` is one pass of `reapExpired`. The statements
`ClaimRow`, `RenewLease`, `CompleteRow`, `ReleaseRow`, `RetireRow` carry their fences as the code does:
`Owns` (id, token and running), `CompleteFence` (id and token only), `ReapFence` (the token, and the
expiry as the sweep saw it). `Requeues` and `RetireReason` are computed from the copy, not from the
row, because `retire` does so. A beat counts what it finds lost (`LEASE_LOST_CONSECUTIVE`), an error of
a beat resets the count. `canClaim` and sleeping between polls are steps that may be taken or not.

### TurnExecution

Adds `lock` (session leases), `log` (who wrote), `turn` (one per driver), `result` and a background
compaction. A turn may refuse early, find the session busy (which *completes* the run with a refusal),
take the lease, append under it, and end; ending, failing and cancelling each release in the code's
order. The reaper's `onRetired` and `releaseInFlight` delete a session's lease whoever holds it.
The expiry of a session lease matters for acquiring only: `append` checks the token alone.

### DeliveryOutbox

`row` is the table, `tracker` the three capped maps of each process, `job` its drain, `live` the handler
that waits for a run, `shown` what Slack shows (with the delivery's key, or bare). Posts may be refused,
rate-limited or unclear; an unclear post is looked for by key before it is repeated. Reactions,
deletions, edits in place and the second drain (to principals) follow the same steps and are not told
apart.

### Compaction

`log` is a session's entries and `lease` its session lease. A `turn` that finds itself over the hard budget
folds under the lease it holds; a background `pass` over the soft budget summarises a snapshot without the
lease, takes the lease for a bounded wait, and writes if no summary appeared since. Token budgets are a number of entries (`MaxEntries`).
Audience labels, and the second cut of the returned history (`compaction.ts:194`), are left out.

### CronScheduler

`crons` has the schedule, `next` and `last` of each cron; `jobs` are the queued fire jobs (one per cron and
slot, sent at most once each); `fireJob` is what a worker's handler is doing with the copy it read. `Owed`
is `recoverNextFireAt`, `ClaimRow`/`UnclaimRow` are the two atomic row updates, and `fireTurn` is the run of
each fire key with the commit of `once`. Archiving and deleting count as disabling.

### RunSignals

`rows` are the signals of each run in the store, by id, `poll` the polls of the attempts, `sender` the senders (a message of
the thread, a text by the signal route, a stop), `replay` what each replayer has taken. `Taken` is
`takePending`: read and consumed in one statement. `drain` is one at a time, with `again` for the request
that came meanwhile; `PollStops` and `PollStopped` are `stop`, which a harness of `Drainers` begins with one
more drain. A replay asks the turn API for a turn: that enqueues a run, or throws, or answers that the turn is
refused or blocked by an approval the thread waits for. The replay does not look at the answer
(`app-helpers.ts:495-497`), so the message is then gone without a word (`"refused"`). A message that is refused
or blocked when it is first sent has left nothing behind and is as one that was not sent. `fate` and `served`
are history.

### MonitorPoller

`proc` is the job and all it will write, `mon` the watch, `pass` the pass of each process on its copy of the
watch. Output is a sequence of pieces, of which a `half` is a line whose end is the next piece; the tail that
is held back is the output after `from`. Debounce, heartbeat and expiry are choices. `woken` are the fire
keys that have a run, `told` what the input of each said, `kept` the committed keys.

### KeychainAsks

`ask` is the store, `answer` the owner's calls (each reads and then merges), `sweep` each process's list,
`fire` one `fireAskResolution` of each call and sweep with the steps of `once`: keys in flight are known to
one process, `doneKeys` and `askRun` to all. A turn may be denied (its owner is no longer internal,
`FireDenied`) or barred inside `once` (he has left the room of the ask, `FireBarred`); either way, as when the
turn fails, the plain message is next. `FallsBack` sends it if the ask has a destination that the asker can see;
if not nothing is sent, the ask is `unreached`, and the route or the sweep marks it notified all the same.
`NotifiedWasTold` names that case. The reply of a turn that ends well goes out under the same condition. An
adoption that comes too late is refused (`AnswerExpires`) and does not count as one.

### RateLimiter, SpendBudget

The limiter in memory and the one in Postgres run side by side on the same calls; `admitted` is the sequence
of the times of those that were let through. In `SpendBudget` a turn is
checked by two statements (its principal's key, then `@org`), its model calls post spend that nobody waits
for, and each post is recorded for the principal and then for everybody. Money is whole dollars, and the rows
of `budget_spend` are kept dollar by dollar: when the n-th dollar of a turn was spent, as far as the key's rows
say (`Unspent` if none does). What a key has spent is then the number of its dollars within the window, and a
sum is a cardinality. `peak` is the most turns of a key that were under way at once.

### DurableMap

`table` holds a counter as its one row, so that a lost write can be told; `Begins` locks the version's row
to the end of the transaction. A read asks for the version, looks at the process's cache when the answer is
there, and asks for the rows otherwise; several calls of one process fill its cache in any order. The lock an
update takes on the row as well (`durable-map.ts:196`) is left out: it allows less than the model does.

### DeployService

`app` is the record, `op` the operation or visit of each caller as a list of statements, each a get of the
whole record and a put. Publishing, rolling back, archiving, restoring and the two renames of the route
(`"edit"`) hold the lock `deploy:<id>`. Without it run: what a visit sets, unless it finds no body and takes
the lock to bring one up; the default audience that a publication ends with (`Onward`); the rename that a
publication may begin with, and the transfer to another owner (`Changes`, `Ends`). Names, owners and audiences
are not kept in the model: what matters of their setters is that they put the whole record back
(`"settings"`). `Undone` is what is left of an operation of which a statement threw. `settled` says that the
last operation under the lock ran to its end; edits leave it as it is.

A setter without the lock that puts back a record which has changed since it was read (`StalePut`) undoes
whatever the change was, a version included; `deploy_visits` shows that this happens. The other claims are made of
behaviours without such a put, and need nothing else: stale copies may be held, and dropped by a throw or a death.

`body` is what the provider's pointer for the app leads to. The provider's `destroy` keeps a failed terminate
and a failed delete of the pointer to itself (`aws-deploy-provider.ts:658`, `:661`). If one of them
succeeds nobody reaches the body any more (what is left may be a body nobody has a pointer to, which is not
modelled); if both fail it goes on serving, and `leftOver` says so (`Destroys`). Visits may resolve by the
provider's cache, which may lag behind: `Resolves` and `VisitEnters` leave open what it answers.

Left out: the creation of an app, which takes no lock, but whose id nobody knows before it returns; that the
lock's connection dies while the caller lives and goes on without it (`advisory-lock.ts:56-71`): `CallerDies`
has them die together. With that an operation can overlap the next one as if there were no lock, and neither
claim would stand.

### SandboxMove

`route` is the row of `sandbox_routing`, `routeCache` each router's copy, which lives 15 s (`CacheLapses`),
`home` the content on each backend, as the number of the last write in it. `built` are the backends each
process has constructed: where the routed one is missing `Picked` falls back on the default, and `migrateScope`
refuses. A job keeps the backend of the handle it was given. `mover` is `migrateScope` under its lock: refused while there is work in the background,
else provision, pack, extract, put the route, wait until what was cached before has left every cache (`Settled`: the wait is as
long as the cache's life), look at the old home and copy once more if it changed. It may break off between
any two statements. `WorkMeets` is about jobs that started with no move under way in a process that has the backend
(`sure`). When a move breaks off in its wait, a router may still send turns to the old computer, and no move
is under way any more: `astray` is set until the last such route has lapsed, at most 15 s, and jobs started
meanwhile are not `sure`. That they go to the old computer is what the code does; jobs started afterwards are
judged again, whether or not another move comes.

## Checks

| Run | Instance | Shows |
|---|---|---|
| `run_queue` | 1 run, a worker, an inline driver, 2 sweeps, 1 error, 2 claims, 2 faults | budgets, fences, one ending, only lapsed leases reaped |
| `run_queue_live` | 2 runs of a session, a worker, a sweep, 2 errors, 2 claims, 1 fault, fair | one running per session; implements `RunLifecycle`; every run ends |
| `turn_fencing` | 1 run, worker, inline driver, sweep, background compaction, 1 fault, log of 2 | the log is fenced; a run reported ok is in it |
| `turn_retry` | as above with a retry | *violated*, see Findings |
| `outbox_settles` | a notice and a reply, 2 processes, 1 fault, fair | every row is delivered or given up on |
| `compaction_tools` | tool calls in flight together | *violated* |
| `cron_served` | 1 cron, 2 workers, two failing fires, no edits or deaths, fair | every slot owed is served |
| `cron_stale_slot` | an edit during a fire | *violated* |
| `services` | one behaviour per service, 2 processes or callers each: the outbox (a notice and a quarantine, 2 faults, 2 tries), compaction (window of 4, log of 6), a cron of any kind with edits, faults and a death, the limiters (5 calls, window of 3), the budget (3 turns, 2 principals), a durable map (2 writers, 2 reads, 2 caches), a published app (2 owners, a visit, 2 faults), a computer (2 backends, 2 turns, 2 routers, 2 moves, a fault) | marked delivered means shown, no post twice by a process, recovery stands back, settled stays settled; nothing leaves the context, whose boundary never moves back; one owner per slot, a claim stands; both limiters agree, bursts and overruns are bounded; no write lost, no stale read; versions stand, the record is true; work that no move came between meets |
| `signals_and_monitors` | one behaviour per component: three signals and live runs in all with 2 polls, a watch on a job of two pieces with 2 processes, an ask with an owner's call and 2 processes; 1 fault each; fair | a message reaches a model once, a stopped poll is quiet; output is told once and in whole lines; marked notified means told; no word waits for ever |
| `ask_fallback` | one ask, one answer, one process, no fault | *violated* |
| `deploy_visits` | one publication, one visit, no fault | *violated* |

**Runs of several services.** In `MCServices` and `MCSignals` the variable `part` names the one service a
behaviour is about; the others stay in one initial state and take no step, so the state space is the sum of
theirs. That loses nothing, since they share no variable. Processes, workers and callers of all services are
one set of model values, under whose permutations the runs of invariants are reduced; the specifications
treat them alike, and no run with a liveness property uses symmetry. Two services do not do all they can: cron ends when a cron has been rescheduled (`ClaimStands` and
`ClaimExclusive` are about a schedule; the edit itself is the subject of `cron_stale_slot`), and the deploy
service takes every step but the put of a stale record without the lock (`StalePut`; `deploy_visits` is that
case, and with it `VersionsStand` and `RecordIsTrue` could not be asked of anything else). Of a session's log only the second entry may be one
in quarantine: an entry is hidden wherever it stands, and this is where both folds meet it.
`WordGetsThrough` is one formula for the messages (`SteersWait`), the ends of jobs (`EndWaits`) and the asks
(`AsksWait`): each waits again and again for nothing in the end, and since only one part moves, the
disjunction is the one of that part.

**Why the bounds are enough.** The interesting cases need two actors and one or two steps of bad luck:
a zombie and its successor (two drivers or two sweeps of one run), a budget reached and overstepped by
one (error budget 1 or 2, claim cap 2), a second fault during the recovery from the first (2 faults in
`run_queue`, the outbox and the deploy service), a window that overflows twice (`MaxEntries = 4`: over soft
at three entries, over hard at four, one recent entry kept; a log of 6 makes two folds), a slot, the one
chained after it, and one edited in between (times up to 3), a burst of 5 calls at a limit of 3 over two
windows, three turns at a budget that two exhaust, two committed writes under two reads and two caches, a
version published while another is rolled back (3 versions), a move there and a move back with a turn at
each. Where the instance cannot show generality the theorems do: every invariant and action property of a
passing run is proved for every value of the constants. Each property also has a mutated definition under which its run fails, so no
bound hides the case.

**Deadlock** is checked for `RunQueue` and `TurnExecution`, where the environment and the loops always have
something to do. The other instances really end (all rows settled, log full, the clock at its bound, every
call made) and say `CHECK_DEADLOCK FALSE`.

**Fairness.** `RunQueue`: weak fairness of each driver's own steps, of sweeps and of the lapse of a dead
holder's lease: promises settle, the reaper is a timer (`wiring.ts`), an expiry is a time. Faults are
not fair. Claims are fair because every worker polls. `DeliveryOutbox`: the drain runs on a timer and on
every enqueue, claims and graces lapse by time, a handler's promises settle; nothing is assumed of
Slack beyond the bound on faults. `CronScheduler`: the tick job reconciles, handlers run, runs end (this is
`EveryRunEnds`), time passes, and fetching a job is strongly fair because a worker is busy now and then
but takes the oldest job when it is free. `RunSignals` (`SigFairness`): drains, handlers, stops, senders and
replays go on, a pending run is claimed or parked, the lease of a dead attempt lapses and the orphan sweeper
comes by; the poll's own interval is not needed, since what a poll leaves is replayed. `MonitorPoller`
(`MonFairness`): some process ticks, and a pass once begun goes on. `KeychainAsks` (`AskFairness`): the sweep
rides on the scheduler's tick, promises settle, runs end. Of the signals and the asks only finitely many of
the steps named can be taken, so weak fairness of their disjunction is enough.

## Proofs

Every invariant and every action property that a passing run checks is proved, for any sets of runs, drivers,
processes, callers and keys, any budgets and any bounds, from the named assumptions of the module it is about
(what the constants are, and that the null values are none of the others; nothing about sizes beyond "positive"
or "finite"). No theorem needs fairness. Three have a condition, which is the one under which the property is
checked: `OutputToldOnce` speaks of watches none of whose passes was cut off (`~cut`, a part of `ToldOnce` and
`LinesStayWhole`), `PostsOnce` assumes that no process has given up on as many deliveries as its map holds
(`[]Roomy`), and the theorems about deploys that no setter without the lock puts back a record that has changed
since it was read (`[][~StalePut]_deployVars`; `deploy_visits` shows what happens then).

About `RunQueue` (`RunQueueProofs`, `RunBudgetProofs`; `RunsAssumption`, `DriversAssumption`, `BudgetAssumption`):

1. `TypeCorrect`: the type invariant.
2. `LeaseFence` (`FenceInv`): a row has a token exactly while it is running, and a driver at work has a
   token that is not NULL. Without it the fence of `complete`, by the token alone, would not follow.
3. `SerialSessions`: two running runs of one session are the same run. The claim's condition and the
   unique index give it in the step; it is inductive with the type invariant.
4. `TerminalStays` (`TerminalIsFinal`): by cases on the steps, with `FenceInv` for late statements.
5. `CopiesCurrent` (`CopyInv`): a driver's or sweep's copy of a row is current as long as its token is
   the row's token. This is why deciding on a stale read is sound, and it makes
6. `ErrorBudget`, `ClaimCap`, `ParkedWithCause` inductive (`BudgetInv`): a requeue decided on a copy is a
   requeue decided on the row.
7. `RefinesLifecycle`: each step changes at most one row (`OneRow`) and by one of a few shapes
   (`RowStep`), and each shape is a step of `RunLifecycle` or a stutter.

About what becomes of a run and of those who lost it (`RunBudgetProofs`):

8. `ZombiesHarmless` (`ZombieIsHarmless`): by the fences of each statement, with the type invariant alone.
9. `ReapsLapsedOnly` (`ReapsOnlyLapsed`). The second half of the reap fence, `ifExpiredAt`, is an invariant
   (`LapsedInv`): a copy that is due and whose token is still the row's is of a lapsed lease. It needs
   `CopyInv`, and that a lease is revived only by a beat, which takes the row out of every list that is due.
10. `ExclusiveAttempts` (`AttemptsExclusive`). `AttemptInv` adds that a driver's attempt number is at most the
    row's, so the number a claim gives is one nobody has.
11. `OneNotification` (`NotifiedOnce`). `SettleInv`: whoever is about to notify the listeners of a run
    (`Settling`) made it terminal, is the only one, and nobody was notified yet; the row turns terminal once.

About `TurnExecution` (`TurnProofs`; `TurnBounds` is not needed):

12. `TurnTypeCorrect` and `TurnsImplementQueue`: `TurnSpec => Spec`. Every step of a turn, of a compaction
    or of the session store is a step of the queue or leaves its variables alone, so theorems 1 to 11 hold
    of the turns as well.
13. `SessionLogFenced` (`LogFenced`). Every step does one of three things to one session (`SessionStep`):
    a lease is taken, with a token above all others; it is given up or taken away by force; or its holder
    appends. The inductive invariant is `LogBounded`: no entry is younger than the lease in force.
14. `RepliesRecorded` (`DoneIsRecorded`). The hard case is a turn that was cancelled by its third missed
    heartbeat and returns without having written. `RecordInv` says why it is never reported done with a
    reply: a missed heartbeat means that the run's lease is gone (`LostInv`), a token that is gone does
    not come back (`TokenGone`, from `CopyInv`), and so `complete` matches no row. The attempt number is
    right because the driver's copy of the row is current (`CopyInv`), and a done run never changes.

About the outbox (`OutboxProofs`; `DeliveriesAssumption`, `BoundsAssumption`):

15. `OutboxTypeCorrect` and `DeliveredForGood` (`SettledStays`): rows only grow (`RowsGrow`: a row is never
    deleted, delivered is for good, and a grace that is over does not come back). The lemmas on `Put`,
    `Without` and `CapMap` say that the three maps of a tracker name a delivery once each.
16. `DeliveredMeansShown` (`DeliveredWasShown`). `ShownInv`: whatever a process remembers as posted, is about to
    acknowledge, or acknowledges by key for a refusal, is shown. A handler's acknowledgement is the subtle
    case: it acknowledges a row it did not post, and is right because it showed the reply itself.
17. `RecoveryBehindHandler` (`RecoveryStandsBack`). `StandsInv`: while a drain tries a run's copy, its row is
    past the grace and its process has no pin on it; no handler can start waiting for such a row, so the pin
    cannot come afterwards. `HeldInv` (what a drain holds has a row) is needed for that.
18. `PostsOnce` (`NeverPostsAgain`, under `[]Roomy`). `KnowsInv`: a process knows what it wrote of every pending
    delivery, as posted or as given up, and is not trying it. Only the cap on the given-up ones can
    take that knowledge away, and `Roomy` says it does not.

About signals, asks and watches (`SignalProofs`, `WordProofs`; `SignalsAssumption`, `AsksAssumption`,
`MonitorAssumption`):

19. `SigTypeCorrect`, `SignalsHeardOnce` (`HeardOnce`). A signal that was not heard is in at most one of the
    lists it can be in: the rows of its run, the batch of a poll, the list a sender or sweep took out. `HeardInv`
    says so of all lists together (`Lane`); each step moves a list, appends a signal that is in none, or takes
    the first one of a list away. `PollsStopQuietly` (`StoppedIsQuiet`) is a part of `PollsInv`.
20. `AskTypeCorrect`, `NotifiedHeard` (`NotifiedWasTold`). `ToldInv`: when a fire comes to the mark, a
    run of the ask has ended well, the plain message was sent or had nowhere to go, or the ask's own room
    adopted it in time (`WasTold`); none of these is undone (`ToldStays`).
21. `MonTypeCorrect`, `OutputToldOnce` (`ToldOnce`), `HalvesTogether` (`LinesStayWhole`). As long as no pass is cut
    off after its fire, only the holder of the tick lease makes a pass, so the watch does not move under it.
    `MonInv` says of the watch, of that pass and of every fire key what of the output it was told: everything
    up to where the held-back tail begins, once, under one key for each piece. Why the key of a fire cannot
    have a run already is in `KeyPart`: output keys that have one begin before the cursor.

About the services (`ServiceProofs`, one section each; the assumption of each module):

22. `MapNoWriteLost` (`NoWriteLost`). The inductive invariant is `MapInv`: the lock is held exactly by the
    one transaction under way, and what it has written is one more than the committed row.
23. `MapReadsAreFresh` (`ReadsAreFresh`). The row is never behind its version: a cache, or an answer on its
    way to one, that names version `v` holds at least the writes of the first `v` commits, because each
    commit raises both by one under the lock.
24. `FormsAgree` (`LimitersAgree`): the two windows start together and their counts are equal up to the
    limit, beyond which only the store goes on counting.
25. `BurstsStayBounded` (`BurstBounded`). `BurstInv`: what was let through before the window opened came at or
    before its start, and what was let through a whole limit before that came a window before its start; so of
    twice the limit of calls let through in a row the last comes a window after the first.
26. `BudgetTypeCorrect`, `OverrunStaysBounded` (`OverrunBounded`). The obvious bound is not inductive, for what is
    on its way may all be recorded. `Afforded` bounds the dollars recorded in the window together with all
    that the turns under way may come to, recorded or not: less than the limit plus what `peak` turns cost. A
    turn comes under way only when less than the limit is recorded; recording and metering move dollars within
    the union; a turn that ends and the passing of time take some out.
27. `MoveTypeCorrect`, `WorkMeetsAlways` (`WorkMeets`). `MoveInv`: while a move is on its way no work is `sure`;
    sure work is on the backend of the route, which holds what was last written by such work; and every cache agrees with
    the route, unless a move waits for the caches to lapse or one broke off before they had and they still have not.
28. `CronTypeCorrect`, `ClaimsStandAlways` (`ClaimStands`), `ClaimsExclude` (`ClaimExclusive`). `ClaimInv` relates
    the row of a cron, the claims that stand and the jobs about to claim, in pairs: what the row owes, what each
    claim took and would give back, and which of two claims follows the other. `ClaimStands` says that the
    slot of a claim is not owed, nor one before it: to say that the row's last fire is no older than the claim
    would be too strong, since with three workers on a calendar a later claim may be undone to a time in between.
29. `CompactionTypeCorrect`, `CompactionLosesNothing` (`NothingLost`), `WindowMovesOn` (`WindowNeverRegresses`). `CompactInv`:
    whoever folds has a fold that covers the log up to its boundary, and, while its lease or its snapshot is
    still good, a boundary not behind the log's. The instance hides only second entries; the theorems hide any.
30. `DeployTypeCorrect`, `RecordStaysTrue` (`RecordIsTrue`), `VersionsNeverLost` (`VersionsStand`), under `[][~StalePut]_deployVars`.
    `DeployInv` says, for each list of statements that may be left to do, what of the record and the body is
    already as it will be (`JobFits`), for the holder of the lock and for those without it; and that the record is true
    whenever the last operation ran to its end. An edit under the lock may put back a copy in which the endpoint
    that a visit set meanwhile is missing: `Unhurt` says that this can only be the copy of an archived app.

About the compositions that TLC runs (`CompositionProofs`, `WordProofs`):

31. `ServicesStandAlone` and `WordsStandAlone`: a behaviour of `MCServices` or `MCSignals` is one of each component's
    own specification. So what TLC explores there is nothing else, every theorem above holds of it, and
32. `ServiceTypesCorrect` (`TypesOK`) and `WordTypesCorrect` (`WordTypesOK`) follow. That no stale record
    is put back, the condition of the theorems about deploys, is there a part of the next-state relation.

Only model-checked: the liveness properties `EveryRunEnds`, `Settles`, `SlotsAreServed` and `WordGetsThrough`, since
the provers reason neither about fairness nor about ENABLED; and the runs that expect a violation, which are
counterexamples.

Some definitions are written the way they are for the sake of the proofs, with the same meaning: the rows of
signals by run, spend by dollars, the times of admitted calls as a sequence, `Without` by `RemoveAt` (a map holds
a key once), the counter of a watch's fires as a plain number.

## Findings

1. `turn_retry`. The reaper makes a run claimable in one statement and releases its session lease in a
   later one (`reaper.ts:29`). A retry that starts in between is refused as "session busy", and the
   refusal is the run's result. `releaseInFlight` has the same gap: a turn that takes the session lease
   between the forced release and the hand-back keeps it. The other side of the gap: the forced release
   deletes whatever lease the session then has, that of a new, live turn included; `LogFenced` shows
   that the log stays sound, the live turn fails on its next append.
2. `compaction_tools`. With two tool calls in flight the boundary can fall between a call and its result.
3. `cron_stale_slot`. A fire that fails after its cron was rescheduled puts the old slot back.
4. `ask_fallback`. The sweep finds an ask whose resolution turn is still running, is refused by `once`, sees
   that the ask is not yet marked notified, and sends the message that the task could not be resumed; the
   turn then succeeds.
5. `deploy_visits`. A visit's `touch` (`deploy-store.ts:292`) reads the record, a publication puts its
   version, the touch puts the old record back: the version is gone and its number is given out again. Owners
   do the same to each other, with no visit at all: the default audience a publication ends with
   (`deploy-service.ts:632-633`, `:284`), the rename it may begin with (`:567`) and a transfer (`:705`) put the whole
   record without the lock.

Also seen, without a run of its own:

- Cron: a one-shot that is moved to a later time, or made recurring, while its fire runs is cancelled by the
  end of that fire (`scheduler.ts:171`, from the copy read before the turn), although the tool
  tells the agent that a one-shot "fires once, then auto-cancels" and may be patched (`pi-tools.ts:1449-1452`).
- Outbox: the map of given-up deliveries is capped too (`delivery.ts:263`), so with more than twice
  `maxTracked` unacknowledged deliveries an entry is forgotten altogether and its message is posted again,
  although `src/test/slack-delivery.test.ts:196` calls that impossible; `NeverPostsAgain` is checked below
  the cap. The row of a reply is enqueued after the run is terminal, by a listener whose
  failure is only logged (`run-result-delivery.ts:59`).
- Signals: the signal route answers "terminal" although the text it stored was steered by the attempt that
  was just ending (`app-turn.ts:503`); a handler that throws loses the signals taken with it; a replay whose turn
  is refused or blocked drops its message without a word (`app-helpers.ts:495-497`).
- Monitors: arming a watch again with `sinceCursor` writes its cursor (`monitor-broker.ts:84`), and a pass that is
  under way puts the one it reached over it.
- Asks: approving, declining and expiring read first and merge later (`keychain.ts:1013`), so two answers may
  both take effect, the later status standing. An ask whose turn does not end well, and whose destination is absent or
  not visible to the asker, is marked notified with nobody told (`keychain-ask.ts:68`).
- Connector tokens: `markConnectorRefreshFailure` (`keychain.ts:635-643`) reads the credential and then merges
  its whole `refresh` part. Refreshes in flight are known to one process only; when one fails here while
  another process's succeeds, or the owner connects again in between, the old refresh token goes back over
  the rotated one. `src/test/connectors.test.ts:129` ("a provider that rotates refresh tokens must not see two
  racing refreshes") and `:198` ("never poison the stored token") promise otherwise, of one process.
- Computers: `hasLiveWork` looks at processes in the background only, and once, so what a running turn, or a
  process it started since, writes after the move looked at the old home stays there; that look compares
  file times of the old computer with the core's clock; the second copy lays the whole old home over the new one, over
  what was written there during the wait; `tar` adds and never removes, so files deleted since come back
  when a scope moves back; a `find` that times out counts as unchanged; a route is stamped after it was
  read (`sandbox-routing.ts:49-50`), so that a slow read makes it live longer than the wait.
- Deploys: a visit that waits behind an archive applies the app again and revives it (`deploy-service.ts:180-191`)
  and may set its endpoint (`:178`); an archived app whose `destroy` failed quietly goes on being served, and nothing
  in its record says so; in the AWS provider a visit that
  resolves a body between the put of a new one and the raise of its generation deletes the new pointer, and a
  periodic snapshot that comes late overwrites the one taken at the rotation.
- Compaction: the returned history is cut once more (`compaction.ts:194`), and the latest summary decides what
  is covered even when the audience filter hides it (`context-compaction.ts:85`).
- A sweeper's tick may overlap its own earlier one (`util/sweeper.ts:15`).

## Not modelled, and why

- The API's routes, Slack rendering, the web, portal and admin front ends, the command line: I/O.
- Harness adapters, models, provisioning, exec and backups of sandboxes: external services; a turn's outcome
  is a choice.
- Resolution, policy, ACL, classification: pure functions over configuration. What they promise follows from
  the shape of a definition, so a model of them would restate it.
- Credentials, grants, the secret drop and connector tokens (what was seen of the latter is above); memory,
  skills, files: mostly single-statement stores.
- The bodies of the AWS deploy provider, idle stops, the creation and the grants of apps, and the loss of a
  deployment's lock by its connection alone.
- The interval fallback of the scheduler (`tick`, `due`, `markFired`, where `markFired` reads and merges in two
  statements, `cron-store.ts:131`) and its lease guard: the queue mode is the one of several processes.
- Participants' windows, forks and the tape of the session store; the in-memory twins of the stores; arming
  a monitor again, its caps on fires and on the length of output.

## Plan

The components of the core that have a protocol between actors are modelled. What would come next, were the
model extended: connector tokens (read, refresh, merge by several processes), the bodies of the AWS deploy
provider, the interval scheduler, session windows and forks.

Theorems: all invariants and action properties of the runs are proved. What would come next are the abstract
specifications of the outbox (a delivery is absent, pending, settled) and of cron (a slot is owed, taken, served)
and the proofs that the detailed ones implement them.
