----------------------------- MODULE RunSignals -----------------------------
(***************************************************************************)
(* Signals to a run that is live (runs/run-signal-store.ts and its         *)
(* Postgres store; the turn API, the signal route and the replay of        *)
(* orphans in api/): a message that arrives while a turn of its thread is  *)
(* going on is stored as a row for the live run, rather than starting a    *)
(* turn of its own.  The attempt that drives the run polls for its rows    *)
(* and steers the model with them; what it leaves behind when it stops is  *)
(* replayed by whoever finds the run over: the sender's own recheck, the   *)
(* listener of finished runs, or a sweep.                                  *)
(*                                                                         *)
(* A run's lease and its attempts are as in RunQueue, reduced to who owns  *)
(* it.  All runs are of one thread.  A poll stands for one attempt in one  *)
(* process; an attempt that lost its lease goes on polling.                *)
(***************************************************************************)
EXTENDS Naturals, Sequences

CONSTANTS
    Steers,        \* messages to the thread that arrive on a surface; their rows
                   \* hold the request
    WebSteers,     \* texts sent to a run by the signal route, without a request
    Aborts,        \* messages that only say stop
    SigRuns, Polls,
    Sweeps,        \* listeners of finished runs and orphan sweeps
    Drainers,      \* the polls of harnesses that drain once more when they stop
    Nobody,
    MaxSigFaults   \* bound on handlers and turns that throw and processes that die

Signals == Steers \cup WebSteers \cup Aborts
Replayers == Signals \cup Sweeps

ASSUME SignalsAssumption ==
    /\ Drainers \subseteq Polls /\ MaxSigFaults \in Nat
    /\ Nobody \notin Polls \cup SigRuns /\ Signals \cap Sweeps = {}

VARIABLES
    sigRun,     \* the runs, and the attempt that holds the lease of each
    rows,       \* the signals of each run in the store that are not consumed, by id
    poll,       \* the polls
    sender,     \* what each sender is doing
    replay,     \* the signals each replayer has taken and not replayed yet
    fate,       \* history: what became of each signal
    served,     \* history: how often it reached a model
    sigFaults

sigVars == <<sigRun, rows, poll, sender, replay, fate, served, sigFaults>>

NoPoll == [run |-> Nobody, at |-> "none", drain |-> "no", again |-> FALSE, batch |-> <<>>]

\* The signals that will be sent and the runs that wait in the queue; the others are
\* over and done with.
SigInit ==
    /\ \E S \in SUBSET Signals, R \in SUBSET SigRuns :
         /\ sender = [s \in Signals |-> [at |-> IF s \in S THEN "idle" ELSE "done", run |-> Nobody]]
         /\ sigRun = [r \in SigRuns |-> [at |-> IF r \in R THEN "pending" ELSE "terminal", owner |-> Nobody]]
    /\ rows = [r \in SigRuns |-> <<>>]
    /\ poll = [p \in Polls |-> NoPoll]
    /\ replay = [x \in Replayers |-> <<>>]
    /\ fate = [s \in Signals |-> "none"]
    /\ served = [s \in Signals |-> 0]
    /\ sigFaults = 0

SigFault == sigFaults < MaxSigFaults /\ sigFaults' = sigFaults + 1

IsLive(r) == sigRun[r].at \in {"pending", "running"}
IsOver(r) == sigRun[r].at = "terminal"
SparePolls == {p \in Polls : poll[p].at = "none"}

\* Mutated form: only a run that waits for an attempt has its signals replayed.
NeedsReplayPending(r) == sigRun[r].at = "pending"

\* Who finds a run over replays the signals that are left.
NeedsReplay(r) == IsOver(r)

\* Mutated form: rows that are read are not marked consumed.
KeepRows(r) == rows

\* What takePending leaves in the store.
OtherRows(r) == [rows EXCEPT ![r] = <<>>]

\* Mutated form: the list is handed on as if it were one signal.
TakenNested(r) == <<rows[r]>>

\* takePending: the rows of a run are read and consumed in one statement.
Taken(r) == rows[r]

\* send
Stored(s, r) == [rows EXCEPT ![r] = Append(@, s)]

\* The signals of a list.
ListedIn(q) == {q[i] : i \in DOMAIN q}

SettleFate(S, f) == fate' = [s \in Signals |-> IF s \in S THEN f ELSE fate[s]]
Reaches(s, f) == SettleFate({s}, f) /\ served' = [served EXCEPT ![s] = @ + 1]

-----------------------------------------------------------------------------
(* Runs.                                                                   *)

\* An attempt claims the run and its harness starts to poll; one run of a thread
\* at a time.
Starts(p, r) ==
    /\ poll[p].at = "none" /\ sigRun[r].at = "pending"
    /\ \A q \in SigRuns : sigRun[q].at # "running"
    /\ sigRun' = [sigRun EXCEPT ![r] = [at |-> "running", owner |-> p]]
    /\ poll' = [poll EXCEPT ![p] = [NoPoll EXCEPT !.run = r, !.at = "open"]]
    /\ UNCHANGED <<rows, sender, replay, fate, served, sigFaults>>

\* The attempt is over once its poll has stopped: the run is completed, if the
\* lease still holds.
Completes(p) ==
    /\ poll[p].at = "closed" /\ sigRun[poll[p].run].owner = p
    /\ sigRun' = [sigRun EXCEPT ![poll[p].run] = [at |-> "terminal", owner |-> Nobody]]
    /\ UNCHANGED <<rows, poll, sender, replay, fate, served, sigFaults>>

\* The lease lapses, or the attempt fails: the run waits for another attempt.  The
\* attempt itself may not have noticed.
Lapses(r) ==
    /\ sigRun[r].at = "running"
    /\ sigRun' = [sigRun EXCEPT ![r] = [at |-> "pending", owner |-> Nobody]]
    /\ UNCHANGED <<rows, poll, sender, replay, fate, served, sigFaults>>

\* No attempt is left: the run is parked.
Parks(r) ==
    /\ sigRun[r].at = "pending" /\ SparePolls = {}
    /\ sigRun' = [sigRun EXCEPT ![r].at = "terminal"]
    /\ UNCHANGED <<rows, poll, sender, replay, fate, served, sigFaults>>

-----------------------------------------------------------------------------
(* The poll of an attempt.                                                 *)

\* drain: one at a time; a request that comes while one is running is remembered.
Ask(q) == IF q.drain = "no" THEN [q EXCEPT !.drain = "asked"] ELSE [q EXCEPT !.again = TRUE]

\* The doorbell rings, or the interval is over.  A drain that finds nothing changes
\* nothing and is left out.
PollAsks(p) ==
    /\ poll[p].at = "open" /\ poll[p].drain # "asked" /\ rows[poll[p].run] # <<>>
    /\ poll' = [poll EXCEPT ![p] = Ask(@)]
    /\ UNCHANGED <<sigRun, rows, sender, replay, fate, served, sigFaults>>

PollTakes(p) ==
    /\ poll[p].drain = "asked"
    /\ poll' = [poll EXCEPT ![p].drain = "busy", ![p].batch = Taken(poll[p].run)]
    /\ rows' = OtherRows(poll[p].run)
    /\ UNCHANGED <<sigRun, sender, replay, fate, served, sigFaults>>

\* onSteer and onAbort, one signal after the other.
PollHandles(p) ==
    /\ poll[p].drain = "busy" /\ poll[p].batch # <<>>
    /\ poll' = [poll EXCEPT ![p].batch = Tail(@)]
    /\ Reaches(Head(poll[p].batch), "heard")
    /\ UNCHANGED <<sigRun, rows, sender, replay, sigFaults>>

\* A handler throws: the rest of the batch is gone as well.
PollThrows(p) ==
    /\ poll[p].drain = "busy" /\ poll[p].batch # <<>> /\ SigFault
    /\ poll' = [poll EXCEPT ![p].batch = <<>>]
    /\ SettleFate(ListedIn(poll[p].batch), "lost")
    /\ UNCHANGED <<sigRun, rows, sender, replay, served>>

\* The drain that was asked for meanwhile is refused if the poll has been stopped.
PollDrained(p) ==
    /\ poll[p].drain = "busy" /\ poll[p].batch = <<>>
    /\ poll' = [poll EXCEPT ![p].drain = IF poll[p].again /\ poll[p].at = "open" THEN "asked" ELSE "no",
                            ![p].again = FALSE]
    /\ UNCHANGED <<sigRun, rows, sender, replay, fate, served, sigFaults>>

\* The prompt is over: nothing is asked for any more, except by a harness that drains
\* once when it stops, and stop waits for the drain that is running.
PollStops(p) ==
    /\ poll[p].at = "open"
    /\ LET q == [poll[p] EXCEPT !.at = "stopping"] IN
       poll' = [poll EXCEPT ![p] = IF p \in Drainers THEN Ask(q) ELSE q]
    /\ UNCHANGED <<sigRun, rows, sender, replay, fate, served, sigFaults>>

\* Mutated form: stop does not wait for the handlers that are running.
QuietAlways(q) == TRUE

Quiet(q) == q.drain = "no"

PollStopped(p) ==
    /\ poll[p].at = "stopping" /\ Quiet(poll[p])
    /\ poll' = [poll EXCEPT ![p].at = "closed"]
    /\ UNCHANGED <<sigRun, rows, sender, replay, fate, served, sigFaults>>

\* The process dies with the batch it had taken; its run stays until the lease lapses.
PollDies(p) ==
    /\ poll[p].at \in {"open", "stopping"} /\ SigFault
    /\ poll' = [poll EXCEPT ![p] = [NoPoll EXCEPT !.run = poll[p].run, !.at = "dead"]]
    /\ SettleFate(ListedIn(poll[p].batch), "lost")
    /\ UNCHANGED <<sigRun, rows, sender, replay, served>>

-----------------------------------------------------------------------------
(* Senders.                                                                *)

\* A message of the thread finds a run live and is screened; without one, or when the
\* live run is an automation's, it starts a turn of its own.  The signal route names
\* any run and refuses one that is over.  (A message whose turn is refused or blocked at
\* once leaves nothing behind, and is as one that is not sent.)
Chooses(s) ==
    /\ sender[s].at = "idle"
    /\ \/ \E r \in SigRuns :
            /\ IsLive(r)
            /\ sender' = [sender EXCEPT ![s] = [at |-> "chosen", run |-> r]]
            /\ UNCHANGED <<fate, served>>
       \/ /\ s \notin WebSteers
          /\ sender' = [sender EXCEPT ![s].at = "done"]
          /\ Reaches(s, "fresh")
       \/ /\ s \in WebSteers /\ \E r \in SigRuns : IsOver(r)
          /\ sender' = [sender EXCEPT ![s].at = "refused"]
          /\ UNCHANGED <<fate, served>>
    /\ UNCHANGED <<sigRun, rows, poll, replay, sigFaults>>

Sends(s) ==
    /\ sender[s].at = "chosen"
    /\ rows' = Stored(s, sender[s].run)
    /\ sender' = [sender EXCEPT ![s].at = "sent"]
    /\ UNCHANGED <<sigRun, poll, replay, fate, served, sigFaults>>

\* replayOrphanedRunSignals begins: the rows are taken.  (A run that is over stays
\* over, so the step from the look at the run to the rows needs no state of its own.)
Replays(x, r) ==
    /\ replay' = [replay EXCEPT ![x] = Taken(r)]
    /\ rows' = OtherRows(r)

\* The run is read again: if it is over, its orphans are replayed by the sender.
Rechecks(s) ==
    /\ sender[s].at = "sent"
    /\ IF NeedsReplay(sender[s].run)
       THEN sender' = [sender EXCEPT ![s].at = "replay"] /\ Replays(s, sender[s].run)
       ELSE sender' = [sender EXCEPT ![s].at = "accepted"] /\ UNCHANGED <<rows, replay>>
    /\ UNCHANGED <<sigRun, poll, fate, served, sigFaults>>

\* The signal route answers "terminal"; a turn names the run that will reply.
Answers(s) ==
    /\ sender[s].at = "replay" /\ replay[s] = <<>>
    /\ sender' = [sender EXCEPT ![s].at = IF s \in WebSteers THEN "refused" ELSE "done"]
    /\ UNCHANGED <<sigRun, rows, poll, replay, fate, served, sigFaults>>

-----------------------------------------------------------------------------
(* Replay.                                                                 *)

\* The listener of finished runs, or a sweep over the runs that have rows and are over.
Sweep(x, r) ==
    /\ replay[x] = <<>> /\ NeedsReplay(r) /\ rows[r] # <<>>
    /\ Replays(x, r)
    /\ UNCHANGED <<sigRun, poll, sender, fate, served, sigFaults>>

\* An abort has nothing left to stop and a row without a request nothing to replay;
\* a request goes through the turn API again, which may find another run live.  That
\* turn's own recheck is left to the sweeps.  The turn API may also answer that the turn is
\* refused, or blocked by an approval that the thread waits for: it throws nothing, the
\* replay does not look at the answer, and the message is gone.
ReplayStep(x) ==
    /\ replay[x] # <<>>
    /\ replay' = [replay EXCEPT ![x] = Tail(@)]
    /\ LET s == Head(replay[x]) IN
       \/ s \in Aborts /\ SettleFate({s}, "skipped") /\ UNCHANGED <<rows, served>>
       \/ s \in WebSteers /\ SettleFate({s}, "dropped") /\ UNCHANGED <<rows, served>>
       \/ s \in Steers /\ Reaches(s, "fresh") /\ UNCHANGED rows
       \/ s \in Steers /\ SettleFate({s}, "refused") /\ UNCHANGED <<rows, served>>
       \/ /\ s \in Steers
          /\ \E r \in SigRuns : IsLive(r) /\ rows' = Stored(s, r)
          /\ UNCHANGED <<fate, served>>
    /\ UNCHANGED <<sigRun, poll, sender, sigFaults>>

\* The replayed turn throws: this signal is lost, the next one is tried.
ReplayThrows(x) ==
    /\ replay[x] # <<>> /\ Head(replay[x]) \in Steers /\ SigFault
    /\ SettleFate({Head(replay[x])}, "lost")
    /\ replay' = [replay EXCEPT ![x] = Tail(@)]
    /\ UNCHANGED <<sigRun, rows, poll, sender, served>>

ReplayDies(x) ==
    /\ x \in Sweeps /\ replay[x] # <<>> /\ SigFault
    /\ SettleFate(ListedIn(replay[x]), "lost")
    /\ replay' = [replay EXCEPT ![x] = <<>>]
    /\ UNCHANGED <<sigRun, rows, poll, sender, served>>

-----------------------------------------------------------------------------
PollSteps(p) == PollTakes(p) \/ PollHandles(p) \/ PollDrained(p) \/ PollStops(p) \/ PollStopped(p) \/ Completes(p)
SenderSteps(s) == Sends(s) \/ Rechecks(s) \/ Answers(s)

SigNext ==
    \/ \E r \in SigRuns : Lapses(r) \/ Parks(r)
    \/ \E p \in Polls :
         \/ PollSteps(p) \/ PollAsks(p) \/ PollThrows(p) \/ PollDies(p)
         \/ \E r \in SigRuns : Starts(p, r)
    \/ \E s \in Signals : Chooses(s) \/ SenderSteps(s)
    \/ \E x \in Replayers : ReplayStep(x) \/ ReplayThrows(x) \/ ReplayDies(x)
    \/ \E x \in Sweeps, r \in SigRuns : Sweep(x, r)

SigSpec == SigInit /\ [][SigNext]_sigVars

\* Promises settle and turns end; a pending run is claimed or parked; the lease of an
\* attempt that died lapses; the sweeper comes by.  (A poll's own interval is not needed.)
SigProgress ==
    \/ \E p \in Polls : PollSteps(p) \/ \E r \in SigRuns : Starts(p, r)
    \/ \E r \in SigRuns : Parks(r) \/ (Lapses(r) /\ poll[sigRun[r].owner].at = "dead")
    \/ \E s \in Signals : SenderSteps(s)
    \/ \E x \in Replayers : ReplayStep(x)
    \/ \E x \in Sweeps, r \in SigRuns : Sweep(x, r)

\* There are finitely many of these steps, so that it is enough that one of them is
\* taken whenever one can be.
SigFairness == WF_sigVars(SigProgress)
-----------------------------------------------------------------------------
SigTypeOK ==
    /\ sigRun \in [SigRuns -> [at : {"pending", "running", "terminal"}, owner : Polls \cup {Nobody}]]
    /\ rows \in [SigRuns -> Seq(Signals)]
    /\ poll \in [Polls -> [run : SigRuns \cup {Nobody}, drain : {"no", "asked", "busy"}, again : BOOLEAN,
                           at : {"none", "open", "stopping", "closed", "dead"}, batch : Seq(Signals)]]
    /\ sender \in [Signals -> [at : {"idle", "chosen", "sent", "replay", "accepted", "refused", "done"},
                               run : SigRuns \cup {Nobody}]]
    /\ replay \in [Replayers -> Seq(Signals)]
    /\ fate \in [Signals -> {"none", "heard", "fresh", "skipped", "dropped", "refused", "lost"}]
    /\ served \in [Signals -> Nat] /\ sigFaults \in 0 .. MaxSigFaults

\* A message reaches a model at most once: it is not both steered into the live run
\* and replayed as a turn, whoever of the poll, the sender, the listener and the sweep
\* gets to its row, and whatever zombie attempts poll as well (takePending consumes).
HeardOnce == \A s \in Signals : served[s] <= 1

\* When stop() has returned the harness may close its session: no handler is running
\* and none will run, so what is left in the store is left for the replay.
StoppedIsQuiet == \A p \in Polls : poll[p].at = "closed" => poll[p].drain = "no" /\ poll[p].batch = <<>>

\* A message that was stored for a live run waits until it is steered into the run or
\* replayed as a turn; or until that turn is refused or blocked, a handler or a turn threw
\* or a process died with it, and it is gone.  No message lies in the store for ever,
\* however its arrival falls between the drains, the stop of the poll and the end of the
\* run: somebody takes it up.
SteersWait ==
    \E s \in Steers : sender[s].run # Nobody /\ sender[s].at # "chosen" /\ fate[s] = "none"
=============================================================================
