--------------------------- MODULE MonitorPoller ---------------------------
(***************************************************************************)
(* The watch on a background job (monitors/monitor-poller.ts over the      *)
(* monitor store, the idempotency store and the leader lease).  One of the *)
(* core processes at a time makes a pass: it reads the proc's output from   *)
(* the cursor of its copy of the monitor, decides whether there is         *)
(* something to wake the agent for, runs a turn under a fire key, and only *)
(* then moves the cursor.                                                  *)
(*                                                                         *)
(* Output is a sequence of pieces: a line the pattern matches, a line it   *)
(* does not ("noise"), or the first half of a matching line whose rest is  *)
(* the next piece.  Times are left to choice: the debounce, the heartbeat  *)
(* and the expiry may be due at any moment; lastFiredAt is the number of   *)
(* fires.  One monitor on one job; the cap on fires in one pass, and the   *)
(* cuts of long output, are not modelled.                                  *)
(***************************************************************************)
EXTENDS Naturals, FiniteSets

CONSTANTS
    Leaders,      \* core processes
    NoLeader,
    MaxPieces,    \* bound on the output of the job
    MaxFires,     \* bound on heartbeats
    MaxMonFaults  \* bound on what throws, dies or loses its lease

ASSUME MonitorAssumption ==
    /\ NoLeader \notin Leaders
    /\ {MaxPieces, MaxFires, MaxMonFaults} \subseteq Nat

VARIABLES
    proc,      \* the job: what it writes in all, has written so far, and its state
    mon,       \* the monitor
    lease,     \* the process that holds the tick lease
    pass,      \* the pass of each process
    woken,     \* the fire keys whose run there is
    told,      \* the output in the input of each run
    kept,      \* the fire keys that are committed
    cut,       \* history: a pass was cut off after its fire, or
               \* two passes overlapped
    monFaults

monVars == <<proc, mon, lease, pass, woken, told, kept, cut, monFaults>>

Pieces == 1 .. MaxPieces
Cursors == 0 .. MaxPieces
PieceKinds == {"line", "noise", "half"}
\* `monitor:${id}:${cursor}`, `...:quiet:${quietSince}` and the keys of the last update
FireKeys == ({"output"} \X Cursors) \cup ({"quiet"} \X (0 .. MaxFires)) \cup ({"exit", "expired", "lost"} \X {0})
NoKey == <<"none", 0>>
NoPass == [at |-> "idle", cursor |-> 0, from |-> 0, fired |-> 0, upto |-> 0, tail |-> 0, key |-> NoKey]

MonFault == monFaults < MaxMonFaults /\ monFaults' = monFaults + 1

MonInit ==
    /\ \E text \in [Pieces -> PieceKinds], pattern \in BOOLEAN :
         /\ ~pattern => text = [i \in Pieces |-> "line"]
         /\ \A i \in Pieces : text[i] = "half" => i < MaxPieces /\ text[i + 1] = "line"
         /\ proc = [text |-> text, len |-> 0, at |-> "running"]
         /\ mon = [at |-> "none", pattern |-> pattern, late |-> FALSE, cursor |-> 0, from |-> 0, fired |-> 0]
    /\ lease = NoLeader /\ pass = [p \in Leaders |-> NoPass]
    /\ woken = {} /\ told = [k \in FireKeys |-> {}] /\ kept = {} /\ cut = FALSE /\ monFaults = 0

-----------------------------------------------------------------------------
(* What a read means.  The tail of the monitor, the held-back beginning of *)
(* a line, is the output after `from`, up to the cursor.                   *)

Raw(m, upto) == {i \in Pieces : m.from < i /\ i <= upto}

Worthy(i) == ~mon.pattern \/ proc.text[i] # "noise"

\* The end of the last complete line.
LastEnd(m, upto) ==
    LET ends == {i \in Raw(m, upto) : proc.text[i] # "half"} IN
    IF ends = {} THEN m.from ELSE CHOOSE i \in ends : \A j \in ends : j <= i

\* Mutated form: no beginning of a line is held back.
NoTail(m, upto, last) == upto

\* Where the output that is held back begins.
TailFrom(m, upto, last) == IF mon.pattern /\ ~last THEN LastEnd(m, upto) ELSE upto

\* The output worth waking for: with a pattern, the matching complete lines, and on the
\* last update whatever is left of them.
Events(m, upto, last) == {i \in Raw(m, upto) : i <= TailFrom(m, upto, last) /\ Worthy(i)}

-----------------------------------------------------------------------------
(* The job and its owner, as long as it is watched.                        *)

Watched == mon.at = "on"
Disabled(m) == IF m.at = "on" THEN [m EXCEPT !.at = "off"] ELSE m

\* watch: only a job that runs is watched, from where its output stands.
Watches ==
    /\ mon.at = "none" /\ proc.at = "running"
    /\ mon' = [mon EXCEPT !.at = "on"]
    /\ UNCHANGED <<proc, lease, pass, woken, told, kept, cut, monFaults>>

Writes ==
    /\ Watched /\ proc.at = "running" /\ proc.len < MaxPieces
    /\ proc' = [proc EXCEPT !.len = @ + 1]
    /\ UNCHANGED <<mon, lease, pass, woken, told, kept, cut, monFaults>>

\* The job exits, or is lost with its computer.
Exits ==
    /\ Watched /\ proc.at = "running"
    /\ proc' = [proc EXCEPT !.at = "exited"]
    /\ UNCHANGED <<mon, lease, pass, woken, told, kept, cut, monFaults>>

IsLost ==
    /\ Watched /\ proc.at # "gone" /\ MonFault
    /\ proc' = [proc EXCEPT !.at = "gone"]
    /\ UNCHANGED <<mon, lease, pass, woken, told, kept, cut>>

Expires ==
    /\ Watched /\ ~mon.late
    /\ mon' = [mon EXCEPT !.late = TRUE]
    /\ UNCHANGED <<proc, lease, pass, woken, told, kept, cut, monFaults>>

\* unwatch, by the agent in the turn that was woken or in another one.
Unwatches ==
    /\ mon.at \in {"on", "off"}
    /\ mon' = [mon EXCEPT !.at = "gone"]
    /\ UNCHANGED <<proc, lease, pass, woken, told, kept, cut, monFaults>>

-----------------------------------------------------------------------------
(* A pass.                                                                 *)

\* Mutated form: the lock is not given back.
ReleasedNever(p) == lease

\* hold gives the lock back however the pass ends.
Released(p) == IF lease = p THEN NoLeader ELSE lease

Ends(p) ==
    /\ pass' = [pass EXCEPT ![p] = NoPass]
    /\ lease' = Released(p)

\* tick: the lease is taken, if nobody has it, and the monitor is read.
PassStarts(p) ==
    /\ pass[p].at = "idle" /\ lease = NoLeader /\ Watched
    /\ lease' = p
    /\ pass' = [pass EXCEPT ![p] = [NoPass EXCEPT !.at = "listed", !.cursor = mon.cursor,
                                                  !.from = mon.from, !.fired = mon.fired]]
    /\ UNCHANGED <<proc, mon, woken, told, kept, cut, monFaults>>

\* Mutated form: the key does not tell where the output begins.
OutputKeyFixed(cursor) == <<"output", 0>>

OutputKey(cursor) == <<"output", cursor>>

Fires(p, key, last) ==
    pass' = [pass EXCEPT ![p].at = "fire", ![p].key = key, ![p].upto = proc.len,
                         ![p].tail = TailFrom(pass[p], proc.len, last)]

\* poll: the monitor is looked at again and the output after the copy's cursor is read.
\* (A job that the registry does not know is reported without that look.)
PassReads(p) ==
    /\ pass[p].at = "listed"
    /\ LET exited == proc.at = "exited"
           last == exited \/ mon.late
           key == IF exited THEN <<"exit", 0>> ELSE IF mon.late THEN <<"expired", 0>>
                  ELSE OutputKey(pass[p].cursor)
           events == Events(pass[p], proc.len, last) IN
       \/ ~Watched /\ Ends(p)
       \/ /\ proc.at = "gone"
          /\ Fires(p, <<"lost", 0>>, TRUE) /\ UNCHANGED lease
       \/ /\ Watched /\ proc.at # "gone" /\ (events # {} \/ last)
          /\ Fires(p, key, last) /\ UNCHANGED lease
       \/ /\ Watched /\ proc.at # "gone" /\ events # {}
          /\ pass[p].fired > 0 /\ ~last
          /\ Ends(p)
       \/ /\ Watched /\ proc.at # "gone" /\ events = {} /\ ~last /\ pass[p].fired < MaxFires
          /\ Fires(p, <<"quiet", pass[p].fired>>, FALSE) /\ UNCHANGED lease
       \/ /\ Watched /\ proc.at # "gone" /\ events = {} /\ ~last
          /\ pass' = [pass EXCEPT ![p].at = "skip", ![p].upto = proc.len,
                                  ![p].tail = TailFrom(pass[p], proc.len, FALSE)]
          /\ UNCHANGED lease
    /\ UNCHANGED <<proc, mon, woken, told, kept, cut, monFaults>>

Input(p) ==
    CASE pass[p].key[1] = "lost"   -> {}
      [] pass[p].key[1] = "quiet"  -> {}
      [] pass[p].key[1] = "output" -> Events(pass[p], pass[p].upto, FALSE)
      [] OTHER                     -> Events(pass[p], pass[p].upto, TRUE)

\* once and the run's idempotency key: a key that is committed is not run again, and a
\* run that is there is joined, with the input it was given.
PassFires(p) ==
    /\ pass[p].at = "fire"
    /\ IF pass[p].key \in kept
       THEN pass' = [pass EXCEPT ![p].at = "after"] /\ UNCHANGED <<woken, told>>
       ELSE /\ pass' = [pass EXCEPT ![p].at = "wait"]
            /\ woken' = woken \cup {pass[p].key}
            /\ told' = IF pass[p].key \in woken THEN told ELSE [told EXCEPT ![pass[p].key] = Input(p)]
    /\ UNCHANGED <<proc, mon, lease, kept, cut, monFaults>>

\* The run is over (its end is modelled in RunQueue) and the key is committed.
PassCommits(p) ==
    /\ pass[p].at = "wait"
    /\ kept' = kept \cup {pass[p].key}
    /\ pass' = [pass EXCEPT ![p].at = "after"]
    /\ UNCHANGED <<proc, mon, lease, woken, told, cut, monFaults>>

\* advance and the disabling after a last update; a monitor that is gone stays gone.
\* The job that exited is marked in the registry, which no pass reads again.
PassAdvances(p) ==
    /\ pass[p].at \in {"after", "skip"}
    /\ LET kind == pass[p].key[1] IN
       mon' = IF mon.at = "gone" THEN mon
              ELSE IF kind = "lost" THEN Disabled(mon)
              ELSE [mon EXCEPT !.cursor = pass[p].upto, !.from = pass[p].tail,
                               !.fired = IF pass[p].at = "skip" THEN @ ELSE pass[p].fired + 1]
    /\ IF pass[p].key[1] \in {"exit", "expired"}
       THEN pass' = [pass EXCEPT ![p].at = "disable"] /\ UNCHANGED lease
       ELSE Ends(p)
    /\ UNCHANGED <<proc, woken, told, kept, cut, monFaults>>

PassDisables(p) ==
    /\ pass[p].at = "disable"
    /\ mon' = Disabled(mon)
    /\ Ends(p)
    /\ UNCHANGED <<proc, woken, told, kept, cut, monFaults>>

\* runTrigger refuses: the owner is not internal any more.
PassDenied(p) ==
    /\ pass[p].at = "fire" /\ MonFault
    /\ mon' = Disabled(mon)
    /\ Ends(p)
    /\ UNCHANGED <<proc, woken, told, kept, cut>>

\* A statement or the turn throws, or the process dies.
PassBreaks(p) ==
    /\ pass[p].at # "idle" /\ MonFault
    /\ Ends(p)
    /\ cut' = (cut \/ pass[p].at \in {"wait", "after", "disable"})
    /\ UNCHANGED <<proc, mon, woken, told, kept>>

\* The connection that holds the lock dies: the pass goes on.
LeaseLost(p) ==
    /\ lease = p /\ MonFault
    /\ lease' = NoLeader /\ cut' = TRUE
    /\ UNCHANGED <<proc, mon, pass, woken, told, kept>>

-----------------------------------------------------------------------------
PassSteps(p) == PassReads(p) \/ PassFires(p) \/ PassCommits(p) \/ PassAdvances(p) \/ PassDisables(p)

MonNext ==
    \/ Watches \/ Writes \/ Exits \/ IsLost \/ Expires \/ Unwatches
    \/ \E p \in Leaders :
         PassStarts(p) \/ PassSteps(p) \/ PassDenied(p) \/ PassBreaks(p) \/ LeaseLost(p)

MonSpec == MonInit /\ [][MonNext]_monVars

\* Every process ticks, promises settle and runs end.
MonFairness ==
    /\ WF_monVars(\E p \in Leaders : PassStarts(p))
    /\ \A p \in Leaders : WF_monVars(PassSteps(p))
-----------------------------------------------------------------------------
MonTypeOK ==
    /\ proc \in [text : [Pieces -> PieceKinds], len : Cursors, at : {"running", "exited", "gone"}]
    /\ mon \in [at : {"none", "on", "off", "gone"}, pattern : BOOLEAN, late : BOOLEAN,
                cursor : Cursors, from : Cursors, fired : Nat]
    /\ lease \in Leaders \cup {NoLeader}
    /\ pass \in [Leaders -> [at : {"idle", "listed", "fire", "wait", "after", "skip", "disable"},
                             cursor : Cursors, from : Cursors, fired : Nat, upto : Cursors,
                             tail : Cursors, key : FireKeys \cup {NoKey}]]
    /\ woken \subseteq FireKeys /\ kept \subseteq FireKeys
    /\ told \in [FireKeys -> SUBSET Pieces] /\ cut \in BOOLEAN
    /\ monFaults \in 0 .. MaxMonFaults

ToldIn(i) == {k \in FireKeys : i \in told[k]}

\* Every piece of output worth waking for is told once: nothing that the cursor has
\* passed was left out of the agent's turns and nothing is told twice, however reads,
\* debounces, heartbeats and the exit fall, as long as no pass was cut off.
ToldOnce ==
    ~cut =>
        \A i \in Pieces :
            /\ Cardinality(ToldIn(i)) <= 1
            /\ i <= mon.from /\ Worthy(i) => ToldIn(i) # {}

\* A line that is written in two pieces is matched as one: a turn that is woken for
\* output is told both or neither.
LinesStayWhole ==
    mon.pattern /\ ~cut =>
        \A k \in FireKeys, i \in Pieces :
            k[1] = "output" /\ proc.text[i] = "half" => (i \in told[k] <=> i + 1 \in told[k])

\* The end of a job, or its loss, waits until it is told to the agent, unless the watch
\* was taken back or its owner may not run it any more.  It does not wait for ever: broken
\* passes are made up for by later ones.
EndWaits ==
    /\ Watched /\ proc.at # "running"
    /\ \A k \in FireKeys : k[1] \in {"exit", "expired", "lost"} => k \notin woken
=============================================================================
