----------------------------- MODULE Compaction -----------------------------
(***************************************************************************)
(* Context compaction of one session.  The log is append-only; a summary   *)
(* entry stands for everything up to its throughSeq, and the model context *)
(* of a turn is the latest summary followed by what comes after it         *)
(* (harness/context-compaction.ts).  A turn over the hard budget folds     *)
(* inline, under the session lease it holds; a background pass, scheduled  *)
(* when a turn ends, folds a session over the soft budget: it summarises   *)
(* without the lease and takes it only to write                            *)
(* (core/orchestrator/compaction.ts).                                      *)
(*                                                                         *)
(* Every entry weighs one against the entry budget; the token budget works *)
(* the same way on other weights and is left out.  The session has one     *)
(* audience.  Appends are fenced by the lease, as TurnExecution shows.     *)
(***************************************************************************)
EXTENDS Integers, Sequences, FiniteSets

CONSTANTS
    Procs,       \* core processes: each runs turns and a background pass
    ToolCalls,   \* tool call ids
    Nothing,     \* no lease holder, no tool call
    MaxEntries,  \* maxContextEntries
    MaxLog,      \* bound on the log
    Written      \* kinds of entries the turns append, a subset of EntryKinds

EntryKinds == {"message", "tainted", "thinking", "tool_call", "tool_result"}

ASSUME CompactionAssumption == MaxEntries \in Nat \ {0} /\ MaxLog \in Nat
ASSUME EntryKindsAssumption == Written \subseteq EntryKinds
ASSUME CallsAssumption ==
    Nothing \notin Procs /\ Nothing \notin ToolCalls /\ Nothing \notin Procs \X {"turn", "pass"}

VARIABLES
    log,      \* the session's entries; an entry's seq is its position
    lease,    \* <<process, "turn" or "pass">> that holds the session lease, or Nothing
    turn,     \* each process's turn on this session
    pass,     \* each process's background pass
    due       \* whether a pass is scheduled in the process

compactionVars == <<log, lease, turn, pass, due>>

\* An entry: its kind, the tool call it belongs to, and for a summary its
\* throughSeq and the entries whose content it carries.
Entry == [kind : EntryKinds \cup {"summary"}, call : ToolCalls \cup {Nothing},
          through : 0 .. MaxLog, says : SUBSET (1 .. MaxLog)]

NoFold == [through |-> 0, says |-> {}]
Fold   == [through : 0 .. MaxLog, says : SUBSET (1 .. MaxLog)]

Summary(f) == [kind |-> "summary", call |-> Nothing, through |-> f.through, says |-> f.says]

-----------------------------------------------------------------------------
(* The pure part.  A history is the set of positions of log it contains.   *)

Summaries(l) == {i \in DOMAIN l : l[i].kind = "summary"}

Latest(S) == CHOOSE i \in S : \A j \in S : j <= i

Through(l) == IF Summaries(l) = {} THEN 0 ELSE l[Latest(Summaries(l))].through

\* Types the model never sees again are dropped, quarantined entries are hidden.
Visible(l) == {i \in DOMAIN l : l[i].kind \notin {"thinking", "tainted", "summary"}}

\* forModelContext: the entries after the latest summary's boundary, and that
\* summary.
AfterSummary(l)    == {i \in Visible(l) : i > Through(l)}
LatestSummary(l)   == IF Summaries(l) = {} THEN {} ELSE {Latest(Summaries(l))}
ForModelContext(l) == LatestSummary(l) \cup AfterSummary(l)

\* The budgets: COMPACT_SOFT_FRACTION 0.7 and COMPACT_HARD_FRACTION 0.9.
OverSoft(h) == 10 * Cardinality(h) > 7 * MaxEntries
OverHard(h) == 10 * Cardinality(h) > 9 * MaxEntries

KeepRecent == IF (7 * MaxEntries) \div 10 - 1 > 1 THEN (7 * MaxEntries) \div 10 - 1 ELSE 1

\* A summary whose tail still fits is reused.
Reuses(l) == Summaries(l) # {} /\ Cardinality(AfterSummary(l)) + 1 <= KeepRecent + 1

\* The entries older than the recent ones that are kept.
Overflow(l) ==
    {i \in AfterSummary(l) : Cardinality({j \in AfterSummary(l) : j > i}) >= KeepRecent}

\* The boundary moves back over tool calls whose result is not in the batch.
Unpaired(l, batch, i) ==
    /\ l[i].kind = "tool_call"
    /\ \A j \in batch : ~(l[j].kind = "tool_result" /\ l[j].call = l[i].call)
PulledBack(l) ==
    LET o == Overflow(l)
        Upto(k) == {i \in o : i <= k}
        stops == {k \in o : ~Unpaired(l, Upto(k), k)
                            /\ \A i \in o : i > k => Unpaired(l, Upto(i), i)}
    IN  IF stops = {} THEN {} ELSE Upto(Latest(stops))

\* planCompaction: what is summarised, {} when there is nothing to do.
Batch(l) == IF Reuses(l) THEN {} ELSE PulledBack(l)

\* Mutated form: the next summary forgets the one before it.
FoldOfBatch(l) == [through |-> Latest(Batch(l)), says |-> Batch(l)]

\* compactionThroughSeq, and the content of the summary that is written: the
\* batch and what the summary before it carried.
FoldOf(l) ==
    LET batch == Batch(l)
    IN  [through |-> IF Through(l) > Latest(batch) THEN Through(l) ELSE Latest(batch),
         says |-> batch \cup UNION {l[i].says : i \in LatestSummary(l)}]

-----------------------------------------------------------------------------
CompactionInit ==
    /\ log = <<>>
    /\ lease = Nothing
    /\ turn = [p \in Procs |-> [at |-> "off", fold |-> NoFold]]
    /\ pass = [p \in Procs |-> [at |-> "off", fold |-> NoFold, snap |-> 0]]
    /\ due = [p \in Procs |-> FALSE]

Holds(p, what) == lease = <<p, what>>
Room == Len(log) < MaxLog

-----------------------------------------------------------------------------
(* A turn.                                                                 *)

TurnTakes(p) ==
    /\ turn[p].at = "off" /\ lease = Nothing
    /\ lease' = <<p, "turn">>
    /\ turn' = [turn EXCEPT ![p].at = "open"]
    /\ UNCHANGED <<log, pass, due>>

\* compactContextIfNeeded: over the hard budget the turn summarises inline.
\* Otherwise, and also when there is no plan, no summariser, a managed group or no
\* one label for the batch, nothing is written: the history is at most cut for
\* this turn.
TurnReads(p) ==
    /\ turn[p].at = "open"
    /\ \/ /\ OverHard(ForModelContext(log)) /\ Batch(log) # {}
          /\ turn' = [turn EXCEPT ![p] = [at |-> "folding", fold |-> FoldOf(log)]]
       \/ turn' = [turn EXCEPT ![p].at = "running"]
    /\ UNCHANGED <<log, lease, pass, due>>

\* writeCompaction: the append is fenced by the lease.
TurnFolds(p) ==
    /\ turn[p].at = "folding" /\ Holds(p, "turn") /\ Room
    /\ log' = Append(log, Summary(turn[p].fold))
    /\ turn' = [turn EXCEPT ![p] = [at |-> "running", fold |-> NoFold]]
    /\ UNCHANGED <<lease, pass, due>>

\* A tool result answers a call that has none yet.
MayAppend(l, k, c) ==
    /\ k \in {"tool_call", "tool_result"} <=> c # Nothing
    /\ k = "tool_call" => \A i \in DOMAIN l : l[i].call # c
    /\ k = "tool_result" => /\ \E i \in DOMAIN l : l[i].call = c
                            /\ \A i \in DOMAIN l : l[i].call = c => l[i].kind = "tool_call"

TurnEmits(p, k, c) ==
    /\ turn[p].at = "running" /\ Holds(p, "turn") /\ Room
    /\ MayAppend(log, k, c)
    /\ log' = Append(log, [kind |-> k, call |-> c, through |-> 0, says |-> {}])
    /\ UNCHANGED <<lease, turn, pass, due>>

\* The turn ends, well or by an exception (a failed summary, a lost lease): it
\* releases what it still holds and schedules a background pass.
TurnCloses(p) ==
    /\ turn[p].at # "off"
    /\ turn' = [turn EXCEPT ![p] = [at |-> "off", fold |-> NoFold]]
    /\ lease' = IF Holds(p, "turn") THEN Nothing ELSE lease
    /\ due' = [due EXCEPT ![p] = TRUE]
    /\ UNCHANGED <<log, pass>>

-----------------------------------------------------------------------------
(* The background pass: one at a time in a process (createKeyedQueue).     *)

\* It snapshots the log and asks the model for a summary, without the lease.
PassSnapshots(p) ==
    /\ due[p] /\ pass[p].at = "off"
    /\ due' = [due EXCEPT ![p] = FALSE]
    /\ pass' = IF OverSoft(ForModelContext(log)) /\ Batch(log) # {}
               THEN [pass EXCEPT ![p] = [at |-> "summarizing", fold |-> FoldOf(log),
                                         snap |-> Len(log)]]
               ELSE pass
    /\ UNCHANGED <<log, lease, turn>>

PassTakes(p) ==
    /\ pass[p].at = "summarizing" /\ lease = Nothing
    /\ lease' = <<p, "pass">>
    /\ pass' = [pass EXCEPT ![p].at = "holding"]
    /\ UNCHANGED <<log, turn, due>>

\* Mutated form: the pass trusts its snapshot.
AlwaysFresh(l, snap) == TRUE

\* It reads what was appended since its snapshot: a summary there makes its own
\* stale.
StillFresh(l, snap) == \A i \in Summaries(l) : i <= snap

PassChecks(p) ==
    /\ pass[p].at = "holding"
    /\ pass' = [pass EXCEPT ![p].at = IF StillFresh(log, pass[p].snap) THEN "writing" ELSE "leaving"]
    /\ UNCHANGED <<log, lease, turn, due>>

PassWrites(p) ==
    /\ pass[p].at = "writing" /\ Holds(p, "pass") /\ Room
    /\ log' = Append(log, Summary(pass[p].fold))
    /\ pass' = [pass EXCEPT ![p].at = "leaving"]
    /\ UNCHANGED <<lease, turn, due>>

\* Written, stale, failed, or the lease did not come free in time.
PassEnds(p) ==
    /\ pass[p].at # "off"
    /\ pass' = [pass EXCEPT ![p] = [at |-> "off", fold |-> NoFold, snap |-> 0]]
    /\ lease' = IF Holds(p, "pass") THEN Nothing ELSE lease
    /\ UNCHANGED <<log, turn, due>>

\* The lease lapses or is force-released under its holder.
LeaseLost ==
    /\ lease # Nothing
    /\ lease' = Nothing
    /\ UNCHANGED <<log, turn, pass, due>>

\* The process dies: what it was doing is gone, its lease lingers until it lapses.
ProcessDies(p) ==
    /\ turn[p].at # "off" \/ pass[p].at # "off" \/ due[p]
    /\ turn' = [turn EXCEPT ![p] = [at |-> "off", fold |-> NoFold]]
    /\ pass' = [pass EXCEPT ![p] = [at |-> "off", fold |-> NoFold, snap |-> 0]]
    /\ due' = [due EXCEPT ![p] = FALSE]
    /\ UNCHANGED <<log, lease>>

ProcNext(p) ==
    \/ TurnTakes(p) \/ TurnReads(p) \/ TurnFolds(p) \/ TurnCloses(p)
    \/ \E k \in Written, c \in ToolCalls \cup {Nothing} : TurnEmits(p, k, c)
    \/ PassSnapshots(p) \/ PassTakes(p) \/ PassChecks(p) \/ PassWrites(p) \/ PassEnds(p)
    \/ ProcessDies(p)

CompactionNext == LeaseLost \/ \E p \in Procs : ProcNext(p)

CompactionSpec == CompactionInit /\ [][CompactionNext]_compactionVars
-----------------------------------------------------------------------------
CompactionTypeOK ==
    /\ log \in Seq(Entry) /\ Len(log) <= MaxLog
    /\ lease \in {Nothing} \cup (Procs \X {"turn", "pass"})
    /\ turn \in [Procs -> [at : {"off", "open", "folding", "running"}, fold : Fold]]
    /\ pass \in [Procs -> [at : {"off", "summarizing", "holding", "writing", "leaving"},
                            fold : Fold, snap : 0 .. MaxLog]]
    /\ due \in [Procs -> BOOLEAN]

\* Compaction loses nothing: every entry the model may see is either after the
\* boundary of the latest summary or carried, through the chain of summaries, by
\* that summary, whichever turns and passes of whichever processes interleaved.
NothingLost ==
    \A i \in Visible(log) :
        i > Through(log) \/ \E s \in LatestSummary(log) : i \in log[s].says

\* The boundary of the context never moves back: a background pass whose snapshot
\* was overtaken by another fold drops its summary.
WindowNeverRegresses == [][Through(log') >= Through(log)]_compactionVars

\* A tool call is never folded away while its result is kept: the summary would
\* report the call as interrupted.  Stated of the fold a pass has in hand and the
\* log it planned it from.
NeverSplits ==
    \A p \in Procs : pass[p].at = "summarizing" =>
        \A i \in pass[p].fold.says, j \in pass[p].fold.through + 1 .. pass[p].snap :
            ~(log[j].kind = "tool_result" /\ log[j].call = log[i].call)
=============================================================================
