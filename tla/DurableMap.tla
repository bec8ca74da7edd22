----------------------------- MODULE DurableMap -----------------------------
(***************************************************************************)
(* A table of a durable map (persistence/durable-map.ts, in its Postgres   *)
(* form), which most stores of the core are made of.  A write is a         *)
(* transaction that first raises the table's version.  A process reads the *)
(* whole table through a cache: it asks for the version, and for the rows  *)
(* only if the cache is of another version or too old.                     *)
(*                                                                         *)
(* The table holds one counter, and every write adds one to what it read   *)
(* of it, so that a lost write can be told.  `put` and `merge` are the     *)
(* same with a statement that reads nothing.                               *)
(***************************************************************************)
EXTENDS Integers

CONSTANTS
    Caches,     \* processes, each with a cache of the table
    Reads,      \* calls of entries or all
    Writers,
    NoOne,
    MaxWrites   \* bound on the writes that are committed

ASSUME MapAssumption == NoOne \notin Writers /\ MaxWrites \in Nat

VARIABLES
    table,     \* the row and the version, as committed, and who has the version locked
    writes,    \* each writer's transaction
    cache,     \* each process's cache
    reads,     \* the calls: the version each one asked for, and what it returned
    commits    \* history: the writes that were committed

mapVars == <<table, writes, cache, reads, commits>>

NoWrite == [at |-> "idle", row |-> 0, v |-> 0]
NoRead  == [at |-> "idle", by |-> NoOne, since |-> 0, v |-> 0, row |-> 0]

MapInit ==
    /\ table = [row |-> 0, v |-> 0, lock |-> NoOne]
    /\ writes = [w \in Writers |-> NoWrite]
    /\ cache = [p \in Caches |-> [v |-> -1, row |-> 0]]
    /\ reads = [c \in Reads |-> NoRead]
    /\ commits = 0

-----------------------------------------------------------------------------
(* withBump: BEGIN, the version, the write, COMMIT.                        *)

\* Mutated form: the version is raised by a statement of its own.
UnlockedAlways(t) == TRUE

\* The row of the version is locked to the end of the transaction.
Unlocked(t) == t.lock = NoOne

\* Mutated form: the write leaves the version alone.
BumpedNot(t) == t.v

Bumped(t) == t.v + 1

Begins(w) ==
    /\ writes[w].at = "idle" /\ Unlocked(table) /\ commits < MaxWrites
    /\ table' = [table EXCEPT !.lock = w]
    /\ writes' = [writes EXCEPT ![w] = [at |-> "bumped", row |-> 0, v |-> Bumped(table)]]
    /\ UNCHANGED <<cache, reads, commits>>

\* update: the row is read in the transaction and the new one is made from it.
Updates(w) ==
    /\ writes[w].at = "bumped"
    /\ writes' = [writes EXCEPT ![w].at = "written", ![w].row = table.row + 1]
    /\ UNCHANGED <<table, cache, reads, commits>>

Commits(w) ==
    /\ writes[w].at = "written"
    /\ table' = [row |-> writes[w].row, v |-> writes[w].v, lock |-> NoOne]
    /\ writes' = [writes EXCEPT ![w] = NoWrite]
    /\ commits' = commits + 1
    /\ UNCHANGED <<cache, reads>>

RollsBack(w) ==
    /\ writes[w].at # "idle"
    /\ table' = [table EXCEPT !.lock = NoOne]
    /\ writes' = [writes EXCEPT ![w] = NoWrite]
    /\ UNCHANGED <<cache, reads, commits>>

-----------------------------------------------------------------------------
(* snapshot.                                                               *)

ReadCalls(c, p) ==
    /\ reads[c].at = "idle"
    /\ reads' = [reads EXCEPT ![c].at = "called", ![c].by = p, ![c].since = commits]
    /\ UNCHANGED <<table, writes, cache, commits>>

AsksVersion(c) ==
    /\ reads[c].at = "called"
    /\ reads' = [reads EXCEPT ![c].at = "asked", ![c].v = table.v]
    /\ UNCHANGED <<table, writes, cache, commits>>

\* The cache is of the version that was asked for; it is looked at only now, and
\* another call of the process may have filled it meanwhile.
ServesCache(c) ==
    /\ reads[c].at = "asked" /\ cache[reads[c].by].v = reads[c].v
    /\ reads' = [reads EXCEPT ![c].at = "done", ![c].row = cache[reads[c].by].row]
    /\ UNCHANGED <<table, writes, cache, commits>>

\* Otherwise, or when the cache is older than 15 s, the rows are asked for.
AsksRows(c) ==
    /\ reads[c].at = "asked"
    /\ reads' = [reads EXCEPT ![c].at = "rows", ![c].row = table.row]
    /\ UNCHANGED <<table, writes, cache, commits>>

FillsCache(c) ==
    /\ reads[c].at = "rows"
    /\ cache' = [cache EXCEPT ![reads[c].by] = [v |-> reads[c].v, row |-> reads[c].row]]
    /\ reads' = [reads EXCEPT ![c].at = "done"]
    /\ UNCHANGED <<table, writes, commits>>

ReadReturns(c) ==
    /\ reads[c].at = "done"
    /\ reads' = [reads EXCEPT ![c] = NoRead]
    /\ UNCHANGED <<table, writes, cache, commits>>

MapNext ==
    \/ \E w \in Writers : Begins(w) \/ Updates(w) \/ Commits(w) \/ RollsBack(w)
    \/ \E c \in Reads :
         \/ AsksVersion(c) \/ ServesCache(c) \/ AsksRows(c) \/ FillsCache(c) \/ ReadReturns(c)
         \/ \E p \in Caches : ReadCalls(c, p)

MapSpec == MapInit /\ [][MapNext]_mapVars
-----------------------------------------------------------------------------
MapTypeOK ==
    /\ table \in [row : Nat, v : Nat, lock : Writers \cup {NoOne}]
    /\ writes \in [Writers -> [at : {"idle", "bumped", "written"}, row : Nat, v : Nat]]
    /\ cache \in [Caches -> [v : Nat \cup {-1}, row : Nat]]
    /\ reads \in [Reads -> [at : {"idle", "called", "asked", "rows", "done"},
                            by : Caches \cup {NoOne}, since : Nat, v : Nat, row : Nat]]
    /\ commits \in Nat

\* No write is lost: transactions that read the row before they write it do not
\* overwrite each other, and one that is rolled back leaves nothing.
NoWriteLost == table.row = commits

\* What a read of the table returns holds every write that was committed when it was
\* called, whoever wrote it, though it comes from a cache that several calls of the
\* process fill in any order.
ReadsAreFresh == \A c \in Reads : reads[c].at = "done" => reads[c].row >= reads[c].since
=============================================================================
