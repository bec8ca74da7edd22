---------------------------- MODULE ServiceProofs ----------------------------
(***************************************************************************)
(* Theorems about the durable map, the rate limiters, the budget of money, *)
(* the sandbox that moves, the cron scheduler, the compaction of a         *)
(* session's context and a published app, for every value of their         *)
(* constants.                                                              *)
(***************************************************************************)
EXTENDS DurableMap, RateLimiter, SpendBudget, SandboxMove, CronScheduler, Compaction, DeployService,
        FiniteSetTheorems, WellFoundedInduction, SequenceTheorems, TLAPS

-----------------------------------------------------------------------------
(* The durable map.                                                        *)

\* The lock is held by the one transaction that is under way.
LockInv == \A w \in Writers : writes[w].at # "idle" <=> table.lock = w

\* The row and the version count the commits, and a transaction is ahead by one.
CountInv ==
    /\ table.row = commits /\ table.v = commits
    /\ \A w \in Writers :
         /\ writes[w].at # "idle" => writes[w].v = commits + 1
         /\ writes[w].at = "written" => writes[w].row = commits + 1

\* Rows are never behind the version they are said to be of.
CacheInv == \A p \in Caches : cache[p].row >= cache[p].v

ReadInv ==
    \A c \in Reads :
        /\ reads[c].at # "idle" => reads[c].by \in Caches
        /\ reads[c].at \in {"called", "asked", "rows"} => reads[c].since <= commits
        /\ reads[c].at \in {"asked", "rows"} => reads[c].v \in reads[c].since .. commits
        /\ reads[c].at = "rows" => reads[c].row >= reads[c].v
        /\ reads[c].at = "done" => reads[c].row >= reads[c].since

WriteRecord == [at : {"idle", "bumped", "written"}, row : Nat, v : Nat]
ReadRecord ==
    [at : {"idle", "called", "asked", "rows", "done"}, by : Caches \cup {NoOne}, since : Nat, v : Nat, row : Nat]

MapInv == MapTypeOK /\ LockInv /\ CountInv /\ CacheInv /\ ReadInv

\* The records that a step leaves, of the writers and of the calls.
LEMMA UpdatesType ==
    ASSUME writes \in [Writers -> WriteRecord], NEW w \in Writers, table.row \in Nat, Updates(w)
    PROVE  /\ writes' \in [Writers -> WriteRecord]
           /\ \A x \in Writers \ {w} : writes'[x] = writes[x]
           /\ writes'[w].at = "written" /\ writes'[w].row = table.row + 1 /\ writes'[w].v = writes[w].v
<1>1. table.row + 1 \in Nat
  OBVIOUS
<1>2. writes' \in [Writers -> WriteRecord]
  BY <1>1 DEF Updates, WriteRecord
<1>3. \A x \in Writers \ {w} : writes'[x] = writes[x]
  BY DEF Updates
<1>4. writes'[w].at = "written" /\ writes'[w].row = table.row + 1 /\ writes'[w].v = writes[w].v
  BY DEF Updates, WriteRecord
<1> QED
  BY <1>2, <1>3, <1>4

LEMMA CallsType ==
    ASSUME reads \in [Reads -> ReadRecord], commits \in Nat, NEW c \in Reads, NEW p \in Caches,
           ReadCalls(c, p)
    PROVE  /\ reads' \in [Reads -> ReadRecord]
           /\ \A x \in Reads \ {c} : reads'[x] = reads[x]
           /\ reads'[c].at = "called" /\ reads'[c].by = p /\ reads'[c].since = commits
<1>1. reads' \in [Reads -> ReadRecord]
  <2> DEFINE called == [reads EXCEPT ![c].at = "called"]
             byp    == [called EXCEPT ![c].by = p]
  <2>1. called \in [Reads -> ReadRecord]
    BY DEF ReadRecord
  <2>2. byp \in [Reads -> ReadRecord]
    BY <2>1 DEF ReadRecord
  <2> HIDE DEF byp
  <2>3. [byp EXCEPT ![c].since = commits] \in [Reads -> ReadRecord]
    BY <2>2 DEF ReadRecord
  <2> QED
    BY <2>3 DEF ReadCalls, byp
<1>2. \A x \in Reads \ {c} : reads'[x] = reads[x]
  BY DEF ReadCalls
<1>3. reads'[c].at = "called"
  BY DEF ReadCalls, ReadRecord
<1>4. reads'[c].by = p /\ reads'[c].since = commits
  BY DEF ReadCalls, ReadRecord
<1> QED
  BY <1>1, <1>2, <1>3, <1>4

LEMMA AsksVersionType ==
    ASSUME reads \in [Reads -> ReadRecord], table.v \in Nat, NEW c \in Reads, AsksVersion(c)
    PROVE  /\ reads' \in [Reads -> ReadRecord]
           /\ \A x \in Reads \ {c} : reads'[x] = reads[x]
           /\ reads'[c].at = "asked" /\ reads'[c].by = reads[c].by /\ reads'[c].since = reads[c].since
           /\ reads'[c].v = table.v
<1>1. reads' \in [Reads -> ReadRecord]
  BY DEF AsksVersion, ReadRecord
<1>2. \A x \in Reads \ {c} : reads'[x] = reads[x]
  BY DEF AsksVersion
<1>3. reads'[c].at = "asked" /\ reads'[c].by = reads[c].by
  BY DEF AsksVersion, ReadRecord
<1>4. reads'[c].since = reads[c].since /\ reads'[c].v = table.v
  BY DEF AsksVersion, ReadRecord
<1> QED
  BY <1>1, <1>2, <1>3, <1>4

LEMMA ServesType ==
    ASSUME reads \in [Reads -> ReadRecord], NEW c \in Reads, cache[reads[c].by].row \in Nat,
           ServesCache(c)
    PROVE  /\ reads' \in [Reads -> ReadRecord]
           /\ \A x \in Reads \ {c} : reads'[x] = reads[x]
           /\ reads'[c].at = "done" /\ reads'[c].by = reads[c].by /\ reads'[c].since = reads[c].since
           /\ reads'[c].row = cache[reads[c].by].row
<1>1. reads' \in [Reads -> ReadRecord]
  BY DEF ServesCache, ReadRecord
<1>2. \A x \in Reads \ {c} : reads'[x] = reads[x]
  BY DEF ServesCache
<1>3. reads'[c].at = "done" /\ reads'[c].by = reads[c].by
  BY DEF ServesCache, ReadRecord
<1>4. reads'[c].since = reads[c].since /\ reads'[c].row = cache[reads[c].by].row
  BY DEF ServesCache, ReadRecord
<1> QED
  BY <1>1, <1>2, <1>3, <1>4

LEMMA AsksRowsType ==
    ASSUME reads \in [Reads -> ReadRecord], table.row \in Nat, NEW c \in Reads, AsksRows(c)
    PROVE  /\ reads' \in [Reads -> ReadRecord]
           /\ \A x \in Reads \ {c} : reads'[x] = reads[x]
           /\ reads'[c].at = "rows" /\ reads'[c].by = reads[c].by /\ reads'[c].since = reads[c].since
           /\ reads'[c].v = reads[c].v /\ reads'[c].row = table.row
<1>1. reads' \in [Reads -> ReadRecord]
  BY DEF AsksRows, ReadRecord
<1>2. \A x \in Reads \ {c} : reads'[x] = reads[x]
  BY DEF AsksRows
<1>3. reads'[c].at = "rows" /\ reads'[c].by = reads[c].by /\ reads'[c].v = reads[c].v
  BY DEF AsksRows, ReadRecord
<1>4. reads'[c].since = reads[c].since /\ reads'[c].row = table.row
  BY DEF AsksRows, ReadRecord
<1> QED
  BY <1>1, <1>2, <1>3, <1>4

\* What writers do to the table.
LEMMA WriteKeeps ==
    ASSUME MapInv, NEW w \in Writers, Begins(w) \/ Updates(w) \/ Commits(w) \/ RollsBack(w)
    PROVE  MapInv'
<1> USE MapAssumption DEF MapInv
<1>1. CASE Begins(w)
  <2>1. MapTypeOK'
    BY <1>1 DEF Begins, MapTypeOK, Bumped
  <2>2. LockInv'
    BY <1>1 DEF Begins, MapTypeOK, LockInv, Unlocked
  <2>3. CountInv'
    BY <1>1 DEF Begins, MapTypeOK, CountInv, Bumped
  <2>4. CacheInv' /\ ReadInv'
    BY <1>1 DEF Begins, CacheInv, ReadInv
  <2> QED
    BY <2>1, <2>2, <2>3, <2>4
<1>2. CASE Updates(w)
  <2>1. MapTypeOK'
    BY <1>2, UpdatesType DEF Updates, MapTypeOK, WriteRecord
  <2>2. LockInv'
    BY <1>2 DEF Updates, MapTypeOK, LockInv
  <2>3. CountInv'
    BY <1>2 DEF Updates, MapTypeOK, CountInv
  <2>4. CacheInv' /\ ReadInv'
    BY <1>2 DEF Updates, CacheInv, ReadInv
  <2> QED
    BY <2>1, <2>2, <2>3, <2>4
<1>3. CASE Commits(w)
  <2>1. MapTypeOK'
    BY <1>3 DEF Commits, MapTypeOK, NoWrite
  <2>2. LockInv'
    BY <1>3 DEF Commits, MapTypeOK, LockInv, NoWrite
  <2>3. \A x \in Writers \ {w} : writes'[x].at = "idle"
    BY <1>3 DEF Commits, MapTypeOK, LockInv
  <2>4. CountInv'
    BY <1>3, <2>3 DEF Commits, MapTypeOK, CountInv, NoWrite
  <2>5. CacheInv'
    BY <1>3 DEF Commits, CacheInv
  <2>6. ReadInv'
    BY <1>3 DEF Commits, MapTypeOK, ReadInv
  <2> QED
    BY <2>1, <2>2, <2>4, <2>5, <2>6
<1>4. CASE RollsBack(w)
  <2>1. MapTypeOK'
    BY <1>4 DEF RollsBack, MapTypeOK, NoWrite
  <2>2. LockInv'
    BY <1>4 DEF RollsBack, MapTypeOK, LockInv, NoWrite
  <2>3. CountInv'
    BY <1>4 DEF RollsBack, MapTypeOK, CountInv, NoWrite
  <2>4. CacheInv' /\ ReadInv'
    BY <1>4 DEF RollsBack, CacheInv, ReadInv
  <2> QED
    BY <2>1, <2>2, <2>3, <2>4
<1> QED
  BY <1>1, <1>2, <1>3, <1>4

\* What readers do to their calls and caches.
LEMMA ReadKeeps ==
    ASSUME MapInv, NEW c \in Reads,
           \/ AsksVersion(c) \/ ServesCache(c) \/ AsksRows(c) \/ FillsCache(c) \/ ReadReturns(c)
           \/ \E p \in Caches : ReadCalls(c, p)
    PROVE  MapInv'
<1> USE MapAssumption DEF MapInv
<1>1. LockInv' /\ CountInv'
  BY DEF LockInv, CountInv, AsksVersion, ServesCache, AsksRows, FillsCache, ReadReturns, ReadCalls
<1>2. CASE \E p \in Caches : ReadCalls(c, p)
  <2>1. PICK p \in Caches : ReadCalls(c, p)
    BY <1>2
  <2>2. MapTypeOK'
    BY <2>1, CallsType DEF ReadCalls, MapTypeOK, ReadRecord
  <2>3. CacheInv'
    BY <2>1 DEF ReadCalls, CacheInv
  <2>4. ReadInv'
    <3>1. commits' = commits
      BY <2>1 DEF ReadCalls
    <3>2. commits \in Nat
      BY DEF MapTypeOK
    <3>3. commits <= commits
      BY <3>2
    <3> QED
      BY <2>1, <3>1, <3>2, <3>3, CallsType DEF ReadInv, MapTypeOK, ReadRecord
  <2> QED
    BY <1>1, <2>2, <2>3, <2>4
<1>3. CASE AsksVersion(c)
  <2>1. MapTypeOK'
    BY <1>3, ZenonT(60) DEF AsksVersion, MapTypeOK
  <2>2. CacheInv'
    BY <1>3 DEF AsksVersion, CacheInv
  <2>3. ReadInv'
    BY <1>3 DEF AsksVersion, MapTypeOK, CountInv, ReadInv
  <2> QED
    BY <1>1, <2>1, <2>2, <2>3
<1>4. CASE ServesCache(c)
  <2>1. reads[c].by \in Caches
    BY <1>4 DEF ServesCache, ReadInv
  <2>2. MapTypeOK'
    <3>1. cache[reads[c].by].row \in Nat
      BY <2>1 DEF MapTypeOK
    <3> QED
      BY <1>4, <3>1, ServesType DEF ServesCache, MapTypeOK, ReadRecord
  <2>3. CacheInv'
    BY <1>4 DEF ServesCache, CacheInv
  <2>4. ReadInv'
    <3>1. cache[reads[c].by].row \in Nat /\ cache[reads[c].by].row >= reads[c].v
      BY <1>4, <2>1 DEF ServesCache, MapTypeOK, CacheInv
    <3>2. reads[c].at = "asked" /\ reads[c].v >= reads[c].since /\ commits' = commits
      BY <1>4 DEF ServesCache, MapTypeOK, ReadInv
    <3> QED
      BY <1>4, <2>1, <3>1, <3>2, ServesType DEF ReadInv, MapTypeOK, ReadRecord
  <2> QED
    BY <1>1, <2>2, <2>3, <2>4
<1>5. CASE AsksRows(c)
  <2>1. MapTypeOK'
    BY <1>5, ZenonT(60) DEF AsksRows, MapTypeOK
  <2>2. CacheInv'
    BY <1>5 DEF AsksRows, CacheInv
  <2>3. ReadInv'
    <3>1. reads[c].at = "asked" /\ commits' = commits /\ table.row = commits
      BY <1>5 DEF AsksRows, CountInv
    <3>2. reads[c].v <= commits
      BY <3>1 DEF ReadInv, MapTypeOK
    <3> QED
      BY <1>5, <3>1, <3>2, AsksRowsType DEF ReadInv, MapTypeOK, ReadRecord
  <2> QED
    BY <1>1, <2>1, <2>2, <2>3
<1>6. CASE FillsCache(c)
  <2>1. reads[c].by \in Caches
    BY <1>6 DEF FillsCache, ReadInv
  <2>2. MapTypeOK'
    BY <1>6, <2>1 DEF FillsCache, MapTypeOK
  <2>3. CacheInv'
    BY <1>6, <2>1 DEF FillsCache, MapTypeOK, CacheInv, ReadInv
  <2>4. ReadInv'
    BY <1>6 DEF FillsCache, MapTypeOK, ReadInv
  <2> QED
    BY <1>1, <2>2, <2>3, <2>4
<1>7. CASE ReadReturns(c)
  <2>1. MapTypeOK'
    BY <1>7 DEF ReadReturns, MapTypeOK, NoRead
  <2>2. CacheInv'
    BY <1>7 DEF ReadReturns, CacheInv
  <2>3. ReadInv'
    BY <1>7 DEF ReadReturns, MapTypeOK, ReadInv, NoRead
  <2> QED
    BY <1>1, <2>1, <2>2, <2>3
<1> QED
  BY <1>2, <1>3, <1>4, <1>5, <1>6, <1>7
\* The invariant that the two theorems about the map rest on.
THEOREM MapInvariant == MapSpec => []MapInv
<1>1. MapInit => MapInv
  BY MapAssumption DEF MapInit, MapInv, MapTypeOK, LockInv, CountInv, CacheInv, ReadInv, NoWrite, NoRead
<1>2. MapInv /\ [MapNext]_mapVars => MapInv'
  <2> SUFFICES ASSUME MapInv, [MapNext]_mapVars
               PROVE  MapInv'
    OBVIOUS
  <2>1. CASE MapNext
    BY <2>1, WriteKeeps, ReadKeeps DEF MapNext
  <2>2. CASE UNCHANGED mapVars
    BY <2>2 DEF mapVars, MapInv, MapTypeOK, LockInv, CountInv, CacheInv, ReadInv
  <2> QED
    BY <2>1, <2>2
<1> QED
  BY <1>1, <1>2, PTL DEF MapSpec

\* No write that was committed is ever overwritten by one that had not seen it.
THEOREM MapNoWriteLost == MapSpec => []NoWriteLost
<1>1. MapInv => NoWriteLost
  BY DEF MapInv, CountInv, NoWriteLost
<1> QED
  BY <1>1, MapInvariant, PTL

\* A read holds every write that was committed when it was called, for any number of
\* processes, writers and calls.
THEOREM MapReadsAreFresh == MapSpec => []ReadsAreFresh
<1>1. MapInv => ReadsAreFresh
  BY DEF MapInv, ReadInv, ReadsAreFresh
<1> QED
  BY <1>1, MapInvariant, PTL

-----------------------------------------------------------------------------
(* The rate limiters.                                                      *)

Window == [start : Int, count : Nat]

\* The windows of the two forms begin together; in memory the count stops at the limit.
RateInv ==
    /\ time \in Nat /\ inMemory \in Window /\ inStore \in Window
    /\ inMemory.start = inStore.start
    /\ inMemory.count = IF inStore.count <= RateMax THEN inStore.count ELSE RateMax

\* The limit and the window are positive.
LEMMA RateBounds == RateMax \in Nat \ {0} /\ RateWindow \in Nat \ {0}
  BY RateAssumption

\* A call finds both windows over or neither, and counts in both unless the limit is
\* reached.
LEMMA CallKeeps ==
    ASSUME RateInv, CallArrives
    PROVE  RateInv'
<1>1. time' = time /\ inStore' = Counted(inStore) /\ inMemory' = Remembered(inMemory)
  BY DEF CallArrives
<1>2. CASE time - inStore.start >= RateWindow
  <2>1. inStore' = [start |-> time, count |-> 1] /\ inMemory' = [start |-> time, count |-> 1]
    BY <1>1, <1>2 DEF RateInv, Counted, Remembered, Elapsed
  <2> QED
    BY <1>1, <2>1, RateBounds DEF RateInv, Window
<1>3. CASE ~(time - inStore.start >= RateWindow)
  <2>1. inStore' = [inStore EXCEPT !.count = @ + 1]
    BY <1>1, <1>3 DEF RateInv, Counted, Elapsed
  <2>2. inMemory' = IF inMemory.count < RateMax THEN [inMemory EXCEPT !.count = @ + 1] ELSE inMemory
    BY <1>1, <1>3 DEF RateInv, Remembered, MemoryAllows
  <2>3. inStore' \in Window /\ inStore'.start = inStore.start /\ inStore'.count = inStore.count + 1
    BY <2>1 DEF RateInv, Window
  <2>4. CASE inMemory.count < RateMax
    <3>1. /\ inMemory' \in Window /\ inMemory'.start = inMemory.start
          /\ inMemory'.count = inMemory.count + 1
      BY <2>2, <2>4 DEF RateInv, Window
    <3> QED
      BY <1>1, <2>3, <2>4, <3>1, RateBounds DEF RateInv, Window
  <2>5. CASE ~(inMemory.count < RateMax)
    BY <1>1, <2>2, <2>3, <2>5, RateBounds DEF RateInv, Window
  <2> QED
    BY <2>4, <2>5
<1> QED
  BY <1>2, <1>3

\* The limiter in memory, which does not count what it refuses, and the one in
\* Postgres, which does, always give the same answer.
THEOREM FormsAgree == RateSpec => []LimitersAgree
<1>1. RateInit => RateInv
  BY RateBounds DEF RateInit, RateInv, Window
<1>2. RateInv /\ [RateNext]_rateVars => RateInv'
  <2> SUFFICES ASSUME RateInv, [RateNext]_rateVars
               PROVE  RateInv'
    OBVIOUS
  <2>1. CASE Passes
    BY <2>1 DEF Passes, RateInv
  <2>2. CASE UNCHANGED rateVars
    BY <2>2 DEF rateVars, RateInv
  <2> QED
    BY <2>1, <2>2, CallKeeps DEF RateNext
<1>3. RateInv => LimitersAgree
  <2> SUFFICES ASSUME RateInv
               PROVE  LimitersAgree
    OBVIOUS
  <2>1. CASE time - inStore.start >= RateWindow
    BY <2>1, RateBounds DEF RateInv, LimitersAgree, MemoryAllows, StoreAllows, Counted, Elapsed
  <2>2. CASE ~(time - inStore.start >= RateWindow)
    <3>1. Counted(inStore).count = inStore.count + 1
      BY <2>2 DEF RateInv, Counted, Elapsed, Window
    <3> QED
      BY <2>2, <3>1, RateBounds DEF RateInv, LimitersAgree, MemoryAllows, StoreAllows, Window
  <2> QED
    BY <2>1, <2>2
<1> QED
  BY <1>1, <1>2, <1>3, PTL DEF RateSpec


\* The call that opened the window is the one after the calls of the windows before it.
Opened == Len(admitted) - inMemory.count + 1

\* What was let through before the window opened is not after its start, and what was
\* let through as many calls before as the limit is a window before its start.
BurstInv ==
    /\ RateInv /\ RateTypeOK
    /\ inMemory.count <= Len(admitted) /\ inMemory.start <= time
    /\ inMemory.count = 0 => inMemory.start = -RateWindow
    /\ \A i \in 1 .. Len(admitted) :
         /\ admitted[i] <= time
         /\ i <= Opened => admitted[i] <= inMemory.start
         /\ i + RateMax <= Opened => admitted[i] <= inMemory.start - RateWindow
    /\ \A i \in 1 .. Len(admitted) :
         i + 2 * RateMax - 1 <= Len(admitted) => admitted[i + 2 * RateMax - 1] - admitted[i] >= RateWindow

LEMMA BurstInit == RateInit => BurstInv
<1>1. SUFFICES ASSUME RateInit PROVE BurstInv
  OBVIOUS
<1>2. RateInv
  BY <1>1, RateBounds DEF RateInit, RateInv, Window
<1>3. 0 \in RateTimes /\ admitted = <<>>
  BY <1>1, RateAssumption DEF RateTimes, RateInit
<1>4. RateTypeOK
  BY <1>1, <1>3 DEF RateInit, RateTypeOK
<1>5. inMemory.count = 0 /\ inMemory.start <= time /\ inMemory.start = -RateWindow
  BY <1>1, RateBounds DEF RateInit
<1>6. Len(admitted) = 0
  BY <1>3
<1>7. QED  BY <1>2, <1>4, <1>5, <1>6 DEF BurstInv

LEMMA PassesBurst == ASSUME BurstInv, Passes PROVE BurstInv'
<1>1. time \in Nat /\ time' = time + 1 /\ time < RateTime /\ UNCHANGED inMemory /\ UNCHANGED inStore
      /\ UNCHANGED admitted
  BY DEF Passes, BurstInv, RateInv
<1>2. RateInv'
  BY <1>1 DEF BurstInv, RateInv
<1>3. RateTypeOK'
  BY <1>1, RateAssumption DEF BurstInv, RateTypeOK, RateTimes
<1>4. inMemory.start \in Int /\ \A i \in 1 .. Len(admitted) : admitted[i] \in Int
  <2>1. admitted \in Seq(RateTimes) /\ inMemory \in Window /\ RateTimes \subseteq Int
    BY DEF BurstInv, RateTypeOK, RateInv, RateTimes
  <2>2. \A i \in 1 .. Len(admitted) : admitted[i] \in RateTimes
    BY <2>1, ElementOfSeq
  <2>3. QED  BY <2>1, <2>2 DEF Window
<1>5. inMemory.start <= time' /\ \A i \in 1 .. Len(admitted) : admitted[i] <= time'
  BY <1>1, <1>4 DEF BurstInv
<1>6. Opened' = Opened
  BY <1>1 DEF Opened
<1>7. QED  BY <1>1, <1>2, <1>3, <1>5, <1>6 DEF BurstInv

\* What a call does to the windows and to the calls let through.
LEMMA CallIs ==
    ASSUME BurstInv, CallArrives
    PROVE  \/ /\ time - inMemory.start >= RateWindow
              /\ inMemory' = [start |-> time, count |-> 1] /\ inStore' = [start |-> time, count |-> 1]
              /\ admitted' = Append(admitted, time)
           \/ /\ time - inMemory.start < RateWindow /\ inMemory.count < RateMax
              /\ inMemory'.start = inMemory.start /\ inMemory'.count = inMemory.count + 1 /\ admitted' = Append(admitted, time)
              /\ inStore'.start = inStore.start /\ inStore'.count \in Nat
           \/ /\ inMemory' = inMemory /\ admitted' = admitted
              /\ inStore'.start = inStore.start /\ inStore'.count \in Nat
<1>1. /\ inStore' = Counted(inStore) /\ inMemory' = Remembered(inMemory)
      /\ admitted' = IF StoreAllows(inStore) THEN Append(admitted, time) ELSE admitted
  BY DEF CallArrives
<1>2. /\ time \in Nat /\ inMemory \in Window /\ inStore \in Window /\ inMemory.start = inStore.start
      /\ inMemory.count = IF inStore.count <= RateMax THEN inStore.count ELSE RateMax
  BY DEF BurstInv, RateInv
<1>3. CASE time - inStore.start >= RateWindow
  <2>1. Counted(inStore) = [start |-> time, count |-> 1] /\ Remembered(inMemory) = [start |-> time, count |-> 1]
    BY <1>2, <1>3 DEF Counted, Remembered, Elapsed
  <2>2. StoreAllows(inStore)
    BY <2>1, RateBounds DEF StoreAllows
  <2>3. QED  BY <1>1, <1>2, <1>3, <2>1, <2>2
<1>4. CASE ~(time - inStore.start >= RateWindow)
  <2>1. Counted(inStore).start = inStore.start /\ Counted(inStore).count = inStore.count + 1
    BY <1>2, <1>4 DEF Counted, Elapsed, Window
  <2>2. Remembered(inMemory) = IF inMemory.count < RateMax THEN [inMemory EXCEPT !.count = @ + 1] ELSE inMemory
    BY <1>2, <1>4 DEF Remembered, MemoryAllows
  <2>3. StoreAllows(inStore) <=> inMemory.count < RateMax
    BY <1>2, <2>1, RateBounds DEF StoreAllows, Window
  <2>4. CASE inMemory.count < RateMax
    <3>1. Remembered(inMemory).start = inMemory.start /\ Remembered(inMemory).count = inMemory.count + 1
      BY <1>2, <2>2, <2>4 DEF Window
    <3>2. time - inMemory.start < RateWindow
      BY <1>2, <1>4, RateBounds DEF Window
    <3>3. inStore.count + 1 \in Nat
      BY <1>2 DEF Window
    <3>4. QED  BY <1>1, <1>2, <2>1, <2>3, <2>4, <3>1, <3>2, <3>3
  <2>5. CASE ~(inMemory.count < RateMax)
    BY <1>1, <1>2, <2>1, <2>2, <2>3, <2>5 DEF Window
  <2>6. QED  BY <2>4, <2>5
<1>5. QED  BY <1>3, <1>4

LEMMA CallBurst == ASSUME BurstInv, CallArrives PROVE BurstInv'
<1>1. /\ time' = time /\ time \in Nat /\ time \in RateTimes
      /\ inMemory.start \in Int /\ inMemory.count \in Nat /\ inStore.start = inMemory.start
      /\ inMemory \in [start : {-RateWindow} \cup RateTimes, count : Nat]
      /\ inStore \in [start : {-RateWindow} \cup RateTimes, count : Nat]
      /\ inMemory.count <= RateMax
      /\ admitted \in Seq(RateTimes)
  BY RateBounds DEF BurstInv, RateInv, RateTypeOK, Window, CallArrives
<1>2. RateInv'
  BY CallKeeps DEF BurstInv
<1>3. Len(admitted) \in Nat /\ \A i \in 1 .. Len(admitted) : admitted[i] \in Nat
  <2>1. \A i \in 1 .. Len(admitted) : admitted[i] \in RateTimes
    BY <1>1, ElementOfSeq
  <2>2. Len(admitted) \in Nat
    BY <1>1
  <2>3. QED  BY <2>1, <2>2 DEF RateTimes
<1>4. RateMax \in Nat /\ RateMax >= 1 /\ RateWindow \in Nat
  BY RateBounds
<1>5. inMemory.count <= Len(admitted) /\ inMemory.start <= time
      /\ (inMemory.count = 0 => inMemory.start = -RateWindow)
  BY DEF BurstInv
<1>6. ASSUME NEW i \in 1 .. Len(admitted)
      PROVE  /\ admitted[i] <= time
             /\ i <= Len(admitted) - inMemory.count + 1 => admitted[i] <= inMemory.start
             /\ i + RateMax <= Len(admitted) - inMemory.count + 1 => admitted[i] <= inMemory.start - RateWindow
             /\ i + 2 * RateMax - 1 <= Len(admitted) => admitted[i + 2 * RateMax - 1] - admitted[i] >= RateWindow
  BY DEF BurstInv, Opened
<1>7. RateTypeOK'
  <2>1. inMemory' \in [start : {-RateWindow} \cup RateTimes, count : Nat]
        /\ inStore' \in [start : {-RateWindow} \cup RateTimes, count : Nat]
    <3>1. inMemory' \in Window /\ inStore' \in Window
      BY <1>2 DEF RateInv
    <3>2. inMemory'.start \in {-RateWindow} \cup RateTimes /\ inStore'.start \in {-RateWindow} \cup RateTimes
      BY <1>1, CallIs
    <3>3. QED  BY <3>1, <3>2 DEF Window
  <2>2. admitted' \in Seq(RateTimes)
    <3>1. Append(admitted, time) \in Seq(RateTimes)
      BY <1>1
    <3>2. admitted' = Append(admitted, time) \/ admitted' = admitted
      BY CallIs
    <3>3. QED  BY <1>1, <3>1, <3>2
  <2>3. QED  BY <1>1, <2>1, <2>2 DEF RateTypeOK
<1>8. CASE inMemory' = inMemory /\ admitted' = admitted
  BY <1>1, <1>2, <1>5, <1>6, <1>7, <1>8 DEF BurstInv, Opened
<1>9. ASSUME admitted' = Append(admitted, time),
             \/ /\ time - inMemory.start >= RateWindow /\ inMemory'.start = time /\ inMemory'.count = 1
             \/ /\ time - inMemory.start < RateWindow /\ inMemory.count < RateMax
                /\ inMemory'.start = inMemory.start /\ inMemory'.count = inMemory.count + 1
      PROVE  BurstInv'
  <2>. DEFINE n == Len(admitted)
  <2>1. Len(admitted') = n + 1 /\ admitted'[n + 1] = time /\ \A i \in 1 .. n : admitted'[i] = admitted[i]
    BY <1>1, <1>9
  <2>2. /\ inMemory'.count <= n + 1 /\ inMemory'.start <= time /\ inMemory'.count \in Nat /\ inMemory'.count >= 1
        /\ inMemory'.start \in Int /\ (inMemory'.count > 1 => inMemory.count > 0)
        /\ inMemory'.count = 1 => inMemory'.start = time
    BY <1>1, <1>3, <1>4, <1>5, <1>9, SMTT(30)
  <2>3. ASSUME NEW i \in 1 .. n + 1
        PROVE  /\ admitted'[i] <= time
               /\ i <= n + 1 - inMemory'.count + 1 => admitted'[i] <= inMemory'.start
               /\ i + RateMax <= n + 1 - inMemory'.count + 1 => admitted'[i] <= inMemory'.start - RateWindow
               /\ i + 2 * RateMax - 1 <= n + 1 => admitted'[i + 2 * RateMax - 1] - admitted'[i] >= RateWindow
    <3>1. CASE i = n + 1
      <4>1. admitted'[i] = time /\ time <= time
        BY <1>1, <2>1, <3>1
      <4>2. i <= n + 1 - inMemory'.count + 1 => inMemory'.start = time
        BY <1>3, <2>2, <3>1
      <4>3. ~(i + RateMax <= n + 1 - inMemory'.count + 1) /\ ~(i + 2 * RateMax - 1 <= n + 1)
        BY <1>3, <1>4, <2>2, <3>1
      <4>4. QED  BY <1>1, <4>1, <4>2, <4>3
    <3>2. CASE i \in 1 .. n
      <4>1. admitted'[i] = admitted[i] /\ admitted[i] \in Nat /\ admitted[i] <= time
        BY <1>3, <1>6, <2>1, <3>2
      <4>2. i + RateMax <= n + 1 - inMemory'.count + 1 => admitted[i] <= inMemory'.start - RateWindow
        <5>1. SUFFICES ASSUME i + RateMax <= n + 1 - inMemory'.count + 1
                       PROVE  admitted[i] <= inMemory'.start - RateWindow
          OBVIOUS
        <5>2. CASE time - inMemory.start >= RateWindow /\ inMemory'.start = time /\ inMemory'.count = 1
          <6>1. i <= n - inMemory.count + 1
            BY <1>1, <1>3, <1>4, <1>5, <3>2, <5>1, <5>2
          <6>2. admitted[i] <= inMemory.start
            BY <1>6, <3>2, <6>1
          <6>3. QED  BY <1>1, <1>4, <4>1, <5>2, <6>2
        <5>3. CASE inMemory'.start = inMemory.start /\ inMemory'.count = inMemory.count + 1
          <6>1. i + RateMax <= n - inMemory.count + 1
            BY <1>1, <1>3, <1>4, <3>2, <5>1, <5>3
          <6>2. QED  BY <1>6, <3>2, <5>3, <6>1
        <5>4. QED  BY <1>9, <5>2, <5>3
      <4>3. i <= n + 1 - inMemory'.count + 1 => admitted[i] <= inMemory'.start
        BY <1>1, <1>3, <1>4, <1>5, <1>6, <1>9, <3>2, <4>1, SMTT(30)
      <4>4. ASSUME i + 2 * RateMax - 1 <= n + 1 PROVE admitted'[i + 2 * RateMax - 1] - admitted'[i] >= RateWindow
        <5>1. CASE i + 2 * RateMax - 1 = n + 1
          <6>1. i + RateMax <= n + 1 - inMemory'.count + 1
            BY <1>1, <1>3, <1>4, <1>9, <3>2, <5>1, SMTT(30)
          <6>2. inMemory'.start \in Int
            BY <1>1, <1>9
          <6>3. admitted'[i] <= inMemory'.start - RateWindow
            BY <4>1, <4>2, <6>1
          <6>4. admitted'[i + 2 * RateMax - 1] = time
            BY <2>1, <5>1
          <6>5. QED  BY <1>1, <1>4, <2>2, <4>1, <6>2, <6>3, <6>4
        <5>2. CASE i + 2 * RateMax - 1 # n + 1
          <6>1. i + 2 * RateMax - 1 \in 1 .. n
            BY <1>3, <1>4, <3>2, <4>4, <5>2
          <6>2. QED  BY <1>3, <1>6, <2>1, <3>2, <4>1, <6>1
        <5>3. QED  BY <5>1, <5>2
      <4>5. QED  BY <4>1, <4>2, <4>3, <4>4
    <3>3. QED  BY <1>3, <3>1, <3>2
  <2>4. Opened' = n + 1 - inMemory'.count + 1
    BY <1>3, <2>1, <2>2 DEF Opened
  <2>5. 1 .. Len(admitted') = 1 .. n + 1 /\ inMemory'.count # 0
    BY <2>1, <2>2
  <2>. HIDE DEF n
  <2>6. QED  BY <1>1, <1>2, <1>7, <2>1, <2>2, <2>3, <2>4, <2>5 DEF BurstInv
<1>10. QED  BY <1>8, <1>9, CallIs

LEMMA BurstAlways == RateSpec => []BurstInv
<1>1. BurstInv /\ [RateNext]_rateVars => BurstInv'
  <2>1. SUFFICES ASSUME BurstInv, [RateNext]_rateVars PROVE BurstInv'
    OBVIOUS
  <2>2. CASE UNCHANGED rateVars
    <3>1. UNCHANGED time /\ UNCHANGED inMemory /\ UNCHANGED inStore /\ UNCHANGED admitted
      BY <2>2 DEF rateVars
    <3>2. RateInv' /\ RateTypeOK' /\ Opened' = Opened
      BY <2>1, <3>1 DEF BurstInv, RateInv, RateTypeOK, Opened
    <3>3. QED  BY <2>1, <3>1, <3>2 DEF BurstInv
  <2>3. QED  BY <2>1, <2>2, PassesBurst, CallBurst DEF RateNext
<1>2. QED  BY <1>1, BurstInit, PTL DEF RateSpec

\* Every reachable state of the two windows is well typed.
THEOREM RateTypeCorrect == RateSpec => []RateTypeOK
<1>1. BurstInv => RateTypeOK
  BY DEF BurstInv
<1>2. QED  BY <1>1, BurstAlways, PTL

\* Less than twice the limit is let through in the length of one window, for any limit,
\* window and calls.
THEOREM BurstsStayBounded == RateSpec => []BurstBounded
<1>1. BurstInv => BurstBounded
  <2>1. SUFFICES ASSUME BurstInv, NEW i \in DOMAIN admitted, i + 2 * RateMax - 1 \in DOMAIN admitted
                 PROVE  admitted[i + 2 * RateMax - 1] - admitted[i] >= RateWindow
    BY DEF BurstBounded
  <2>2. DOMAIN admitted = 1 .. Len(admitted) /\ Len(admitted) \in Nat
    BY <2>1 DEF BurstInv, RateTypeOK
  <2>3. QED  BY <2>1, <2>2, RateBounds DEF BurstInv
<1>2. QED  BY <1>1, BurstAlways, PTL

-----------------------------------------------------------------------------
(* SandboxMove.  Types, with the backends that the jobs and the moves that *)
(* are under way have in hand.                                             *)

JobRec   == [at : {"new", "turn", "background", "over"}, on : Backends \cup {NoRoute}, sure : BOOLEAN]
MoverRec == [at : {"idle", "checks", "provisions", "packs", "extracts", "flips",
                   "waits", "looks", "over"},
             from : Backends \cup {NoRoute}, to : Backends \cup {NoRoute},
             since : 0 .. MaxSaves, copy : 0 .. MaxSaves, again : BOOLEAN]

MoveWorking(j) == work[j].at \in {"turn", "background"}
MoveActive(m)  == mover[m].at \notin {"idle", "over"}

RouteTypes == route \in Backends /\ routeCache \in [Routers -> Backends \cup {NoRoute}]
HomeTypes  == /\ home \in [Backends -> 0 .. MaxSaves] /\ saves \in 0 .. MaxSaves /\ kept \in 0 .. MaxSaves
              /\ kept <= saves
JobTypes   == /\ work \in [Jobs -> JobRec]
              /\ \A j \in Jobs : MoveWorking(j) => work[j].on \in Backends
MoverTypes == /\ mover \in [Movers -> MoverRec]
              /\ \A m \in Movers : MoveActive(m) => mover[m].from \in Backends /\ mover[m].to \in Backends
FlagTypes  == moveLock \in Movers \cup {NoMover} /\ astray \in BOOLEAN /\ moveFaults \in 0 .. MaxMoveFaults

MoveTypes == RouteTypes /\ HomeTypes /\ JobTypes /\ MoverTypes /\ FlagTypes

LEMMA MoveInitTypes == MoveInit => MoveTypes
<1>. SUFFICES ASSUME MoveInit PROVE MoveTypes
  OBVIOUS
<1>1. 0 \in 0 .. MaxSaves /\ 0 \in 0 .. MaxMoveFaults
  BY MoveAssumption
<1>2. RouteTypes
  BY MoveAssumption DEF MoveInit, RouteTypes
<1>3. HomeTypes
  BY <1>1 DEF MoveInit, HomeTypes
<1>4. JobTypes
  BY DEF MoveInit, JobTypes, JobRec, MoveWorking
<1>5. MoverTypes
  BY <1>1 DEF MoveInit, MoverTypes, MoverRec, MoveActive, IdleMover
<1>6. FlagTypes
  BY <1>1 DEF MoveInit, FlagTypes
<1>7. QED  BY <1>2, <1>3, <1>4, <1>5, <1>6 DEF MoveTypes

LEMMA JobStartsTypes ==
    ASSUME MoveTypes, NEW j \in Jobs, NEW r \in Routers, JobStarts(j, r)
    PROVE  MoveTypes'
<1>0. PICK c \in Backends : c = Routed(r)
  BY DEF MoveTypes, RouteTypes, Routed
<1>1. PICK b \in Backends : b = Picked(r)
  BY <1>0, MoveAssumption DEF Picked
<1>2. PICK s \in BOOLEAN : s = (~Underway /\ ~astray /\ Routed(r) \in built[r])
  OBVIOUS
<1>3. PICK x \in JobRec : x = [at |-> "turn", on |-> b, sure |-> s]
  BY DEF JobRec
<1>4. work' = [work EXCEPT ![j] = x]
  BY <1>1, <1>2, <1>3 DEF JobStarts
<1>5. x.on \in Backends
  BY <1>3
<1>6. JobTypes'
  BY <1>4, <1>5 DEF MoveTypes, JobTypes, MoveWorking
<1>7. routeCache' = [routeCache EXCEPT ![r] = c]
  BY <1>0 DEF JobStarts
<1>8. RouteTypes'
  BY <1>7 DEF JobStarts, MoveTypes, RouteTypes
<1>9. HomeTypes' /\ MoverTypes' /\ FlagTypes'
  BY DEF JobStarts, MoveTypes, HomeTypes, MoverTypes, MoveActive, FlagTypes
<1>10. QED  BY <1>6, <1>8, <1>9 DEF MoveTypes

LEMMA JobWritesTypes ==
    ASSUME MoveTypes, NEW j \in Jobs, JobWrites(j)
    PROVE  MoveTypes'
<1>1. PICK n \in 0 .. MaxSaves : n = saves + 1
  BY MoveAssumption DEF JobWrites, MoveTypes, HomeTypes
<1>2. PICK b \in Backends : b = work[j].on
  BY DEF JobWrites, MoveTypes, JobTypes, MoveWorking
<1>3. home' = [home EXCEPT ![b] = n] /\ saves' = n /\ (kept' = n \/ kept' = kept)
  BY <1>1, <1>2 DEF JobWrites
<1>4. HomeTypes'
  <2>1. home' \in [Backends -> 0 .. MaxSaves]
    BY <1>2, <1>3 DEF MoveTypes, HomeTypes
  <2>2. saves' \in 0 .. MaxSaves /\ kept' \in 0 .. MaxSaves /\ kept' <= saves'
    BY <1>1, <1>3 DEF MoveTypes, HomeTypes
  <2>3. QED  BY <2>1, <2>2 DEF HomeTypes
<1>5. RouteTypes' /\ JobTypes' /\ MoverTypes' /\ FlagTypes'
  BY DEF JobWrites, MoveTypes, RouteTypes, JobTypes, MoveWorking, MoverTypes, MoveActive, FlagTypes
<1>6. QED  BY <1>4, <1>5 DEF MoveTypes

LEMMA JobFields ==
    \A x \in JobRec, s \in {"background", "over"} :
        LET y == [x EXCEPT !.at = s]
        IN  y \in JobRec /\ y.at = s /\ y.on = x.on /\ y.sure = x.sure
BY DEF JobRec

LEMMA JobEndsTypes ==
    ASSUME MoveTypes, NEW j \in Jobs, JobEnds(j)
    PROVE  MoveTypes'
<1>1. PICK s \in {"over", "background"} : work' = [work EXCEPT ![j].at = s]
  BY DEF JobEnds
<1>2. PICK x \in JobRec : x = [work[j] EXCEPT !.at = s] /\ x.on \in Backends
  <2>1. work[j] \in JobRec /\ work[j].on \in Backends
    BY DEF JobEnds, MoveTypes, JobTypes, MoveWorking
  <2>2. QED  BY <2>1, JobFields
<1>3. work' = [work EXCEPT ![j] = x]
  BY <1>1, <1>2 DEF MoveTypes, JobTypes
<1>4. JobTypes'
  BY <1>2, <1>3 DEF MoveTypes, JobTypes, MoveWorking
<1>5. RouteTypes' /\ HomeTypes' /\ MoverTypes' /\ FlagTypes'
  BY DEF JobEnds, MoveTypes, RouteTypes, HomeTypes, MoverTypes, MoveActive, FlagTypes
<1>6. QED  BY <1>4, <1>5 DEF MoveTypes

LEMMA CacheLapsesTypes ==
    ASSUME MoveTypes, NEW r \in Routers, CacheLapses(r)
    PROVE  MoveTypes'
<1>1. RouteTypes'
  BY DEF CacheLapses, MoveTypes, RouteTypes
<1>2. JobTypes' /\ HomeTypes' /\ MoverTypes' /\ FlagTypes'
  BY DEF CacheLapses, MoveTypes, JobTypes, MoveWorking, HomeTypes, MoverTypes, MoveActive, FlagTypes
<1>3. QED  BY <1>1, <1>2 DEF MoveTypes

\* What a move may do to its own record, field by field.
LEMMA MoverAts ==
    \A x \in MoverRec, s \in {"checks", "provisions", "packs", "extracts", "flips", "waits", "looks", "over"} :
        LET y == [x EXCEPT !.at = s]
        IN  /\ y \in MoverRec /\ y.at = s /\ y.from = x.from /\ y.to = x.to
            /\ y.copy = x.copy /\ y.again = x.again
BY DEF MoverRec

LEMMA MoverSinces ==
    \A x \in MoverRec, n \in 0 .. MaxSaves :
        LET y == [x EXCEPT !.at = "packs", !.since = n]
        IN  y \in MoverRec /\ y.at = "packs" /\ y.from = x.from /\ y.to = x.to /\ y.again = x.again
BY DEF MoverRec

LEMMA MoverCopies ==
    \A x \in MoverRec, n \in 0 .. MaxSaves :
        LET y == [x EXCEPT !.at = "extracts", !.copy = n]
        IN  /\ y \in MoverRec /\ y.at = "extracts" /\ y.from = x.from /\ y.to = x.to
            /\ y.copy = n /\ y.again = x.again
BY DEF MoverRec

LEMMA MoverAgains ==
    \A x \in MoverRec :
        LET y == [x EXCEPT !.at = "packs", !.again = TRUE]
        IN  y \in MoverRec /\ y.at = "packs" /\ y.from = x.from /\ y.to = x.to /\ y.again = TRUE
BY DEF MoverRec

\* Mover m goes on to record x.
MoverGoes(m, x) == mover' = [mover EXCEPT ![m] = x]

LEMMA GoesTypes ==
    ASSUME MoveTypes, NEW m \in Movers, NEW x \in MoverRec, MoverGoes(m, x),
           x.at \in {"idle", "over"} \/ (x.from \in Backends /\ x.to \in Backends)
    PROVE  MoverTypes' /\ mover'[m] = x /\ \A q \in Movers \ {m} : mover'[q] = mover[q]
BY DEF MoveTypes, MoverTypes, MoverGoes, MoveActive

-----------------------------------------------------------------------------
(* The invariant of a move.  The scope's lock leaves one call at a time    *)
(* under way.  Until its first flip the route is its old backend, from     *)
(* then on the new one; while it is between its look at the background and *)
(* its end no job is sure, so what was kept stays as it was and is on the  *)
(* old backend, then in the copy, then on the new backend.                 *)

OnTheMove(m) == mover[m].at \in {"provisions", "packs", "extracts", "flips", "waits", "looks"}

RouteOf(x) == IF x.again \/ x.at \in {"waits", "looks"} THEN x.to ELSE x.from

MoverInv(m) ==
    /\ MoveActive(m) => moveLock = m /\ mover[m].from # mover[m].to /\ route = RouteOf(mover[m])
    /\ mover[m].again => mover[m].at # "checks"
    /\ OnTheMove(m) => home[mover[m].from] >= kept
    /\ mover[m].at = "extracts" => mover[m].copy >= kept
    /\ mover[m].at = "flips" => home[mover[m].to] >= kept

MoversOK == \A m \in Movers : MoverInv(m)

SureJob(j) == work[j].sure /\ MoveWorking(j)
NoneSure   == \A m \in Movers : OnTheMove(m) => \A j \in Jobs : ~SureJob(j)
SureOnRoute == \A j \in Jobs : SureJob(j) => work[j].on = route
KeptOnRoute == home[route] >= kept

\* The caches agree with the route unless a move waits for them to lapse, or broke
\* off before they had.
CachesAgree == ~astray /\ (\A m \in Movers : mover[m].at # "waits") =>
                   \A r \in Routers : routeCache[r] \in {NoRoute, route}

MoveInv == MoversOK /\ NoneSure /\ SureOnRoute /\ KeptOnRoute /\ CachesAgree

LEMMA AtRest == \A m \in Movers : ~MoveActive(m) => MoverInv(m)
BY DEF MoveActive, MoverInv, OnTheMove

LEMMA AtRestNext == \A m \in Movers : ~MoveActive(m)' => MoverInv(m)'
<1>1. (\A m \in Movers : ~MoveActive(m) => MoverInv(m))'
  BY AtRest, PTL
<1>2. QED  BY <1>1

LEMMA OnlyMover ==
    ASSUME MoversOK, NEW m \in Movers, MoveActive(m)
    PROVE  \A q \in Movers \ {m} : ~MoveActive(q)
BY DEF MoversOK, MoverInv

LEMMA MovingIsActive == \A m \in Movers : OnTheMove(m) => MoveActive(m)
BY DEF OnTheMove, MoveActive

LEMMA MoveInitInv == MoveInit => MoveInv
<1>. SUFFICES ASSUME MoveInit PROVE MoveInv
  OBVIOUS
<1>1. \A m \in Movers : ~MoveActive(m)
  BY DEF MoveInit, MoveActive, IdleMover
<1>2. MoversOK
  BY <1>1, AtRest DEF MoversOK
<1>3. NoneSure
  BY <1>1, MovingIsActive DEF NoneSure
<1>4. SureOnRoute
  BY DEF MoveInit, SureOnRoute, SureJob, MoveWorking
<1>5. KeptOnRoute
  BY MoveAssumption DEF MoveInit, KeptOnRoute
<1>6. CachesAgree
  BY DEF MoveInit, CachesAgree
<1>7. QED  BY <1>2, <1>3, <1>4, <1>5, <1>6 DEF MoveInv

\* A step of a job: the moves stand where they stood.
LEMMA StillMoving ==
    ASSUME MoveInv, mover' = mover, route' = route, moveLock' = moveLock,
           \A m \in Movers : OnTheMove(m) => kept' = kept,
           \A b \in Backends : home'[b] >= kept' \/ (home'[b] = home[b] /\ kept' = kept),
           MoveTypes
    PROVE  MoversOK'
<1>. SUFFICES ASSUME NEW m \in Movers PROVE MoverInv(m)'
  BY DEF MoversOK
<1>1. MoverInv(m)
  BY DEF MoveInv, MoversOK
<1>2. MoveActive(m) => mover[m].from \in Backends /\ mover[m].to \in Backends
  BY DEF MoveTypes, MoverTypes
<1>3. MoveActive(m)' => moveLock' = m /\ mover'[m].from # mover'[m].to /\ route' = RouteOf(mover'[m])
  BY <1>1 DEF MoverInv, MoveActive
<1>4. OnTheMove(m)' => home'[mover'[m].from] >= kept'
  BY <1>1, <1>2 DEF MoverInv, OnTheMove, MoveActive
<1>5. mover'[m].at = "extracts" => mover'[m].copy >= kept'
  BY <1>1 DEF MoverInv, OnTheMove
<1>6. mover'[m].at = "flips" => home'[mover'[m].to] >= kept'
  BY <1>1, <1>2 DEF MoverInv, MoveActive
<1>7. mover'[m].again => mover'[m].at # "checks"
  BY <1>1 DEF MoverInv
<1>8. QED  BY <1>3, <1>4, <1>5, <1>6, <1>7 DEF MoverInv

LEMMA JobStartsKeeps ==
    ASSUME MoveTypes, MoveInv, NEW j \in Jobs, NEW r \in Routers, JobStarts(j, r)
    PROVE  MoveInv'
<1>1. /\ work[j].at = "new" /\ mover' = mover /\ route' = route /\ moveLock' = moveLock
      /\ home' = home /\ kept' = kept /\ astray' = astray
      /\ routeCache' = [routeCache EXCEPT ![r] = Routed(r)]
      /\ work' = [work EXCEPT ![j] = [at |-> "turn", on |-> Picked(r),
                                      sure |-> ~Underway /\ ~astray /\ Routed(r) \in built[r]]]
  BY DEF JobStarts
<1>2. work \in [Jobs -> JobRec] /\ routeCache \in [Routers -> Backends \cup {NoRoute}]
  BY DEF MoveTypes, JobTypes, RouteTypes
<1>3. MoversOK /\ NoneSure /\ SureOnRoute /\ KeptOnRoute /\ CachesAgree
  BY DEF MoveInv
<1>4. MoversOK'
  BY <1>1, StillMoving
<1>5. /\ \A i \in Jobs \ {j} : work'[i] = work[i]
      /\ work'[j].on = Picked(r)
      /\ work'[j].sure => ~Underway /\ ~astray /\ Routed(r) \in built[r]
  BY <1>1, <1>2
<1>6. Underway \/ \A m \in Movers : ~OnTheMove(m)
  BY DEF Underway, OnTheMove
<1>7. NoneSure'
  <2>1. ASSUME NEW m \in Movers, OnTheMove(m), NEW i \in Jobs, SureJob(i)' PROVE FALSE
    <3>1. CASE i = j
      BY <1>5, <1>6, <2>1, <3>1 DEF SureJob
    <3>2. CASE i # j
      BY <1>3, <1>5, <2>1, <3>2 DEF NoneSure, SureJob, MoveWorking
    <3>3. QED  BY <3>1, <3>2
  <2>2. \A m \in Movers : OnTheMove(m)' => OnTheMove(m)
    BY <1>1 DEF OnTheMove
  <2>3. QED  BY <2>1, <2>2 DEF NoneSure
<1>8. ~Underway /\ ~astray /\ Routed(r) \in built[r] => Picked(r) = route
  <2>1. ASSUME ~Underway, ~astray PROVE routeCache[r] \in {NoRoute, route}
    <3>1. \A m \in Movers : mover[m].at # "waits"
      BY <2>1 DEF Underway
    <3>2. QED  BY <1>3, <2>1, <3>1 DEF CachesAgree
  <2>2. QED  BY <2>1 DEF Picked, Routed
<1>9. SureOnRoute'
  <2>1. ASSUME NEW i \in Jobs, SureJob(i)' PROVE work'[i].on = route
    <3>1. CASE i = j
      BY <1>5, <1>8, <2>1, <3>1 DEF SureJob
    <3>2. CASE i # j
      BY <1>3, <1>5, <2>1, <3>2 DEF SureOnRoute, SureJob, MoveWorking
    <3>3. QED  BY <3>1, <3>2
  <2>2. QED  BY <1>1, <2>1 DEF SureOnRoute
<1>10. KeptOnRoute'
  BY <1>1, <1>3 DEF KeptOnRoute
<1>11. CachesAgree'
  BY <1>1, <1>2, <1>3 DEF CachesAgree, Routed
<1>12. QED  BY <1>4, <1>7, <1>9, <1>10, <1>11 DEF MoveInv

LEMMA JobWritesKeeps ==
    ASSUME MoveTypes, MoveInv, NEW j \in Jobs, JobWrites(j)
    PROVE  MoveInv'
<1>1. /\ MoveWorking(j) /\ mover' = mover /\ route' = route /\ moveLock' = moveLock
      /\ astray' = astray /\ routeCache' = routeCache /\ work' = work
      /\ home' = [home EXCEPT ![work[j].on] = saves + 1]
      /\ kept' = IF work[j].sure THEN saves + 1 ELSE kept
  BY DEF JobWrites, MoveWorking
<1>2. /\ home \in [Backends -> 0 .. MaxSaves] /\ saves \in Nat /\ kept \in Nat /\ kept <= saves
      /\ work[j].on \in Backends /\ route \in Backends
  BY <1>1, MoveAssumption DEF MoveTypes, HomeTypes, JobTypes, RouteTypes
<1>3. MoversOK /\ NoneSure /\ SureOnRoute /\ KeptOnRoute /\ CachesAgree
  BY DEF MoveInv
<1>4. \A m \in Movers : OnTheMove(m) => kept' = kept
  BY <1>1, <1>3 DEF NoneSure, SureJob
<1>5. home'[work[j].on] = saves + 1 /\ saves + 1 >= kept'
  BY <1>1, <1>2
<1>6. \A b \in Backends : b # work[j].on => home'[b] = home[b]
  BY <1>1, <1>2
<1>7. CASE work[j].sure
  <2>1. \A m \in Movers : ~OnTheMove(m)
    BY <1>1, <1>3, <1>7 DEF NoneSure, SureJob
  <2>2. work[j].on = route
    BY <1>1, <1>3, <1>7 DEF SureOnRoute, SureJob
  <2>3. MoversOK'
    <3>. SUFFICES ASSUME NEW m \in Movers PROVE MoverInv(m)'
      BY DEF MoversOK
    <3>1. MoverInv(m)
      BY <1>3 DEF MoversOK
    <3>2. ~OnTheMove(m) /\ ~OnTheMove(m)'
      BY <1>1, <2>1 DEF OnTheMove
    <3>3. mover'[m].at \notin {"extracts", "flips"}
      BY <3>2 DEF OnTheMove
    <3>4. QED  BY <1>1, <3>1, <3>2, <3>3 DEF MoverInv, MoveActive
  <2>4. KeptOnRoute'
    BY <1>1, <1>5, <2>2 DEF KeptOnRoute
  <2>5. NoneSure' /\ SureOnRoute' /\ CachesAgree'
    BY <1>1, <1>3 DEF NoneSure, OnTheMove, SureOnRoute, SureJob, MoveWorking, CachesAgree
  <2>6. QED  BY <2>3, <2>4, <2>5 DEF MoveInv
<1>8. CASE ~work[j].sure
  <2>1. kept' = kept
    BY <1>1, <1>8
  <2>2. \A b \in Backends : home'[b] >= kept' \/ (home'[b] = home[b] /\ kept' = kept)
    BY <1>5, <1>6, <2>1
  <2>3. MoversOK'
    BY <1>1, <2>1, <2>2, StillMoving
  <2>4. KeptOnRoute'
    BY <1>1, <1>2, <1>3, <2>2 DEF KeptOnRoute
  <2>5. NoneSure' /\ SureOnRoute' /\ CachesAgree'
    BY <1>1, <1>3 DEF NoneSure, OnTheMove, SureOnRoute, SureJob, MoveWorking, CachesAgree
  <2>6. QED  BY <2>3, <2>4, <2>5 DEF MoveInv
<1>9. QED  BY <1>7, <1>8

LEMMA JobEndsKeeps ==
    ASSUME MoveTypes, MoveInv, NEW j \in Jobs, JobEnds(j)
    PROVE  MoveInv'
<1>1. /\ MoveWorking(j) /\ mover' = mover /\ route' = route /\ moveLock' = moveLock
      /\ home' = home /\ kept' = kept /\ astray' = astray /\ routeCache' = routeCache
  BY DEF JobEnds, MoveWorking
<1>2. PICK s \in {"over", "background"} : work' = [work EXCEPT ![j].at = s]
  BY DEF JobEnds
<1>3. work \in [Jobs -> JobRec]
  BY DEF MoveTypes, JobTypes
<1>4. \A i \in Jobs : work'[i].on = work[i].on /\ work'[i].sure = work[i].sure
  BY <1>2, <1>3 DEF JobRec
<1>5. \A i \in Jobs : MoveWorking(i)' => MoveWorking(i)
  BY <1>1, <1>2, <1>3 DEF MoveWorking, JobRec
<1>6. \A i \in Jobs : SureJob(i)' => SureJob(i)
  BY <1>4, <1>5 DEF SureJob
<1>7. MoversOK /\ NoneSure /\ SureOnRoute /\ KeptOnRoute /\ CachesAgree
  BY DEF MoveInv
<1>8. MoversOK'
  BY <1>1, StillMoving
<1>9. NoneSure'
  BY <1>1, <1>6, <1>7 DEF NoneSure, OnTheMove
<1>10. SureOnRoute'
  BY <1>1, <1>4, <1>6, <1>7 DEF SureOnRoute
<1>11. KeptOnRoute' /\ CachesAgree'
  BY <1>1, <1>7 DEF KeptOnRoute, CachesAgree
<1>12. QED  BY <1>8, <1>9, <1>10, <1>11 DEF MoveInv

LEMMA CacheLapsesKeeps ==
    ASSUME MoveTypes, MoveInv, NEW r \in Routers, CacheLapses(r)
    PROVE  MoveInv'
<1>1. /\ mover' = mover /\ route' = route /\ moveLock' = moveLock /\ work' = work
      /\ home' = home /\ kept' = kept /\ astray' = (astray /\ Behind(routeCache', route))
      /\ routeCache' = [routeCache EXCEPT ![r] = NoRoute]
  BY DEF CacheLapses
<1>2. routeCache \in [Routers -> Backends \cup {NoRoute}]
  BY DEF MoveTypes, RouteTypes
<1>3. MoversOK /\ NoneSure /\ SureOnRoute /\ KeptOnRoute /\ CachesAgree
  BY DEF MoveInv
<1>4. MoversOK'
  BY <1>1, StillMoving
<1>5. NoneSure' /\ SureOnRoute' /\ KeptOnRoute'
  BY <1>1, <1>3 DEF NoneSure, OnTheMove, SureOnRoute, SureJob, MoveWorking, KeptOnRoute
<1>6. CachesAgree'
  <2>1. CASE astray
    BY <1>1, <2>1 DEF CachesAgree, Behind
  <2>2. CASE ~astray
    BY <1>1, <1>2, <1>3, <2>2 DEF CachesAgree
  <2>3. QED  BY <2>1, <2>2
<1>7. QED  BY <1>4, <1>5, <1>6 DEF MoveInv

\* A step of mover m, while no other is under way.
LEMMA MoverStep ==
    ASSUME MoveTypes, NEW m \in Movers, NEW x \in MoverRec, MoverGoes(m, x),
           \A q \in Movers \ {m} : ~MoveActive(q),
           x.at \in {"idle", "over"} \/ (x.from \in Backends /\ x.to \in Backends),
           MoveActive(m)' => MoverInv(m)',
           OnTheMove(m)' => \A j \in Jobs : ~SureJob(j)'
    PROVE  MoversOK' /\ NoneSure' /\ MoverTypes' /\ \A q \in Movers \ {m} : mover'[q].at # "waits"
<1>1. MoverTypes' /\ mover'[m] = x /\ \A q \in Movers \ {m} : mover'[q] = mover[q]
  BY GoesTypes
<1>2. \A q \in Movers \ {m} : ~MoveActive(q)'
  BY <1>1 DEF MoveActive
<1>3. \A q \in Movers : MoverInv(q)'
  BY <1>2, AtRestNext
<1>4. MoversOK'
  BY <1>3 DEF MoversOK
<1>5. \A q \in Movers \ {m} : ~OnTheMove(q)' /\ mover'[q].at # "waits"
  BY <1>2 DEF OnTheMove, MoveActive
<1>6. NoneSure'
  BY <1>5 DEF NoneSure
<1>7. QED  BY <1>1, <1>4, <1>5, <1>6

LEMMA MoveEntersKeeps ==
    ASSUME MoveTypes, MoveInv, NEW m \in Movers, NEW to \in Backends, MoveEnters(m, to)
    PROVE  MoveTypes' /\ MoveInv'
<1>1. /\ mover[m].at = "idle" /\ moveLock = NoMover /\ to # route /\ moveLock' = m
      /\ route' = route /\ routeCache' = routeCache /\ home' = home /\ work' = work
      /\ saves' = saves /\ kept' = kept /\ astray' = astray /\ moveFaults' = moveFaults
  BY DEF MoveEnters
<1>. DEFINE x == [IdleMover EXCEPT !.at = "checks", !.from = route, !.to = to]
<1>2. mover' = [mover EXCEPT ![m] = x]
  BY DEF MoveEnters
<1>3. route \in Backends /\ 0 \in 0 .. MaxSaves
  BY MoveAssumption DEF MoveTypes, RouteTypes
<1>4. x \in MoverRec /\ x.at = "checks" /\ x.from = route /\ x.to = to /\ x.again = FALSE
  BY <1>3 DEF IdleMover, MoverRec
<1>. HIDE DEF x
<1>5. MoversOK /\ NoneSure /\ SureOnRoute /\ KeptOnRoute /\ CachesAgree
  BY DEF MoveInv
<1>6. \A q \in Movers : ~MoveActive(q)
  BY <1>1, <1>5, MoveAssumption DEF MoversOK, MoverInv
<1>7. mover'[m] = x
  BY <1>2 DEF MoveTypes, MoverTypes
<1>8. MoverInv(m)' /\ ~OnTheMove(m)'
  BY <1>1, <1>4, <1>7 DEF MoverInv, OnTheMove, RouteOf
<1>9. MoversOK' /\ NoneSure' /\ MoverTypes' /\ \A q \in Movers \ {m} : mover'[q].at # "waits"
  BY <1>2, <1>3, <1>4, <1>6, <1>8, MoverStep DEF MoverGoes
<1>10. SureOnRoute' /\ KeptOnRoute'
  BY <1>1, <1>5 DEF SureOnRoute, SureJob, MoveWorking, KeptOnRoute
<1>11. \A q \in Movers : mover[q].at # "waits"
  BY <1>6 DEF MoveActive
<1>12. CachesAgree'
  BY <1>1, <1>5, <1>11 DEF CachesAgree
<1>13. RouteTypes' /\ HomeTypes' /\ JobTypes' /\ FlagTypes'
  BY <1>1 DEF MoveTypes, RouteTypes, HomeTypes, JobTypes, MoveWorking, FlagTypes
<1>14. QED  BY <1>9, <1>10, <1>12, <1>13 DEF MoveInv, MoveTypes

\* The steps that write nothing but the mover's own record, its lock and the flag:
\* the caches agree with the route as before, or the step has seen to it.
LEMMA QuietMove ==
    ASSUME MoveTypes, MoveInv, NEW m \in Movers, MoveActive(m), NEW x \in MoverRec,
           MoverGoes(m, x), x.from = mover[m].from, x.to = mover[m].to,
           route' = route, routeCache' = routeCache, home' = home, work' = work,
           saves' = saves, kept' = kept, moveLock' \in Movers \cup {NoMover}, astray' \in BOOLEAN,
           moveFaults' \in 0 .. MaxMoveFaults,
           MoveActive(m)' => MoverInv(m)',
           OnTheMove(m)' => OnTheMove(m),
           CachesAgree'
    PROVE  MoveTypes' /\ MoveInv'
<1>1. MoversOK /\ NoneSure /\ SureOnRoute /\ KeptOnRoute
  BY DEF MoveInv
<1>2. \A q \in Movers \ {m} : ~MoveActive(q)
  BY <1>1, OnlyMover
<1>3. x.from \in Backends /\ x.to \in Backends
  BY DEF MoveTypes, MoverTypes
<1>4. OnTheMove(m)' => \A j \in Jobs : ~SureJob(j)'
  BY <1>1 DEF NoneSure, SureJob, MoveWorking
<1>5. MoversOK' /\ NoneSure' /\ MoverTypes'
  BY <1>2, <1>3, <1>4, MoverStep
<1>6. SureOnRoute' /\ KeptOnRoute'
  BY <1>1 DEF SureOnRoute, SureJob, MoveWorking, KeptOnRoute
<1>7. RouteTypes' /\ HomeTypes' /\ JobTypes' /\ FlagTypes'
  BY DEF MoveTypes, RouteTypes, HomeTypes, JobTypes, MoveWorking, FlagTypes
<1>8. QED  BY <1>5, <1>6, <1>7 DEF MoveInv, MoveTypes

LEMMA MoveRefusedKeeps ==
    ASSUME MoveTypes, MoveInv, NEW m \in Movers, MoveRefused(m)
    PROVE  MoveTypes' /\ MoveInv'
<1>1. /\ mover[m].at = "checks" /\ moveLock' = NoMover /\ mover' = [mover EXCEPT ![m].at = "over"]
      /\ route' = route /\ routeCache' = routeCache /\ home' = home /\ work' = work
      /\ saves' = saves /\ kept' = kept /\ astray' = astray /\ moveFaults' = moveFaults
  BY DEF MoveRefused, MoverAt
<1>2. mover[m] \in MoverRec /\ MoveActive(m) /\ mover \in [Movers -> MoverRec]
  BY <1>1 DEF MoveTypes, MoverTypes, MoveActive
<1>3. PICK x \in MoverRec : /\ x = [mover[m] EXCEPT !.at = "over"] /\ x.at = "over"
                            /\ x.from = mover[m].from /\ x.to = mover[m].to
  BY <1>2, MoverAts, ZenonT(60)
<1>4. MoverGoes(m, x) /\ mover'[m] = x /\ \A q \in Movers \ {m} : mover'[q] = mover[q]
  BY <1>1, <1>2, <1>3 DEF MoverGoes
<1>5. ~MoveActive(m)' /\ ~OnTheMove(m)'
  BY <1>3, <1>4 DEF MoveActive, OnTheMove
<1>6. CachesAgree'
  BY <1>1, <1>3, <1>4 DEF MoveInv, CachesAgree
<1>7. astray' \in BOOLEAN /\ moveFaults' \in 0 .. MaxMoveFaults
  BY <1>1 DEF MoveTypes, FlagTypes
<1>8. QED  BY <1>1, <1>2, <1>3, <1>4, <1>5, <1>6, <1>7, QuietMove

LEMMA MoveCheckedKeeps ==
    ASSUME MoveTypes, MoveInv, NEW m \in Movers, MoveChecked(m)
    PROVE  MoveTypes' /\ MoveInv'
<1>1. /\ mover[m].at = "checks" /\ mover' = [mover EXCEPT ![m].at = "provisions"]
      /\ route' = route /\ routeCache' = routeCache /\ home' = home /\ moveLock' = moveLock
      /\ saves' = saves /\ kept' = kept /\ astray' = astray /\ moveFaults' = moveFaults
      /\ work' = [j \in Jobs |-> IF work[j].at = "turn" THEN [work[j] EXCEPT !.sure = FALSE] ELSE work[j]]
      /\ \A j \in Jobs : work[j].at # "background"
  BY DEF MoveChecked, MoverAt, HasLiveWork
<1>2. mover[m] \in MoverRec /\ MoveActive(m) /\ mover \in [Movers -> MoverRec]
  BY <1>1 DEF MoveTypes, MoverTypes, MoveActive
<1>3. PICK x \in MoverRec : /\ x = [mover[m] EXCEPT !.at = "provisions"] /\ x.at = "provisions"
                            /\ x.from = mover[m].from /\ x.to = mover[m].to /\ x.again = mover[m].again
  <2>. DEFINE y == [mover[m] EXCEPT !.at = "provisions"]
  <2>1. y \in MoverRec /\ y.at = "provisions" /\ y.from = mover[m].from /\ y.to = mover[m].to /\ y.again = mover[m].again
    BY <1>2, MoverAts
  <2>. HIDE DEF y
  <2>2. QED  BY <2>1 DEF y
<1>4. MoverGoes(m, x) /\ mover'[m] = x /\ \A q \in Movers \ {m} : mover'[q] = mover[q]
  BY <1>1, <1>2, <1>3 DEF MoverGoes
<1>5. MoversOK /\ NoneSure /\ SureOnRoute /\ KeptOnRoute /\ CachesAgree
  BY DEF MoveInv
<1>6. MoverInv(m)
  BY <1>5 DEF MoversOK
<1>7. x.from \in Backends /\ x.to \in Backends
  BY <1>2, <1>3 DEF MoveTypes, MoverTypes
<1>8. mover[m].again \in BOOLEAN
  BY <1>2 DEF MoverRec
<1>9. mover[m].again = FALSE
  BY <1>1, <1>6, <1>8 DEF MoverInv
<1>10. MoverInv(m)'
  BY <1>1, <1>2, <1>3, <1>4, <1>5, <1>6, <1>9 DEF MoverInv, RouteOf, MoveActive, OnTheMove, KeptOnRoute
<1>11. ASSUME NEW j \in Jobs
       PROVE  work'[j] \in JobRec /\ work'[j].at = work[j].at /\ work'[j].on = work[j].on /\ ~SureJob(j)'
  <2>1. work[j] \in JobRec
    BY DEF MoveTypes, JobTypes
  <2>2. CASE work[j].at = "turn"
    <3>1. work'[j] = [work[j] EXCEPT !.sure = FALSE]
      BY <1>1, <2>2
    <3>2. work'[j] \in JobRec /\ work'[j].at = work[j].at /\ work'[j].on = work[j].on /\ work'[j].sure = FALSE
      BY <2>1, <3>1 DEF JobRec
    <3>3. QED  BY <3>2 DEF SureJob
  <2>3. CASE work[j].at # "turn"
    <3>1. work'[j] = work[j]
      BY <1>1, <2>3
    <3>2. QED  BY <1>1, <2>1, <2>3, <3>1 DEF SureJob, MoveWorking
  <2>4. QED  BY <2>2, <2>3
<1>12. \A q \in Movers \ {m} : ~MoveActive(q)
  BY <1>2, <1>5, OnlyMover
<1>13. MoversOK' /\ NoneSure' /\ MoverTypes' /\ \A q \in Movers \ {m} : mover'[q].at # "waits"
  BY <1>4, <1>7, <1>10, <1>11, <1>12, MoverStep
<1>14. SureOnRoute' /\ KeptOnRoute'
  BY <1>1, <1>5, <1>11 DEF SureOnRoute, KeptOnRoute
<1>15. CachesAgree'
  BY <1>1, <1>4, <1>5 DEF CachesAgree
<1>16. work' = [j \in Jobs |-> work'[j]]
  BY <1>1
<1>17. work' \in [Jobs -> JobRec]
  BY <1>11, <1>16
<1>18. JobTypes'
  BY <1>11, <1>17 DEF MoveTypes, JobTypes, MoveWorking
<1>19. RouteTypes' /\ HomeTypes' /\ FlagTypes'
  BY <1>1 DEF MoveTypes, RouteTypes, HomeTypes, FlagTypes
<1>20. QED  BY <1>13, <1>14, <1>15, <1>18, <1>19 DEF MoveInv, MoveTypes

LEMMA MoveSetsOutKeeps ==
    ASSUME MoveTypes, MoveInv, NEW m \in Movers, MoveSetsOut(m)
    PROVE  MoveTypes' /\ MoveInv'
<1>1. /\ mover[m].at = "provisions"
      /\ mover' = [mover EXCEPT ![m].at = "packs", ![m].since = home[mover[m].from]]
      /\ route' = route /\ routeCache' = routeCache /\ home' = home /\ moveLock' = moveLock /\ work' = work
      /\ saves' = saves /\ kept' = kept /\ astray' = astray /\ moveFaults' = moveFaults
  BY DEF MoveSetsOut
<1>2. mover[m] \in MoverRec /\ MoveActive(m) /\ mover \in [Movers -> MoverRec]
  BY <1>1 DEF MoveTypes, MoverTypes, MoveActive
<1>3. PICK n \in 0 .. MaxSaves : n = home[mover[m].from]
  BY <1>2 DEF MoveTypes, MoverTypes, HomeTypes
<1>4. PICK x \in MoverRec : /\ x = [mover[m] EXCEPT !.at = "packs", !.since = n] /\ x.at = "packs"
                            /\ x.from = mover[m].from /\ x.to = mover[m].to /\ x.again = mover[m].again
  BY <1>2, MoverSinces
<1>5. mover' = [mover EXCEPT ![m] = x]
  BY <1>1, <1>2, <1>3, <1>4
<1>6. MoverGoes(m, x) /\ mover'[m] = x /\ \A q \in Movers \ {m} : mover'[q] = mover[q]
  BY <1>2, <1>5 DEF MoverGoes
<1>7. MoverInv(m) /\ OnTheMove(m)
  BY <1>1 DEF MoveInv, MoversOK, OnTheMove
<1>8. MoverInv(m)'
  BY <1>1, <1>2, <1>4, <1>6, <1>7 DEF MoverInv, RouteOf, MoveActive
<1>9. CachesAgree'
  BY <1>1, <1>4, <1>6 DEF MoveInv, CachesAgree
<1>10. moveLock' \in Movers \cup {NoMover} /\ astray' \in BOOLEAN /\ moveFaults' \in 0 .. MaxMoveFaults
  BY <1>1 DEF MoveTypes, FlagTypes
<1>11. QED  BY <1>1, <1>2, <1>4, <1>6, <1>7, <1>8, <1>9, <1>10, QuietMove

LEMMA MovePacksKeeps ==
    ASSUME MoveTypes, MoveInv, NEW m \in Movers, MovePacks(m)
    PROVE  MoveTypes' /\ MoveInv'
<1>1. /\ mover[m].at = "packs"
      /\ mover' = [mover EXCEPT ![m].at = "extracts", ![m].copy = home[mover[m].from]]
      /\ route' = route /\ routeCache' = routeCache /\ home' = home /\ moveLock' = moveLock /\ work' = work
      /\ saves' = saves /\ kept' = kept /\ astray' = astray /\ moveFaults' = moveFaults
  BY DEF MovePacks
<1>2. mover[m] \in MoverRec /\ MoveActive(m) /\ mover \in [Movers -> MoverRec]
  BY <1>1 DEF MoveTypes, MoverTypes, MoveActive
<1>3. PICK n \in 0 .. MaxSaves : n = home[mover[m].from]
  BY <1>2 DEF MoveTypes, MoverTypes, HomeTypes
<1>4. PICK x \in MoverRec : /\ x = [mover[m] EXCEPT !.at = "extracts", !.copy = n] /\ x.at = "extracts"
                            /\ x.from = mover[m].from /\ x.to = mover[m].to
                            /\ x.copy = n /\ x.again = mover[m].again
  <2>. DEFINE y == [mover[m] EXCEPT !.at = "extracts", !.copy = n]
  <2>1. y \in MoverRec /\ y.at = "extracts" /\ y.from = mover[m].from /\ y.to = mover[m].to /\ y.copy = n /\ y.again = mover[m].again
    BY <1>2, MoverCopies
  <2>. HIDE DEF y
  <2>2. QED  BY <2>1 DEF y
<1>5. mover' = [mover EXCEPT ![m] = x]
  BY <1>1, <1>2, <1>3, <1>4
<1>6. MoverGoes(m, x) /\ mover'[m] = x /\ \A q \in Movers \ {m} : mover'[q] = mover[q]
  BY <1>2, <1>5 DEF MoverGoes
<1>7. MoverInv(m) /\ OnTheMove(m)
  BY <1>1 DEF MoveInv, MoversOK, OnTheMove
<1>8. MoverInv(m)'
  BY <1>1, <1>2, <1>3, <1>4, <1>6, <1>7 DEF MoverInv, RouteOf, MoveActive
<1>9. CachesAgree'
  BY <1>1, <1>4, <1>6 DEF MoveInv, CachesAgree
<1>10. moveLock' \in Movers \cup {NoMover} /\ astray' \in BOOLEAN /\ moveFaults' \in 0 .. MaxMoveFaults
  BY <1>1 DEF MoveTypes, FlagTypes
<1>11. QED  BY <1>1, <1>2, <1>4, <1>6, <1>7, <1>8, <1>9, <1>10, QuietMove

LEMMA MoveExtractsKeeps ==
    ASSUME MoveTypes, MoveInv, NEW m \in Movers, MoveExtracts(m)
    PROVE  MoveTypes' /\ MoveInv'
<1>1. /\ mover[m].at = "extracts" /\ mover' = [mover EXCEPT ![m].at = "flips"]
      /\ home' = [home EXCEPT ![mover[m].to] = mover[m].copy]
      /\ route' = route /\ routeCache' = routeCache /\ moveLock' = moveLock /\ work' = work
      /\ saves' = saves /\ kept' = kept /\ astray' = astray /\ moveFaults' = moveFaults
  BY DEF MoveExtracts, MoverAt
<1>2. mover[m] \in MoverRec /\ MoveActive(m) /\ mover \in [Movers -> MoverRec]
  BY <1>1 DEF MoveTypes, MoverTypes, MoveActive
<1>3. PICK x \in MoverRec : /\ x = [mover[m] EXCEPT !.at = "flips"] /\ x.at = "flips"
                            /\ x.from = mover[m].from /\ x.to = mover[m].to /\ x.again = mover[m].again
  <2>. DEFINE y == [mover[m] EXCEPT !.at = "flips"]
  <2>1. y \in MoverRec /\ y.at = "flips" /\ y.from = mover[m].from /\ y.to = mover[m].to /\ y.again = mover[m].again
    BY <1>2, MoverAts
  <2>. HIDE DEF y
  <2>2. QED  BY <2>1 DEF y
<1>4. MoverGoes(m, x) /\ mover'[m] = x /\ \A q \in Movers \ {m} : mover'[q] = mover[q]
  BY <1>1, <1>2, <1>3 DEF MoverGoes
<1>5. MoversOK /\ NoneSure /\ SureOnRoute /\ KeptOnRoute /\ CachesAgree
  BY DEF MoveInv
<1>6. MoverInv(m) /\ OnTheMove(m)
  BY <1>1, <1>5 DEF MoversOK, OnTheMove
<1>7. mover[m].copy \in 0 .. MaxSaves
  BY <1>2 DEF MoverRec
<1>8. x.from \in Backends /\ x.to \in Backends /\ route \in Backends
  BY <1>2, <1>3 DEF MoveTypes, MoverTypes, RouteTypes
<1>9. /\ home' \in [Backends -> 0 .. MaxSaves] /\ home'[x.to] = mover[m].copy
      /\ \A b \in Backends : b # x.to => home'[b] = home[b]
  BY <1>1, <1>3, <1>7, <1>8 DEF MoveTypes, HomeTypes
<1>10. mover[m].copy >= kept
  BY <1>1, <1>6 DEF MoverInv
<1>11. MoverInv(m)'
  BY <1>1, <1>2, <1>3, <1>4, <1>6, <1>8, <1>9, <1>10 DEF MoverInv, RouteOf, MoveActive
<1>12. KeptOnRoute'
  BY <1>1, <1>5, <1>8, <1>9, <1>10 DEF KeptOnRoute
<1>13. \A q \in Movers \ {m} : ~MoveActive(q)
  BY <1>2, <1>5, OnlyMover
<1>14. \A j \in Jobs : ~SureJob(j)'
  BY <1>1, <1>5, <1>6 DEF NoneSure, SureJob, MoveWorking
<1>15. MoversOK' /\ NoneSure' /\ MoverTypes'
  BY <1>4, <1>8, <1>11, <1>13, <1>14, MoverStep
<1>16. SureOnRoute'
  BY <1>14 DEF SureOnRoute
<1>17. CachesAgree'
  BY <1>1, <1>3, <1>4, <1>5 DEF CachesAgree
<1>18. RouteTypes' /\ HomeTypes' /\ JobTypes' /\ FlagTypes'
  BY <1>1, <1>9 DEF MoveTypes, RouteTypes, HomeTypes, JobTypes, MoveWorking, FlagTypes
<1>19. QED  BY <1>12, <1>15, <1>16, <1>17, <1>18 DEF MoveInv, MoveTypes

LEMMA MoveFlipsKeeps ==
    ASSUME MoveTypes, MoveInv, NEW m \in Movers, MoveFlips(m)
    PROVE  MoveTypes' /\ MoveInv'
<1>1. /\ mover[m].at = "flips" /\ route' = mover[m].to
      /\ routeCache' = routeCache /\ home' = home /\ work' = work
      /\ saves' = saves /\ kept' = kept /\ astray' = astray /\ moveFaults' = moveFaults
  BY DEF MoveFlips
<1>2. mover[m] \in MoverRec /\ MoveActive(m) /\ mover \in [Movers -> MoverRec]
  BY <1>1 DEF MoveTypes, MoverTypes, MoveActive
<1>3. PICK s \in {"waits", "over"} :
        /\ s = (IF mover[m].again THEN "over" ELSE "waits")
        /\ mover' = [mover EXCEPT ![m].at = s]
        /\ moveLock' = IF mover[m].again THEN NoMover ELSE moveLock
  BY DEF MoveFlips, MoverAt
<1>4. PICK x \in MoverRec : /\ x = [mover[m] EXCEPT !.at = s] /\ x.at = s
                            /\ x.from = mover[m].from /\ x.to = mover[m].to /\ x.again = mover[m].again
  <2>. DEFINE y == [mover[m] EXCEPT !.at = s]
  <2>1. s \in {"waits", "over"}
    BY <1>3
  <2>2. y \in MoverRec /\ y.at = s /\ y.from = mover[m].from /\ y.to = mover[m].to /\ y.again = mover[m].again
    <3>1. s \in {"checks", "provisions", "packs", "extracts", "flips", "waits", "looks", "over"}
      BY <2>1
    <3>2. QED  BY <1>2, <3>1, MoverAts, ZenonT(60)
  <2>. HIDE DEF y
  <2>3. QED  BY <2>2 DEF y
<1>5. mover' = [mover EXCEPT ![m] = x]
  BY <1>2, <1>3, <1>4
<1>6. MoverGoes(m, x) /\ mover'[m] = x /\ \A q \in Movers \ {m} : mover'[q] = mover[q]
  BY <1>2, <1>5 DEF MoverGoes
<1>7. MoversOK /\ NoneSure /\ SureOnRoute /\ KeptOnRoute /\ CachesAgree
  BY DEF MoveInv
<1>8. MoverInv(m) /\ OnTheMove(m)
  BY <1>1, <1>7 DEF MoversOK, OnTheMove
<1>9. MoveActive(m)' => MoverInv(m)'
  <2>1. ASSUME MoveActive(m)' PROVE MoverInv(m)'
    <3>1. s = "waits" /\ ~mover[m].again
      BY <1>3, <1>4, <1>6, <2>1 DEF MoveActive
    <3>2. moveLock' = m
      BY <1>2, <1>3, <1>8, <3>1 DEF MoverInv
    <3>3. QED
      BY <1>1, <1>2, <1>4, <1>6, <1>8, <3>1, <3>2 DEF MoverInv, RouteOf
  <2>2. QED  BY <2>1
<1>10. x.from \in Backends /\ x.to \in Backends
  BY <1>2, <1>4 DEF MoveTypes, MoverTypes
<1>11. KeptOnRoute'
  BY <1>1, <1>8 DEF KeptOnRoute, MoverInv
<1>12. \A q \in Movers \ {m} : ~MoveActive(q)
  BY <1>2, <1>7, OnlyMover
<1>13. \A j \in Jobs : ~SureJob(j)'
  BY <1>1, <1>7, <1>8 DEF NoneSure, SureJob, MoveWorking
<1>14. MoversOK' /\ NoneSure' /\ MoverTypes'
  BY <1>6, <1>9, <1>10, <1>12, <1>13, MoverStep
<1>15. SureOnRoute'
  BY <1>13 DEF SureOnRoute
<1>16. CachesAgree'
  <2>1. CASE s = "waits"
    BY <1>4, <1>6, <2>1 DEF CachesAgree
  <2>2. CASE s = "over"
    <3>1. mover[m].again
      BY <1>3, <2>2
    <3>2. route' = route
      BY <1>1, <1>2, <1>8, <3>1 DEF MoverInv, RouteOf
    <3>3. \A q \in Movers : mover[q].at # "waits"
      BY <1>1, <1>12 DEF MoveActive
    <3>4. QED  BY <1>1, <1>7, <3>2, <3>3 DEF CachesAgree
  <2>3. QED  BY <1>3, <2>1, <2>2
<1>17. moveLock' \in Movers \cup {NoMover}
  BY <1>3 DEF MoveTypes, FlagTypes
<1>18. RouteTypes'
  BY <1>1, <1>4, <1>10 DEF MoveTypes, RouteTypes
<1>19. HomeTypes' /\ JobTypes' /\ FlagTypes'
  BY <1>1, <1>17 DEF MoveTypes, HomeTypes, JobTypes, MoveWorking, FlagTypes
<1>20. QED  BY <1>11, <1>14, <1>15, <1>16, <1>18, <1>19 DEF MoveInv, MoveTypes

LEMMA MoveSettlesKeeps ==
    ASSUME MoveTypes, MoveInv, NEW m \in Movers, MoveSettles(m)
    PROVE  MoveTypes' /\ MoveInv'
<1>1. /\ mover[m].at = "waits" /\ Settled(m) /\ mover' = [mover EXCEPT ![m].at = "looks"]
      /\ route' = route /\ routeCache' = routeCache /\ home' = home /\ moveLock' = moveLock /\ work' = work
      /\ saves' = saves /\ kept' = kept /\ astray' = FALSE /\ moveFaults' = moveFaults
  BY DEF MoveSettles, MoverAt
<1>2. mover[m] \in MoverRec /\ MoveActive(m) /\ mover \in [Movers -> MoverRec]
  BY <1>1 DEF MoveTypes, MoverTypes, MoveActive
<1>3. PICK x \in MoverRec : /\ x = [mover[m] EXCEPT !.at = "looks"] /\ x.at = "looks"
                            /\ x.from = mover[m].from /\ x.to = mover[m].to /\ x.again = mover[m].again
  BY <1>2, MoverAts, ZenonT(60)
<1>4. MoverGoes(m, x) /\ mover'[m] = x /\ \A q \in Movers \ {m} : mover'[q] = mover[q]
  BY <1>1, <1>2, <1>3 DEF MoverGoes
<1>5. MoverInv(m) /\ OnTheMove(m)
  BY <1>1 DEF MoveInv, MoversOK, OnTheMove
<1>6. MoverInv(m)'
  BY <1>1, <1>2, <1>3, <1>4, <1>5 DEF MoverInv, RouteOf, MoveActive
<1>7. route = mover[m].to
  BY <1>1, <1>2, <1>5 DEF MoverInv, RouteOf
<1>8. CachesAgree'
  BY <1>1, <1>7 DEF CachesAgree, Settled
<1>9. moveLock' \in Movers \cup {NoMover} /\ astray' \in BOOLEAN /\ moveFaults' \in 0 .. MaxMoveFaults
  BY <1>1 DEF MoveTypes, FlagTypes
<1>10. QED  BY <1>1, <1>2, <1>3, <1>4, <1>5, <1>6, <1>8, <1>9, QuietMove

LEMMA MoveLooksKeeps ==
    ASSUME MoveTypes, MoveInv, NEW m \in Movers, MoveLooks(m)
    PROVE  MoveTypes' /\ MoveInv'
<1>1. /\ mover[m].at = "looks"
      /\ route' = route /\ routeCache' = routeCache /\ home' = home /\ work' = work
      /\ saves' = saves /\ kept' = kept /\ astray' = astray /\ moveFaults' = moveFaults
  BY DEF MoveLooks
<1>2. mover[m] \in MoverRec /\ MoveActive(m) /\ mover \in [Movers -> MoverRec]
  BY <1>1 DEF MoveTypes, MoverTypes, MoveActive
<1>3. MoverInv(m) /\ OnTheMove(m)
  BY <1>1 DEF MoveInv, MoversOK, OnTheMove
<1>4. astray' \in BOOLEAN /\ moveFaults' \in 0 .. MaxMoveFaults
  BY <1>1 DEF MoveTypes, FlagTypes
<1>5. CASE home[mover[m].from] # mover[m].since
  <2>1. mover' = [mover EXCEPT ![m].at = "packs", ![m].again = TRUE] /\ moveLock' = moveLock
    BY <1>5 DEF MoveLooks
  <2>2. PICK x \in MoverRec : /\ x = [mover[m] EXCEPT !.at = "packs", !.again = TRUE] /\ x.at = "packs"
                              /\ x.from = mover[m].from /\ x.to = mover[m].to /\ x.again = TRUE
    BY <1>2, MoverAgains
  <2>3. mover' = [mover EXCEPT ![m] = x]
    BY <1>2, <2>1, <2>2
  <2>4. MoverGoes(m, x) /\ mover'[m] = x /\ \A q \in Movers \ {m} : mover'[q] = mover[q]
    BY <1>2, <2>3 DEF MoverGoes
  <2>5. MoverInv(m)'
    BY <1>1, <1>2, <1>3, <2>1, <2>2, <2>4 DEF MoverInv, RouteOf, MoveActive
  <2>6. CachesAgree'
    BY <1>1, <2>2, <2>4 DEF MoveInv, CachesAgree
  <2>7. moveLock' \in Movers \cup {NoMover}
    BY <2>1 DEF MoveTypes, FlagTypes
  <2>8. QED  BY <1>1, <1>2, <1>3, <1>4, <2>2, <2>4, <2>5, <2>6, <2>7, QuietMove
<1>6. CASE home[mover[m].from] = mover[m].since
  <2>1. mover' = [mover EXCEPT ![m].at = "over"] /\ moveLock' = NoMover
    BY <1>6 DEF MoveLooks, MoverAt
  <2>2. PICK x \in MoverRec : /\ x = [mover[m] EXCEPT !.at = "over"] /\ x.at = "over"
                              /\ x.from = mover[m].from /\ x.to = mover[m].to
    BY <1>2, MoverAts, ZenonT(60)
  <2>3. MoverGoes(m, x) /\ mover'[m] = x /\ \A q \in Movers \ {m} : mover'[q] = mover[q]
    BY <1>2, <2>1, <2>2 DEF MoverGoes
  <2>4. ~MoveActive(m)' /\ ~OnTheMove(m)'
    BY <2>2, <2>3 DEF MoveActive, OnTheMove
  <2>5. CachesAgree'
    BY <1>1, <2>2, <2>3 DEF MoveInv, CachesAgree
  <2>6. QED  BY <1>1, <1>2, <1>4, <2>1, <2>2, <2>3, <2>4, <2>5, QuietMove
<1>7. QED  BY <1>5, <1>6

\* A move breaks off: if the route has changed, or the caches were still waited for,
\* and one of them is behind, the flag says so.
LEMMA MoveBreaksKeeps ==
    ASSUME MoveTypes, MoveInv, NEW m \in Movers, MoveBreaks(m)
    PROVE  MoveTypes' /\ MoveInv'
<1>1. /\ MoveActive(m) /\ mover' = [mover EXCEPT ![m].at = "over"] /\ moveLock' = NoMover
      /\ routeCache' = routeCache /\ home' = home /\ work' = work
      /\ saves' = saves /\ kept' = kept
      /\ moveFaults < MaxMoveFaults /\ moveFaults' = moveFaults + 1
      /\ astray' = ((astray \/ route' # route \/ mover[m].at = "waits") /\ Behind(routeCache, route'))
  BY DEF MoveBreaks, MoverAt, MoveActive
<1>2. route' = route \/ (mover[m].at = "flips" /\ route' = mover[m].to)
  BY DEF MoveBreaks
<1>3. mover[m] \in MoverRec /\ mover \in [Movers -> MoverRec]
  BY DEF MoveTypes, MoverTypes
<1>4. PICK x \in MoverRec : /\ x = [mover[m] EXCEPT !.at = "over"] /\ x.at = "over"
                            /\ x.from = mover[m].from /\ x.to = mover[m].to
  BY <1>3, MoverAts, ZenonT(60)
<1>5. MoverGoes(m, x) /\ mover'[m] = x /\ \A q \in Movers \ {m} : mover'[q] = mover[q]
  BY <1>1, <1>3, <1>4 DEF MoverGoes
<1>6. MoversOK /\ NoneSure /\ SureOnRoute /\ KeptOnRoute /\ CachesAgree
  BY DEF MoveInv
<1>7. ~MoveActive(m)' /\ ~OnTheMove(m)'
  BY <1>4, <1>5 DEF MoveActive, OnTheMove
<1>8. \A q \in Movers \ {m} : ~MoveActive(q)
  BY <1>1, <1>6, OnlyMover
<1>9. MoversOK' /\ NoneSure' /\ MoverTypes'
  BY <1>4, <1>5, <1>7, <1>8, MoverStep
<1>10. mover[m].to \in Backends
  BY <1>1 DEF MoveTypes, MoverTypes
<1>11. SureOnRoute' /\ KeptOnRoute'
  <2>1. CASE route' = route
    BY <1>1, <1>6, <2>1 DEF SureOnRoute, SureJob, MoveWorking, KeptOnRoute
  <2>2. CASE mover[m].at = "flips" /\ route' = mover[m].to
    <3>1. OnTheMove(m) /\ MoverInv(m)
      BY <1>6, <2>2 DEF OnTheMove, MoversOK
    <3>2. SureOnRoute'
      BY <1>1, <1>6, <3>1 DEF NoneSure, SureOnRoute, SureJob, MoveWorking
    <3>3. KeptOnRoute'
      BY <1>1, <2>2, <3>1 DEF KeptOnRoute, MoverInv
    <3>4. QED  BY <3>2, <3>3
  <2>3. QED  BY <1>2, <2>1, <2>2
<1>12. CachesAgree'
  <2>1. ASSUME ~astray' PROVE \A r \in Routers : routeCache'[r] \in {NoRoute, route'}
    <3>1. CASE ~Behind(routeCache, route')
      BY <1>1, <3>1 DEF Behind
    <3>2. CASE Behind(routeCache, route')
      <4>1. ~astray /\ route' = route /\ mover[m].at # "waits"
        BY <1>1, <2>1, <3>2
      <4>2. \A q \in Movers : mover[q].at # "waits"
        BY <1>8, <4>1 DEF MoveActive
      <4>3. QED  BY <1>1, <1>6, <4>1, <4>2 DEF CachesAgree
    <3>3. QED  BY <3>1, <3>2
  <2>2. QED  BY <2>1 DEF CachesAgree
<1>13. RouteTypes'
  BY <1>1, <1>2, <1>10 DEF MoveTypes, RouteTypes
<1>14. astray' \in BOOLEAN
  BY <1>1
<1>15. moveFaults' \in 0 .. MaxMoveFaults
  BY <1>1, MoveAssumption DEF MoveTypes, FlagTypes
<1>16. HomeTypes' /\ JobTypes' /\ FlagTypes'
  BY <1>1, <1>14, <1>15 DEF MoveTypes, HomeTypes, JobTypes, MoveWorking, FlagTypes
<1>17. QED  BY <1>9, <1>11, <1>12, <1>13, <1>16 DEF MoveInv, MoveTypes

LEMMA MoveNextInv == MoveTypes /\ MoveInv /\ [MoveNext]_moveVars => MoveTypes' /\ MoveInv'
<1>. SUFFICES ASSUME MoveTypes, MoveInv, [MoveNext]_moveVars PROVE MoveTypes' /\ MoveInv'
  OBVIOUS
<1>1. MoveTypes /\ MoveInv
  OBVIOUS
<1>2. CASE UNCHANGED moveVars
  <2>1. MoveTypes'
    BY <1>1, <1>2 DEF moveVars, MoveTypes, RouteTypes, HomeTypes, JobTypes, MoveWorking,
                      MoverTypes, MoveActive, FlagTypes
  <2>2. MoversOK'
    BY <1>1, <1>2, StillMoving DEF moveVars
  <2>3. NoneSure' /\ SureOnRoute' /\ KeptOnRoute' /\ CachesAgree'
    BY <1>1, <1>2 DEF moveVars, MoveInv, NoneSure, OnTheMove, SureOnRoute, SureJob, MoveWorking,
                      KeptOnRoute, CachesAgree
  <2>4. QED  BY <2>1, <2>2, <2>3 DEF MoveInv
<1>3. ASSUME NEW j \in Jobs, JobWrites(j) \/ JobEnds(j) PROVE MoveTypes' /\ MoveInv'
  BY <1>1, <1>3, JobWritesTypes, JobEndsTypes, JobWritesKeeps, JobEndsKeeps
<1>4. ASSUME NEW j \in Jobs, NEW r \in Routers, JobStarts(j, r) PROVE MoveTypes' /\ MoveInv'
  BY <1>1, <1>4, JobStartsTypes, JobStartsKeeps
<1>5. ASSUME NEW r \in Routers, CacheLapses(r) PROVE MoveTypes' /\ MoveInv'
  BY <1>1, <1>5, CacheLapsesTypes, CacheLapsesKeeps
<1>6. ASSUME NEW m \in Movers, NEW to \in Backends, MoveEnters(m, to) PROVE MoveTypes' /\ MoveInv'
  BY <1>1, <1>6, MoveEntersKeeps
<1>7. ASSUME NEW m \in Movers,
             MoveRefused(m) \/ MoveChecked(m) \/ MoveSetsOut(m) \/ MovePacks(m) \/ MoveExtracts(m)
      PROVE  MoveTypes' /\ MoveInv'
  BY <1>1, <1>7, MoveRefusedKeeps, MoveCheckedKeeps, MoveSetsOutKeeps, MovePacksKeeps, MoveExtractsKeeps
<1>8. ASSUME NEW m \in Movers,
             MoveFlips(m) \/ MoveSettles(m) \/ MoveLooks(m) \/ MoveBreaks(m)
      PROVE  MoveTypes' /\ MoveInv'
  BY <1>1, <1>8, MoveFlipsKeeps, MoveSettlesKeeps, MoveLooksKeeps, MoveBreaksKeeps
<1>9. QED  BY <1>2, <1>3, <1>4, <1>5, <1>6, <1>7, <1>8 DEF MoveNext

LEMMA MoveInvariant == MoveSpec => [](MoveTypes /\ MoveInv)
<1>1. MoveInit => MoveTypes /\ MoveInv
  BY MoveInitTypes, MoveInitInv
<1>2. MoveTypes /\ MoveInv /\ [MoveNext]_moveVars => (MoveTypes /\ MoveInv)'
  BY MoveNextInv
<1>3. QED  BY <1>1, <1>2, PTL DEF MoveSpec

\* Nobody constructs a backend, or drops one, while the processes run.
LEMMA BuiltStays == MoveSpec => [](built \in [Routers \cup Movers -> SUBSET Backends])
<1>. DEFINE B == built \in [Routers \cup Movers -> SUBSET Backends]
<1>1. MoveInit => B
  BY DEF MoveInit
<1>2. B /\ [MoveNext]_moveVars => B'
  BY DEF MoveNext, moveVars, JobStarts, JobWrites, JobEnds, CacheLapses, MoveEnters, MoveRefused,
         MoveChecked, MoveSetsOut, MovePacks, MoveExtracts, MoveFlips, MoveSettles, MoveLooks, MoveBreaks
<1>3. QED  BY <1>1, <1>2, PTL DEF MoveSpec

\* Every reachable state of the computer and its moves is well typed.
THEOREM MoveTypeCorrect == MoveSpec => []MoveTypeOK
<1>1. MoveTypes /\ built \in [Routers \cup Movers -> SUBSET Backends] => MoveTypeOK
  BY DEF MoveTypes, RouteTypes, HomeTypes, JobTypes, JobRec, MoverTypes, MoverRec, FlagTypes, MoveTypeOK
<1>2. QED  BY <1>1, MoveInvariant, BuiltStays, PTL

\* Work that no move came between meets on the computer the route names, and finds
\* there what the work of its kind before it wrote: started with no move under way, in a
\* process that has the backend, and not while a router still has the route of before a
\* move that broke off in its wait (routeFor, pick, migrateScope).
THEOREM WorkMeetsAlways == MoveSpec => []WorkMeets
<1>1. MoveInv => WorkMeets
  BY DEF MoveInv, SureOnRoute, SureJob, MoveWorking, KeptOnRoute, WorkMeets
<1>2. QED  BY <1>1, MoveInvariant, PTL

-----------------------------------------------------------------------------
(* CronScheduler.  Schedules: calendar slots are the multiples of Every.   *)

OnGrid(n) == n # Never /\ \E k \in Nat : n = k * Every

LEMMA NextIsLater ==
    ASSUME NEW t \in Nat
    PROVE  NextCalendar(t) \in t + 1 .. t + Every
<1>1. Every \in Nat \ {0}
  BY CronAssumption
<1>2. PICK d \in Nat : d = t \div Every
  BY <1>1, SMT
<1>3. PICK m \in 0 .. Every - 1 : t = d * Every + m
  <2>1. t % Every \in 0 .. Every - 1
    BY <1>1, SMT
  <2>2. t = (t \div Every) * Every + (t % Every)
    BY <1>1, SMT
  <2>3. QED  BY <1>2, <2>1, <2>2
<1>4. NextCalendar(t) = (d + 1) * Every
  BY <1>2 DEF NextCalendar
<1>5. (d + 1) * Every = d * Every + Every
  BY <1>1, SMT
<1>6. d * Every \in Nat
  BY <1>1, SMT
<1>7. QED  BY <1>1, <1>3, <1>4, <1>5, <1>6

LEMMA NextOnGrid ==
    ASSUME NEW t \in Nat
    PROVE  OnGrid(NextCalendar(t))
<1>1. Every \in Nat \ {0}
  BY CronAssumption
<1>2. PICK d \in Nat : d = t \div Every
  BY <1>1, SMT
<1>3. d + 1 \in Nat /\ NextCalendar(t) = (d + 1) * Every
  BY <1>2 DEF NextCalendar
<1>4. NextCalendar(t) # Never
  BY NextIsLater DEF Never
<1>5. QED  BY <1>3, <1>4 DEF OnGrid

LEMMA GridGap ==
    ASSUME NEW a \in Nat, NEW b \in Nat, OnGrid(a), OnGrid(b), a < NextCalendar(b)
    PROVE  a <= b
<1>1. Every \in Nat \ {0}
  BY CronAssumption
<1>2. PICK k \in Nat : a = k * Every
  BY DEF OnGrid
<1>3. PICK j \in Nat : b = j * Every
  BY DEF OnGrid
<1>4. b \div Every = j
  BY <1>1, <1>3, SMT
<1>5. NextCalendar(b) = (j + 1) * Every
  BY <1>4 DEF NextCalendar
<1>6. k * Every < (j + 1) * Every
  BY <1>2, <1>5
<1>7. k < j + 1
  <2>1. SUFFICES ASSUME k >= j + 1 PROVE FALSE
    OBVIOUS
  <2>2. PICK d \in Nat : k = (j + 1) + d
    BY <2>1
  <2>3. k * Every = (j + 1) * Every + d * Every
    BY <1>1, <2>2, SMT
  <2>4. d * Every \in Nat
    BY <1>1, SMT
  <2>5. (j + 1) * Every \in Nat
    BY <1>1, SMT
  <2>6. QED  BY <1>6, <2>3, <2>4, <2>5
<1>8. PICK e \in Nat : j = k + e
  BY <1>7
<1>9. j * Every = k * Every + e * Every
  BY <1>1, <1>8, SMT
<1>10. e * Every \in Nat /\ k * Every \in Nat
  BY <1>1, SMT
<1>11. QED  BY <1>2, <1>3, <1>9, <1>10

\* The next slot that a claim of `slot` at t puts.
NextPut(s, slot, t) == Advance(s, IF s.kind = "calendar" THEN slot ELSE t)

\* A time of the last fire and a slot owed that go together.
Fits(s, last, next) ==
    /\ s.kind = "calendar" => OnGrid(next)
    /\ s.kind = "every" =>
         \/ last = Never /\ next = s.first
         \/ last >= s.first /\ next = last + Every
    /\ s.kind = "once" => (last = Never /\ next = s.first) \/ (last # Never /\ next = Never)

\* What the claim (slot, t, prior) is to the row of its cron.
Stands(s, last, next, slot, t, prior) ==
    /\ next \notin 1 .. slot
    /\ s.kind = "every" => prior < t /\ last >= t
    /\ last = t => next = NextPut(s, slot, t)

\* A job that read the row as the claim (slot, t) had left it owes the slot that it put.
Follows(s, slot, prior, slot2, t2) == prior = t2 => slot = NextPut(s, slot2, t2)

\* Two claims that stand.
Differ(s, slot, t, prior, slot2, t2, prior2) ==
    /\ slot # slot2 /\ t # t2
    /\ s.kind = "every" => t <= prior2 \/ t2 <= prior

SoundSchedule(s) == s.kind \in ScheduleKinds /\ s.first \in Nat /\ (s.kind # "calendar" => s.first # Never)

LEMMA NextPutNat ==
    ASSUME NEW s, SoundSchedule(s), NEW slot \in Nat, NEW t \in Nat
    PROVE  NextPut(s, slot, t) \in Nat
<1>1. NextCalendar(slot) \in Nat
  BY NextIsLater
<1>2. QED  BY <1>1, CronAssumption DEF NextPut, Advance, SoundSchedule, ScheduleKinds, Never

LEMMA NextPutIs ==
    ASSUME NEW s, SoundSchedule(s), NEW slot, NEW t
    PROVE  /\ s.kind = "calendar" => NextPut(s, slot, t) = NextCalendar(slot)
           /\ s.kind = "every" => NextPut(s, slot, t) = t + Every
           /\ s.kind = "once" => NextPut(s, slot, t) = Never
  BY DEF NextPut, Advance, SoundSchedule, ScheduleKinds

LEMMA ClaimFits ==
    ASSUME NEW s, SoundSchedule(s), NEW slot \in Nat, NEW t \in Nat, NEW prior \in Nat,
           1 <= slot, slot <= t, Fits(s, prior, slot)
    PROVE  Fits(s, t, NextPut(s, slot, t))
<1>1. OnGrid(NextCalendar(slot))
  BY NextOnGrid
<1>2. s.kind = "every" => t >= s.first
  BY CronAssumption DEF Fits, SoundSchedule, Never
<1>3. t # Never
  BY DEF Never
<1>4. QED  BY <1>1, <1>2, <1>3, NextPutIs DEF Fits

\* The slot owed tells the last fire, except of a calendar.
LEMMA SamePrior ==
    ASSUME NEW s, SoundSchedule(s), NEW last \in Nat, NEW slot \in Nat, NEW prior \in Nat,
           slot # Never, Fits(s, last, slot), Fits(s, prior, slot), s.kind # "calendar"
    PROVE  last = prior
  BY CronAssumption DEF Fits, SoundSchedule, ScheduleKinds, Never

\* A claim that is made stands.
LEMMA NewStands ==
    ASSUME NEW s, SoundSchedule(s), NEW slot \in Nat, NEW t \in Nat, NEW prior \in Nat,
           s.kind = "every" => prior < t, slot <= t
    PROVE  Stands(s, t, NextPut(s, slot, t), slot, t, prior)
<1>1. NextCalendar(slot) \in slot + 1 .. slot + Every
  BY NextIsLater
<1>2. NextPut(s, slot, t) \notin 1 .. slot
  BY <1>1, NextPutIs, CronAssumption DEF SoundSchedule, ScheduleKinds, Never
<1>3. QED  BY <1>2 DEF Stands

\* It stands beside the claims that did: its slot is later, and its time is of its own.
LEMMA StandsBesides ==
    ASSUME NEW s, SoundSchedule(s), NEW last \in Nat, NEW slot \in Nat, NEW t \in Nat, NEW prior \in Nat,
           NEW slot2 \in Nat, NEW t2 \in Nat, NEW prior2 \in Nat,
           1 <= slot, slot <= t, prior <= t, last # t, t2 # t,
           Fits(s, last, slot), Fits(s, prior, slot),
           Stands(s, last, slot, slot2, t2, prior2)
    PROVE  /\ Stands(s, t, NextPut(s, slot, t), slot2, t2, prior2)
           /\ Differ(s, slot, t, prior, slot2, t2, prior2)
<1>1. slot2 < slot
  BY DEF Stands
<1>2. NextCalendar(slot) \in slot + 1 .. slot + Every
  BY NextIsLater
<1>3. NextPut(s, slot, t) \notin 1 .. slot2
  BY <1>1, <1>2, NextPutIs, CronAssumption DEF SoundSchedule, ScheduleKinds, Never
<1>4. ASSUME s.kind = "every" PROVE t >= t2 /\ t2 <= prior
  <2>1. last = prior
    BY <1>4, SamePrior DEF Never
  <2>2. last >= t2
    BY <1>4 DEF Stands
  <2>3. QED  BY <2>1, <2>2
<1>5. Stands(s, t, NextPut(s, slot, t), slot2, t2, prior2)
  BY <1>3, <1>4 DEF Stands
<1>6. Differ(s, slot, t, prior, slot2, t2, prior2)
  BY <1>1, <1>4 DEF Differ
<1>7. QED  BY <1>5, <1>6

\* The latest claim, and one that stands beside it.
LatestBeside(s, next, slot, t, prior, slot2, t2, prior2) ==
    /\ SoundSchedule(s) /\ next \in Nat /\ slot \in Nat /\ t \in Nat /\ prior \in Nat
    /\ slot2 \in Nat /\ t2 \in Nat /\ prior2 \in Nat
    /\ 1 <= slot /\ slot <= t /\ 1 <= slot2 /\ slot2 <= t2
    /\ Fits(s, prior, slot) /\ Fits(s, prior2, slot2)
    /\ Stands(s, t, next, slot, t, prior) /\ Stands(s, t, next, slot2, t2, prior2)
    /\ Differ(s, slot, t, prior, slot2, t2, prior2) /\ Follows(s, slot, prior, slot2, t2)

\* The latest claim is given back, and those beside it stand.
LEMMA StandsAfterUndo ==
    ASSUME NEW s, NEW next, NEW slot, NEW t, NEW prior, NEW slot2, NEW t2, NEW prior2,
           LatestBeside(s, next, slot, t, prior, slot2, t2, prior2)
    PROVE  Stands(s, prior, slot, slot2, t2, prior2)
<1>. USE DEF LatestBeside
<1>1. s.kind \in ScheduleKinds /\ next = NextPut(s, slot, t) /\ slot # slot2 /\ next \notin 1 .. slot2
  BY DEF SoundSchedule, Stands, Differ
<1>2. CASE s.kind = "calendar"
  <2>1. OnGrid(slot) /\ OnGrid(slot2)
    BY <1>2 DEF Fits
  <2>2. next = NextCalendar(slot) /\ NextCalendar(slot) > slot
    BY <1>1, <1>2, NextPutIs, NextIsLater
  <2>3. slot2 < slot
    BY <1>1, <2>1, <2>2, GridGap
  <2>4. QED  BY <1>1, <1>2, <2>3 DEF Stands, Follows
<1>3. CASE s.kind = "every"
  <2>1. t >= t2 /\ prior2 < t2
    BY <1>3 DEF Stands
  <2>2. t <= prior2 \/ t2 <= prior
    BY <1>3 DEF Differ
  <2>3. t2 <= prior
    BY <1>1, <2>1, <2>2
  <2>4. slot = prior + Every
    BY <1>3, <2>3 DEF Fits, Never
  <2>5. slot2 < slot
    BY <2>3, <2>4, CronAssumption
  <2>6. QED  BY <1>1, <2>3, <2>5 DEF Stands, Follows
<1>4. CASE s.kind = "once"
  <2>1. slot = s.first /\ slot2 = s.first
    BY <1>4 DEF Fits, Never
  <2>2. QED  BY <1>1, <2>1
<1>5. QED  BY <1>1, <1>2, <1>3, <1>4 DEF ScheduleKinds

LEMMA OwedIsNext ==
    ASSUME NEW c, SoundSchedule(c.sched), c.last \in Nat, c.next \in Nat, Fits(c.sched, c.last, c.next)
    PROVE  Owed(c) = c.next
<1>1. c.sched.kind = "calendar" => c.next # Never
  BY DEF Fits, OnGrid
<1>2. c.sched.kind = "every" => c.next # Never
  BY CronAssumption DEF Fits, SoundSchedule, Never
<1>3. c.sched.kind = "once" /\ c.next = Never => c.last # Never
  BY DEF Fits, SoundSchedule, Never
<1>4. CASE c.next # Never
  BY <1>4 DEF Owed
<1>5. CASE c.next = Never
  BY <1>1, <1>2, <1>3, <1>5 DEF Owed, SoundSchedule, ScheduleKinds
<1>6. QED  BY <1>4, <1>5

-----------------------------------------------------------------------------
(* Types, with what the times of a row and of a job are to the clock.      *)

Claiming(w) == fireJob[w].at = "claim" \/ Holding(w)

RowOK(r, now) == r \in Cron /\ SoundSchedule(r.sched) /\ r.last <= now

JobOK(j, now) ==
    /\ j \in FireJob
    /\ j.at # "idle" => j.cron \in Crons
    /\ j.at \in {"read", "claim", "undo"} => ~ByHand(j)
    /\ j.at \in {"claim", "fire", "run", "settle", "denied", "undo"} /\ ~ByHand(j) =>
           j.slot <= j.t /\ j.t <= now /\ j.prior <= j.t

RowTypes  == crons \in [Crons -> Cron] /\ \A c \in Crons : RowOK(crons[c], clock)
QueueType == jobs \subseteq Crons \X (Times \ {Never})
FireTypes == fireJob \in [Workers -> FireJob] /\ \A w \in Workers : JobOK(fireJob[w], clock)
FireTurnType == fireTurn \in [Crons \X Times -> {"none", "running", "over", "kept"}]
ClockTypes ==
    /\ clock \in 1 .. MaxTime /\ edits \in 0 .. MaxEdits
    /\ cronFaults \in 0 .. MaxCronFaults /\ crashes \in 0 .. MaxCrashes

CronTypes == RowTypes /\ QueueType /\ FireTypes /\ FireTurnType /\ ClockTypes

LEMMA TimesAre == Times \subseteq Nat /\ 0 .. MaxTime \subseteq Times /\ Never \in Times /\ Times = 0 .. MaxTime + Every
  BY CronAssumption DEF Times, Never

LEMMA OwedTyped ==
    ASSUME NEW r, RowOK(r, clock), ClockTypes
    PROVE  Owed(r) \in Times
<1>1. r \in Cron /\ r.last \in Nat /\ r.last <= MaxTime /\ SoundSchedule(r.sched)
  BY CronAssumption, TimesAre DEF RowOK, ClockTypes, Cron
<1>2. NextCalendar(r.last) \in r.last + 1 .. r.last + Every
  BY <1>1, NextIsLater
<1>3. r.last + Every \in Times /\ NextCalendar(r.last) \in Times
  BY <1>1, <1>2, CronAssumption DEF Times
<1>4. r.next \in Times /\ r.sched.first \in Times
  BY <1>1 DEF Cron, Schedule
<1>5. QED  BY <1>1, <1>3, <1>4, TimesAre DEF Owed, SoundSchedule, ScheduleKinds

LEMMA QueuedTyped ==
    ASSUME NEW c \in Crons, RowTypes, ClockTypes
    PROVE  Queued(c) \subseteq Crons \X (Times \ {Never})
<1>1. Owed(crons[c]) \in Times
  BY OwedTyped DEF RowTypes
<1>2. QED  BY <1>1 DEF Queued

\* A job that a worker puts in place of the one it had.
LEMMA PutJob ==
    ASSUME NEW w \in Workers, NEW j, FireTypes, JobOK(j, clock), fireJob' = [fireJob EXCEPT ![w] = j],
           UNCHANGED clock
    PROVE  FireTypes'
  BY DEF FireTypes, JobOK

\* A row that is put in place of the one there was.
LEMMA PutRow ==
    ASSUME NEW c \in Crons, NEW r, RowTypes, RowOK(r, clock), crons' = [crons EXCEPT ![c] = r],
           UNCHANGED clock
    PROVE  RowTypes'
  BY DEF RowTypes, RowOK

LEMMA IdleOK == \A now : JobOK(Idle, now)
  BY TimesAre DEF JobOK, Idle, FireJob, ByHand

LEMMA MoveOn ==
    \A j \in FireJob, at \in {"claim", "fire", "run", "settle", "chain", "denied", "undo"} :
        LET y == [j EXCEPT !.at = at] IN
        /\ y \in FireJob /\ y.at = at
        /\ y.cron = j.cron /\ y.slot = j.slot /\ y.t = j.t /\ y.prior = j.prior /\ y.kind = j.kind
  BY DEF FireJob

\* A job that goes on with its fire.
LEMMA GoesOnOK ==
    ASSUME NEW j, NEW at \in {"fire", "run", "settle", "chain", "denied", "undo"}, NEW now, JobOK(j, now),
           j.at \in {"claim", "fire", "run", "settle", "denied"}, at = "undo" => ~ByHand(j)
    PROVE  JobOK([j EXCEPT !.at = at], now)
<1>. DEFINE y == [j EXCEPT !.at = at]
<1>1. j \in FireJob /\ at \in {"claim", "fire", "run", "settle", "chain", "denied", "undo"}
  BY DEF JobOK
<1>2. /\ y \in FireJob /\ y.at = at
      /\ y.cron = j.cron /\ y.slot = j.slot /\ y.t = j.t /\ y.prior = j.prior
  BY <1>1, MoveOn, ZenonT(60)
<1>. HIDE DEF y
<1>3. JobOK(y, now)
  BY <1>2 DEF JobOK, ByHand
<1>4. QED  BY <1>3 DEF y

LEMMA PutTimesOK ==
    ASSUME NEW r, NEW now, RowOK(r, now), NEW last \in Times, NEW next \in Times, last <= now
    PROVE  LET y == [r EXCEPT !.last = last, !.next = next] IN
           RowOK(y, now) /\ y.last = last /\ y.next = next /\ y.sched = r.sched
<1>. DEFINE y == [r EXCEPT !.last = last, !.next = next]
<1>0. r \in Cron
  BY DEF RowOK
<1>1. y \in Cron /\ y.last = last /\ y.next = next /\ y.sched = r.sched
  BY <1>0 DEF Cron
<1>. HIDE DEF y
<1>2. RowOK(y, now)
  BY <1>1 DEF RowOK
<1>3. QED  BY <1>1, <1>2 DEF y

LEMMA PutOnOK ==
    ASSUME NEW r, NEW now, RowOK(r, now), NEW on \in BOOLEAN
    PROVE  LET y == [r EXCEPT !.on = on] IN
           RowOK(y, now) /\ y.last = r.last /\ y.next = r.next /\ y.sched = r.sched
<1>. DEFINE y == [r EXCEPT !.on = on]
<1>0. r \in Cron
  BY DEF RowOK
<1>1. y \in Cron /\ y.last = r.last /\ y.next = r.next /\ y.sched = r.sched
  BY <1>0 DEF Cron
<1>. HIDE DEF y
<1>2. RowOK(y, now)
  BY <1>1 DEF RowOK
<1>3. QED  BY <1>1, <1>2 DEF y

LEMMA RescheduledOK ==
    ASSUME NEW r, RowOK(r, clock), NEW kind \in CronKinds, NEW first \in 1 .. MaxTime, ClockTypes
    PROVE  RowOK(Rescheduled(r, kind, first), clock)
<1>. DEFINE f == IF kind = "calendar" THEN Never ELSE first
            n == IF kind = "calendar" THEN NextCalendar(clock) ELSE first
            y == [r EXCEPT !.sched = [kind |-> kind, first |-> f], !.next = n]
<1>1. NextCalendar(clock) \in clock + 1 .. clock + Every
  BY NextIsLater DEF ClockTypes
<1>2. NextCalendar(clock) \in Times /\ first \in Times /\ first # Never
  BY <1>1, CronAssumption DEF Times, ClockTypes, Never
<1>3. f \in Times /\ n \in Times
  BY <1>2, TimesAre
<1>4. (kind # "calendar" => f # Never) /\ f \in Nat /\ kind \in ScheduleKinds
  BY <1>2, <1>3, TimesAre, CronAssumption
<1>5. Rescheduled(r, kind, first) = y
  BY DEF Rescheduled
<1>. HIDE DEF f, n
<1>0. r \in Cron
  BY DEF RowOK
<1>6. y \in Cron /\ y.last = r.last /\ y.sched.kind = kind /\ y.sched.first = f
  BY <1>0, <1>3 DEF Cron, Schedule
<1>. HIDE DEF y
<1>7. RowOK(y, clock)
  BY <1>4, <1>6 DEF RowOK, SoundSchedule
<1>8. QED  BY <1>5, <1>7

-----------------------------------------------------------------------------
(* The claims that stand.                                                  *)

ClaimFitsRow(w) ==
    Fits(crons[fireJob[w].cron].sched, fireJob[w].prior, fireJob[w].slot)
ClaimStandsOn(w) ==
    Stands(crons[fireJob[w].cron].sched, crons[fireJob[w].cron].last, crons[fireJob[w].cron].next,
           fireJob[w].slot, fireJob[w].t, fireJob[w].prior)
ClaimFollows(w, v) ==
    Follows(crons[fireJob[w].cron].sched, fireJob[w].slot, fireJob[w].prior, fireJob[v].slot, fireJob[v].t)
ClaimDiffers(w, v) ==
    Differ(crons[fireJob[w].cron].sched, fireJob[w].slot, fireJob[w].t, fireJob[w].prior,
           fireJob[v].slot, fireJob[v].t, fireJob[v].prior)

Unedited(w)  == fireJob[w].cron \notin edited
OneCron(w, v) == w # v /\ fireJob[w].cron = fireJob[v].cron /\ Unedited(w)

RowsFit  == \A c \in Crons \ edited : Fits(crons[c].sched, crons[c].last, crons[c].next)
ClaimsFit == \A w \in Workers : Claiming(w) /\ Unedited(w) => ClaimFitsRow(w)
ClaimsStand == \A w \in Workers : Holding(w) /\ Unedited(w) => ClaimStandsOn(w)
ClaimsFollow == \A w, v \in Workers : Claiming(w) /\ Holding(v) /\ OneCron(w, v) => ClaimFollows(w, v)
ClaimsDiffer == \A w, v \in Workers : Holding(w) /\ Holding(v) /\ OneCron(w, v) => ClaimDiffers(w, v)

ClaimInv == RowsFit /\ ClaimsFit /\ ClaimsStand /\ ClaimsFollow /\ ClaimsDiffer

\* A step leaves what a row says of the schedule, of a cron that is not edited, ...
SameRow(c) ==
    crons'[c].sched = crons[c].sched /\ crons'[c].last = crons[c].last /\ crons'[c].next = crons[c].next

\* ... and a claim, unless the worker drops it.
SameClaim(w) ==
    /\ Claiming(w)' => Claiming(w) /\ fireJob'[w].cron = fireJob[w].cron /\ fireJob'[w].slot = fireJob[w].slot
                       /\ fireJob'[w].t = fireJob[w].t /\ fireJob'[w].prior = fireJob[w].prior
    /\ Holding(w)' => Holding(w)

CronQuiet ==
    /\ edited \subseteq edited'
    /\ \A c \in Crons \ edited' : SameRow(c)
    /\ \A w \in Workers : SameClaim(w)

LEMMA ClaimingHasCron ==
    ASSUME FireTypes, NEW w \in Workers, Claiming(w)
    PROVE  fireJob[w].cron \in Crons
  BY DEF FireTypes, JobOK, Claiming, Holding

LEMMA QuietKeepsClaims ==
    ASSUME FireTypes, ClaimInv, CronQuiet
    PROVE  ClaimInv'
<1>1. RowsFit'
  BY DEF ClaimInv, RowsFit, CronQuiet, SameRow
<1>2. ASSUME NEW w \in Workers, Claiming(w)', Unedited(w)'
      PROVE  /\ Claiming(w) /\ Unedited(w) /\ SameRow(fireJob[w].cron) /\ fireJob'[w].cron = fireJob[w].cron
             /\ fireJob'[w].slot = fireJob[w].slot
             /\ fireJob'[w].t = fireJob[w].t /\ fireJob'[w].prior = fireJob[w].prior
  <2>1. SameClaim(w)
    BY DEF CronQuiet
  <2>2. Claiming(w) /\ fireJob'[w].cron = fireJob[w].cron
    BY <1>2, <2>1 DEF SameClaim
  <2>3. fireJob[w].cron \in Crons \ edited'
    BY <1>2, <2>2, ClaimingHasCron DEF Unedited
  <2>4. QED  BY <1>2, <2>1, <2>2, <2>3 DEF CronQuiet, SameClaim, Unedited
<1>3. ASSUME NEW w \in Workers, Holding(w)' PROVE Claiming(w)' /\ Holding(w)
  BY <1>3 DEF CronQuiet, SameClaim, Claiming
<1>4. ClaimsFit'
  BY <1>2 DEF ClaimInv, ClaimsFit, ClaimFitsRow, SameRow
<1>5. ClaimsStand'
  BY <1>2, <1>3 DEF ClaimInv, ClaimsStand, ClaimStandsOn, SameRow
<1>6. ASSUME NEW w \in Workers, NEW v \in Workers, Claiming(w)', Holding(v)', OneCron(w, v)'
      PROVE  Holding(v) /\ OneCron(w, v) /\ Unedited(v)'
  BY <1>2, <1>3, <1>6 DEF OneCron, Unedited
<1>7. ClaimsFollow'
  BY <1>2, <1>3, <1>6 DEF ClaimInv, ClaimsFollow, ClaimFollows, SameRow, OneCron
<1>8. ClaimsDiffer'
  BY <1>2, <1>3, <1>6 DEF ClaimInv, ClaimsDiffer, ClaimDiffers, SameRow, OneCron
<1>9. QED  BY <1>1, <1>4, <1>5, <1>7, <1>8 DEF ClaimInv

-----------------------------------------------------------------------------
(* The steps.                                                              *)

CronKept == CronTypes' /\ ClaimInv'

\* A worker goes on with its fire, and nothing of the rows changes.
GoesOn(w, at) ==
    /\ fireJob' = [fireJob EXCEPT ![w].at = at] /\ fireJob[w].at \in {"fire", "run", "settle", "denied"}
    /\ at \in {"fire", "run", "settle", "chain", "denied", "undo"} /\ (at = "undo" => ~ByHand(fireJob[w]))

LEMMA GoesOnTypes ==
    ASSUME FireTypes, NEW w \in Workers, NEW at, GoesOn(w, at), UNCHANGED clock
    PROVE  FireTypes' /\ \A v \in Workers : SameClaim(v)
<1>. DEFINE j == [fireJob[w] EXCEPT !.at = at]
<1>1. JobOK(fireJob[w], clock) /\ fireJob[w] \in FireJob
  BY DEF FireTypes, JobOK
<1>2. JobOK(j, clock)
  BY <1>1, GoesOnOK DEF GoesOn
<1>3. fireJob' = [fireJob EXCEPT ![w] = j]
  BY DEF GoesOn
<1>4. j.at = at /\ j.cron = fireJob[w].cron /\ j.slot = fireJob[w].slot /\ j.t = fireJob[w].t /\ j.prior = fireJob[w].prior
  BY <1>1 DEF FireJob
<1>. HIDE DEF j
<1>5. FireTypes'
  BY <1>2, <1>3, PutJob
<1>6. fireJob'[w] = j
  BY <1>3 DEF FireTypes
<1>7. SameClaim(w)
  BY <1>4, <1>6 DEF SameClaim, Claiming, Holding, ByHand, GoesOn
<1>8. ASSUME NEW v \in Workers, v # w PROVE SameClaim(v)
  <2>1. fireJob'[v] = fireJob[v]
    BY <1>3, <1>8 DEF FireTypes
  <2>2. QED  BY <2>1 DEF SameClaim, Claiming, Holding, ByHand
<1>9. QED  BY <1>5, <1>7, <1>8

\* A worker drops what it was doing.
LEMMA DropsTypes ==
    ASSUME FireTypes, NEW w \in Workers, NEW j, JobOK(j, clock), fireJob' = [fireJob EXCEPT ![w] = j],
           j.at \in {"idle", "read", "chain"} \/ (ByHand(j) /\ j.at # "claim"), UNCHANGED clock
    PROVE  FireTypes' /\ \A v \in Workers : SameClaim(v)
<1>1. FireTypes'
  BY PutJob
<1>2. fireJob'[w] = j
  BY DEF FireTypes
<1>3. SameClaim(w)
  BY <1>2 DEF SameClaim, Claiming, Holding, ByHand
<1>4. ASSUME NEW v \in Workers, v # w PROVE SameClaim(v)
  <2>1. fireJob'[v] = fireJob[v]
    BY <1>4 DEF FireTypes
  <2>2. QED  BY <2>1 DEF SameClaim, Claiming, Holding, ByHand
<1>5. QED  BY <1>1, <1>3, <1>4

LEMMA AfterTypes ==
    ASSUME FireTypes, NEW w \in Workers, NEW at \in {"chain", "undo"}, After(w, at),
           fireJob[w].at \in {"fire", "run", "settle", "denied"}, UNCHANGED clock
    PROVE  FireTypes' /\ \A v \in Workers : SameClaim(v)
<1>1. CASE ByHand(fireJob[w])
  <2>1. fireJob' = [fireJob EXCEPT ![w] = Idle]
    BY <1>1 DEF After
  <2>2. Idle.at = "idle"
    BY DEF Idle
  <2>3. QED  BY <2>1, <2>2, IdleOK, DropsTypes
<1>2. CASE ~ByHand(fireJob[w])
  <2>1. fireJob' = [fireJob EXCEPT ![w].at = at]
    BY <1>2 DEF After
  <2>2. GoesOn(w, at)
    BY <1>2, <2>1 DEF GoesOn
  <2>3. QED  BY <2>2, GoesOnTypes
<1>3. QED  BY <1>1, <1>2

LEMMA SameCrons ==
    ASSUME UNCHANGED crons
    PROVE  \A c \in Crons : SameRow(c)
  BY DEF SameRow

LEMMA SameJobs ==
    ASSUME UNCHANGED fireJob
    PROVE  \A w \in Workers : SameClaim(w)
  BY DEF SameClaim, Claiming, Holding, ByHand

LEMMA QuietKeeps ==
    ASSUME CronTypes, ClaimInv, RowTypes', QueueType', FireTypes', FireTurnType', ClockTypes',
           edited \subseteq edited', \A c \in Crons \ edited' : SameRow(c), \A w \in Workers : SameClaim(w)
    PROVE  CronKept
<1>1. FireTypes
  BY DEF CronTypes
<1>2. ClaimInv'
  BY <1>1, QuietKeepsClaims DEF CronQuiet
<1>3. CronTypes'
  BY DEF CronTypes
<1>4. QED  BY <1>2, <1>3 DEF CronKept

LEMMA TickKeeps == ASSUME CronTypes, ClaimInv, Tick PROVE CronKept
<1>1. RowTypes'
  <2>1. clock \in Nat /\ clock' = clock + 1 /\ UNCHANGED crons
    BY DEF Tick, CronTypes, ClockTypes
  <2>2. \A c \in Crons : crons[c].last \in Nat
    BY TimesAre DEF CronTypes, RowTypes, RowOK, Cron
  <2>3. QED  BY <2>1, <2>2 DEF CronTypes, RowTypes, RowOK
<1>2. FireTypes'
  <2>1. clock \in Nat /\ clock' = clock + 1 /\ UNCHANGED fireJob
    BY DEF Tick, CronTypes, ClockTypes
  <2>2. \A w \in Workers : fireJob[w].t \in Nat
    BY TimesAre DEF CronTypes, FireTypes, JobOK, FireJob
  <2>3. QED  BY <2>1, <2>2 DEF CronTypes, FireTypes, JobOK
<1>3. QueueType' /\ FireTurnType' /\ ClockTypes'
  BY CronAssumption DEF Tick, CronTypes, QueueType, FireTurnType, ClockTypes
<1>4. edited \subseteq edited' /\ (\A c \in Crons : SameRow(c)) /\ (\A w \in Workers : SameClaim(w))
  BY SameCrons, SameJobs DEF Tick
<1>5. QED  BY <1>1, <1>2, <1>3, <1>4, QuietKeeps

LEMMA EnqueueKeeps == ASSUME CronTypes, ClaimInv, NEW c \in Crons, EnqueueNext(c) PROVE CronKept
<1>1. RowTypes' /\ FireTypes' /\ FireTurnType' /\ ClockTypes'
  BY DEF EnqueueNext, CronTypes, RowTypes, FireTypes, FireTurnType, ClockTypes
<1>2. Queued(c) \subseteq Crons \X (Times \ {Never})
  BY QueuedTyped DEF CronTypes
<1>3. QueueType'
  BY <1>2 DEF EnqueueNext, CronTypes, QueueType
<1>4. edited \subseteq edited' /\ (\A b \in Crons : SameRow(b)) /\ (\A w \in Workers : SameClaim(w))
  BY SameCrons, SameJobs DEF EnqueueNext
<1>5. QED  BY <1>1, <1>3, <1>4, QuietKeeps

LEMMA FireEndsKeeps == ASSUME CronTypes, ClaimInv, NEW k \in Crons \X Times, FireEnds(k) PROVE CronKept
<1>1. RowTypes' /\ FireTypes' /\ QueueType' /\ ClockTypes'
  BY DEF FireEnds, CronTypes, RowTypes, FireTypes, QueueType, ClockTypes
<1>2. FireTurnType'
  BY DEF FireEnds, CronTypes, FireTurnType
<1>3. edited \subseteq edited' /\ (\A b \in Crons : SameRow(b)) /\ (\A w \in Workers : SameClaim(w))
  BY SameCrons, SameJobs DEF FireEnds
<1>4. QED  BY <1>1, <1>2, <1>3, QuietKeeps

LEMMA RescheduleKeeps ==
    ASSUME CronTypes, ClaimInv, NEW c \in Crons, NEW kind \in CronKinds, NEW first \in 1 .. MaxTime,
           Reschedule(c, kind, first)
    PROVE  CronKept
<1>. DEFINE r == Rescheduled(crons[c], kind, first)
<1>1. FireTypes' /\ QueueType' /\ FireTurnType'
  BY DEF Reschedule, CronTypes, FireTypes, QueueType, FireTurnType
<1>2. ClockTypes'
  BY CronAssumption DEF Reschedule, CronTypes, ClockTypes
<1>3. crons' = [crons EXCEPT ![c] = r] /\ UNCHANGED <<fireJob, clock>> /\ edited' = edited \cup {c}
  BY DEF Reschedule
<1>4. RowOK(r, clock)
  BY RescheduledOK DEF CronTypes, RowTypes
<1>. HIDE DEF r
<1>5. RowTypes'
  BY <1>3, <1>4, PutRow DEF CronTypes
<1>6. \A b \in Crons \ edited' : SameRow(b)
  BY <1>3 DEF SameRow, CronTypes, RowTypes
<1>7. edited \subseteq edited' /\ \A w \in Workers : SameClaim(w)
  BY <1>3, SameJobs
<1>8. QED  BY <1>1, <1>2, <1>5, <1>6, <1>7, QuietKeeps

\* A row is switched on or off.
LEMMA PutOn ==
    ASSUME RowTypes, NEW c \in Crons, NEW on \in BOOLEAN, crons' = [crons EXCEPT ![c].on = on], UNCHANGED clock
    PROVE  RowTypes' /\ \A b \in Crons : SameRow(b)
<1>. DEFINE r == [crons[c] EXCEPT !.on = on]
<1>1. RowOK(r, clock) /\ r.last = crons[c].last /\ r.next = crons[c].next /\ r.sched = crons[c].sched
  BY PutOnOK DEF RowTypes
<1>2. crons' = [crons EXCEPT ![c] = r]
  OBVIOUS
<1>. HIDE DEF r
<1>3. RowTypes'
  BY <1>1, <1>2, PutRow
<1>4. \A b \in Crons : SameRow(b)
  BY <1>1, <1>2 DEF SameRow, RowTypes
<1>5. QED  BY <1>3, <1>4

LEMMA SetEnabledKeeps == ASSUME CronTypes, ClaimInv, NEW c \in Crons, SetEnabled(c) PROVE CronKept
<1>1. FireTypes' /\ QueueType' /\ FireTurnType'
  BY DEF SetEnabled, CronTypes, FireTypes, QueueType, FireTurnType
<1>2. ClockTypes'
  BY CronAssumption DEF SetEnabled, CronTypes, ClockTypes
<1>3. crons' = [crons EXCEPT ![c].on = ~crons[c].on] /\ UNCHANGED <<fireJob, clock, edited>>
  BY DEF SetEnabled
<1>4. (~crons[c].on) \in BOOLEAN
  OBVIOUS
<1>5. RowTypes' /\ \A b \in Crons : SameRow(b)
  BY <1>3, <1>4, PutOn DEF CronTypes
<1>6. \A w \in Workers : SameClaim(w)
  BY <1>3, SameJobs
<1>7. QED  BY <1>1, <1>2, <1>3, <1>5, <1>6, QuietKeeps

LEMMA RunNowKeeps == ASSUME CronTypes, ClaimInv, NEW w \in Workers, NEW c \in Crons, RunNow(w, c) PROVE CronKept
<1>. DEFINE j == [Idle EXCEPT !.at = "fire", !.cron = c, !.kind = crons[c].sched.kind]
<1>1. RowTypes' /\ QueueType' /\ FireTurnType'
  BY DEF RunNow, CronTypes, RowTypes, QueueType, FireTurnType
<1>2. ClockTypes'
  BY CronAssumption DEF RunNow, CronTypes, ClockTypes
<1>3. crons[c].sched.kind \in CronKinds
  BY DEF CronTypes, RowTypes, Cron, Schedule
<1>4. JobOK(j, clock) /\ ByHand(j) /\ j.at = "fire"
  BY <1>3, TimesAre DEF JobOK, Idle, FireJob, ByHand
<1>5. fireJob' = [fireJob EXCEPT ![w] = j] /\ UNCHANGED <<crons, clock, edited>>
  BY DEF RunNow
<1>. HIDE DEF j
<1>6. FireTypes' /\ \A v \in Workers : SameClaim(v)
  BY <1>4, <1>5, DropsTypes DEF CronTypes
<1>7. QED  BY <1>1, <1>2, <1>5, <1>6, SameCrons, QuietKeeps

LEMMA FetchKeeps == ASSUME CronTypes, ClaimInv, NEW w \in Workers, NEW k \in jobs, Fetch(w, k) PROVE CronKept
<1>. DEFINE j == [Idle EXCEPT !.at = "read", !.cron = k[1], !.slot = k[2]]
<1>1. RowTypes' /\ QueueType' /\ FireTurnType' /\ ClockTypes'
  BY DEF Fetch, CronTypes, RowTypes, QueueType, FireTurnType, ClockTypes
<1>2. k[1] \in Crons /\ k[2] \in Times /\ k[2] # Never
  BY DEF CronTypes, QueueType
<1>3. JobOK(j, clock) /\ j.at = "read"
  BY <1>2, TimesAre DEF JobOK, Idle, FireJob, ByHand
<1>4. fireJob' = [fireJob EXCEPT ![w] = j] /\ UNCHANGED <<crons, clock, edited>>
  BY DEF Fetch
<1>. HIDE DEF j
<1>5. FireTypes' /\ \A v \in Workers : SameClaim(v)
  BY <1>3, <1>4, DropsTypes DEF CronTypes
<1>6. QED  BY <1>1, <1>4, <1>5, SameCrons, QuietKeeps

\* A step after which the worker is idle, and the rows are as they were.
LEMMA IdleKeeps ==
    ASSUME CronTypes, ClaimInv, NEW w \in Workers, fireJob' = [fireJob EXCEPT ![w] = Idle],
           UNCHANGED <<crons, fireTurn, clock, edited>>, QueueType', ClockTypes'
    PROVE  CronKept
<1>1. RowTypes' /\ FireTurnType'
  BY DEF CronTypes, RowTypes, FireTurnType
<1>2. JobOK(Idle, clock) /\ Idle.at = "idle"
  BY IdleOK DEF Idle
<1>3. FireTypes' /\ \A v \in Workers : SameClaim(v)
  BY <1>2, DropsTypes DEF CronTypes
<1>4. QED  BY <1>1, <1>3, SameCrons, QuietKeeps

\* A step on with the fire that leaves the rows and the queue.
LEMMA OnKeeps ==
    ASSUME CronTypes, ClaimInv, UNCHANGED <<crons, jobs, clock, edited>>, FireTurnType', ClockTypes',
           FireTypes', \A v \in Workers : SameClaim(v)
    PROVE  CronKept
<1>1. RowTypes' /\ QueueType'
  BY DEF CronTypes, RowTypes, QueueType
<1>2. QED  BY <1>1, SameCrons, QuietKeeps

LEMMA DeniedFireKeeps == ASSUME CronTypes, ClaimInv, NEW w \in Workers, FireDenied(w) PROVE CronKept
<1>1. FireTurnType' /\ ClockTypes'
  BY CronAssumption DEF FireDenied, CronFault, CronTypes, FireTurnType, ClockTypes
<1>2. GoesOn(w, "denied")
  BY DEF FireDenied, GoesOn
<1>3. UNCHANGED <<crons, jobs, clock, edited>> /\ FireTypes
  BY DEF FireDenied, CronTypes
<1>4. QED  BY <1>1, <1>2, <1>3, GoesOnTypes, OnKeeps

LEMMA DeniedKeeps == ASSUME CronTypes, ClaimInv, NEW w \in Workers, Denied(w) PROVE CronKept
<1>1. FireTurnType' /\ ClockTypes' /\ QueueType'
  BY DEF Denied, CronTypes, FireTurnType, ClockTypes, QueueType
<1>2. FireTypes' /\ \A v \in Workers : SameClaim(v)
  BY AfterTypes DEF Denied, CronTypes
<1>3. fireJob[w].cron \in Crons
  BY DEF Denied, CronTypes, FireTypes, JobOK
<1>4. RowTypes' /\ \A b \in Crons : SameRow(b)
  BY <1>3, PutOn DEF Denied, CronTypes
<1>5. UNCHANGED edited
  BY DEF Denied
<1>6. QED  BY <1>1, <1>2, <1>4, <1>5, QuietKeeps

LEMMA SettlesKeeps == ASSUME CronTypes, ClaimInv, NEW w \in Workers, FireSettles(w) PROVE CronKept
<1>1. FireTurnType' /\ ClockTypes' /\ QueueType'
  BY DEF FireSettles, CronTypes, FireTurnType, ClockTypes, QueueType
<1>2. FireTypes' /\ \A v \in Workers : SameClaim(v)
  BY AfterTypes DEF FireSettles, CronTypes
<1>3. fireJob[w].cron \in Crons
  BY DEF FireSettles, CronTypes, FireTypes, JobOK
<1>4. RowTypes' /\ \A b \in Crons : SameRow(b)
  <2>1. CASE crons' = [crons EXCEPT ![fireJob[w].cron].on = FALSE]
    BY <1>3, <2>1, PutOn DEF FireSettles, CronTypes
  <2>2. CASE crons' = crons
    BY <2>2, SameCrons DEF FireSettles, CronTypes, RowTypes
  <2>3. QED  BY <2>1, <2>2 DEF FireSettles
<1>5. UNCHANGED edited
  BY DEF FireSettles
<1>6. QED  BY <1>1, <1>2, <1>4, <1>5, QuietKeeps

LEMMA FireStartsKeeps == ASSUME CronTypes, ClaimInv, NEW w \in Workers, FireStarts(w) PROVE CronKept
<1>1. ClockTypes'
  BY DEF FireStarts, CronTypes, ClockTypes
<1>2. FireTurnType'
  BY DEF FireStarts, CronTypes, FireTurnType
<1>3. GoesOn(w, "run") \/ GoesOn(w, "settle")
  BY DEF FireStarts, GoesOn
<1>4. UNCHANGED <<crons, jobs, clock, edited>> /\ FireTypes
  BY DEF FireStarts, CronTypes
<1>5. QED  BY <1>1, <1>2, <1>3, <1>4, GoesOnTypes, OnKeeps

LEMMA ReturnsKeeps == ASSUME CronTypes, ClaimInv, NEW w \in Workers, RunReturns(w) PROVE CronKept
<1>1. ClockTypes'
  BY DEF RunReturns, CronTypes, ClockTypes
<1>2. FireTurnType'
  BY DEF RunReturns, CronTypes, FireTurnType
<1>3. GoesOn(w, "settle")
  BY DEF RunReturns, GoesOn
<1>4. UNCHANGED <<crons, jobs, clock, edited>> /\ FireTypes
  BY DEF RunReturns, CronTypes
<1>5. QED  BY <1>1, <1>2, <1>3, <1>4, GoesOnTypes, OnKeeps

LEMMA ThrowsKeeps == ASSUME CronTypes, ClaimInv, NEW w \in Workers, FireThrows(w) PROVE CronKept
<1>1. FireTurnType' /\ ClockTypes'
  BY CronAssumption DEF FireThrows, CronFault, CronTypes, FireTurnType, ClockTypes
<1>2. FireTypes' /\ \A v \in Workers : SameClaim(v)
  BY AfterTypes DEF FireThrows, CronTypes
<1>3. UNCHANGED <<crons, jobs, clock, edited>>
  BY DEF FireThrows
<1>4. QED  BY <1>1, <1>2, <1>3, OnKeeps

LEMMA ChainsKeeps == ASSUME CronTypes, ClaimInv, NEW w \in Workers, Chains(w) PROVE CronKept
<1>1. fireJob[w].cron \in Crons
  BY DEF Chains, CronTypes, FireTypes, JobOK
<1>2. Queued(fireJob[w].cron) \subseteq Crons \X (Times \ {Never})
  BY <1>1, QueuedTyped DEF CronTypes
<1>3. QueueType'
  BY <1>2 DEF Chains, CronTypes, QueueType
<1>4. ClockTypes' /\ UNCHANGED <<crons, fireTurn, clock, edited>> /\ fireJob' = [fireJob EXCEPT ![w] = Idle]
  BY DEF Chains, CronTypes, ClockTypes
<1>5. QED  BY <1>3, <1>4, IdleKeeps

LEMMA LostKeeps == ASSUME CronTypes, ClaimInv, NEW w \in Workers, JobLost(w) PROVE CronKept
<1>1. QueueType' /\ UNCHANGED <<crons, fireTurn, clock, edited>> /\ fireJob' = [fireJob EXCEPT ![w] = Idle]
  BY DEF JobLost, CronTypes, QueueType
<1>2. ClockTypes'
  BY CronAssumption DEF JobLost, CronTypes, ClockTypes
<1>3. QED  BY <1>1, <1>2, IdleKeeps

\* The jobs of the other workers.
SameJob(v) == fireJob'[v] = fireJob[v]

LEMMA SameJobClaims ==
    ASSUME NEW v \in Workers, SameJob(v)
    PROVE  (Claiming(v)' <=> Claiming(v)) /\ (Holding(v)' <=> Holding(v))
  BY DEF SameJob, Claiming, Holding, ByHand

\* The job has read the row: its claim would fit the row, and follows those that stand.
LEMMA ReadsRow ==
    ASSUME CronTypes, ClaimInv, NEW w \in Workers, NEW j, UNCHANGED <<crons, clock, edited>>,
           fireJob' = [fireJob EXCEPT ![w] = j], fireJob[w].cron \in Crons,
           j.at = "claim", j.cron = fireJob[w].cron, j.slot = Owed(crons[j.cron]), j.prior = crons[j.cron].last
    PROVE  ClaimInv'
<1>. DEFINE c == fireJob[w].cron
<1>1. fireJob'[w] = j /\ \A v \in Workers : v # w => SameJob(v)
  BY DEF SameJob, CronTypes, FireTypes
<1>2. Claiming(w)' /\ ~Holding(w)'
  BY <1>1 DEF Claiming, Holding
<1>3. ASSUME c \notin edited PROVE j.slot = crons[c].next
  <2>1. Fits(crons[c].sched, crons[c].last, crons[c].next)
    BY <1>3 DEF ClaimInv, RowsFit
  <2>2. SoundSchedule(crons[c].sched) /\ crons[c].last \in Nat /\ crons[c].next \in Nat
    BY TimesAre DEF CronTypes, RowTypes, RowOK, Cron
  <2>3. QED  BY <2>1, <2>2, OwedIsNext
<1>4. RowsFit'
  BY DEF ClaimInv, RowsFit
<1>5. ClaimsFit'
  <2>1. ASSUME NEW v \in Workers, Claiming(v)', Unedited(v)' PROVE ClaimFitsRow(v)'
    <3>1. CASE v = w
      BY <1>1, <1>3, <2>1, <3>1 DEF ClaimInv, RowsFit, ClaimFitsRow, Unedited
    <3>2. CASE v # w
      BY <1>1, <2>1, <3>2, SameJobClaims DEF ClaimInv, ClaimsFit, ClaimFitsRow, Unedited, SameJob
    <3>3. QED  BY <3>1, <3>2
  <2>2. QED  BY <2>1 DEF ClaimsFit
<1>6. ASSUME NEW v \in Workers, Holding(v)' PROVE v # w /\ SameJob(v) /\ Holding(v)
  BY <1>1, <1>2, <1>6, SameJobClaims
<1>7. ClaimsStand'
  BY <1>6 DEF ClaimInv, ClaimsStand, ClaimStandsOn, Unedited, SameJob
<1>8. ClaimsFollow'
  <2>1. ASSUME NEW u \in Workers, NEW v \in Workers, Claiming(u)', Holding(v)', OneCron(u, v)'
        PROVE  ClaimFollows(u, v)'
    <3>1. v # w /\ SameJob(v) /\ Holding(v)
      BY <1>6, <2>1
    <3>2. CASE u = w
      <4>1. fireJob[v].cron = c /\ c \notin edited
        BY <1>1, <2>1, <3>1, <3>2 DEF OneCron, Unedited, SameJob
      <4>2. ClaimStandsOn(v)
        BY <3>1, <4>1 DEF ClaimInv, ClaimsStand, Unedited
      <4>3. QED  BY <1>1, <1>3, <3>1, <3>2, <4>1, <4>2
                 DEF ClaimStandsOn, Stands, ClaimFollows, Follows, SameJob
    <3>3. CASE u # w
      <4>1. SameJob(u) /\ Claiming(u)
        BY <1>1, <2>1, <3>3, SameJobClaims
      <4>2. OneCron(u, v)
        BY <2>1, <3>1, <4>1 DEF OneCron, Unedited, SameJob
      <4>3. ClaimFollows(u, v)
        BY <3>1, <4>1, <4>2 DEF ClaimInv, ClaimsFollow
      <4>4. QED  BY <3>1, <4>1, <4>3 DEF ClaimFollows, SameJob
    <3>4. QED  BY <3>2, <3>3
  <2>2. QED  BY <2>1 DEF ClaimsFollow
<1>9. ClaimsDiffer'
  BY <1>6 DEF ClaimInv, ClaimsDiffer, ClaimDiffers, OneCron, Unedited, SameJob
<1>10. QED  BY <1>4, <1>5, <1>7, <1>8, <1>9 DEF ClaimInv

LEMMA ReadsKeeps == ASSUME CronTypes, ClaimInv, NEW w \in Workers, JobReads(w) PROVE CronKept
<1>. DEFINE c == crons[fireJob[w].cron]
            j == [fireJob[w] EXCEPT !.at = "claim", !.t = clock, !.prior = c.last, !.kind = c.sched.kind]
<1>1. fireJob[w] \in FireJob /\ fireJob[w].at = "read" /\ fireJob[w].cron \in Crons /\ fireJob[w].slot # Never
  BY DEF JobReads, CronTypes, FireTypes, JobOK, ByHand
<1>2. UNCHANGED <<crons, fireTurn, clock, edited>> /\ ClockTypes'
  BY DEF JobReads, CronTypes, ClockTypes
<1>3. \/ fireJob' = [fireJob EXCEPT ![w] = Idle] /\ jobs' \in {jobs, jobs \cup {Key(fireJob[w])}}
      \/ Owed(c) = fireJob[w].slot /\ ~(clock < fireJob[w].slot) /\ fireJob' = [fireJob EXCEPT ![w] = j] /\ jobs' = jobs
  BY DEF JobReads
<1>4. CASE fireJob' = [fireJob EXCEPT ![w] = Idle] /\ jobs' \in {jobs, jobs \cup {Key(fireJob[w])}}
  <2>1. Key(fireJob[w]) \in Crons \X (Times \ {Never})
    BY <1>1 DEF Key, FireJob
  <2>2. QueueType'
    BY <1>4, <2>1 DEF CronTypes, QueueType
  <2>3. QED  BY <1>2, <1>4, <2>2, IdleKeeps
<1>5. CASE Owed(c) = fireJob[w].slot /\ ~(clock < fireJob[w].slot) /\ fireJob' = [fireJob EXCEPT ![w] = j] /\ jobs' = jobs
  <2>1. RowOK(c, clock) /\ c \in Cron
    BY <1>1 DEF CronTypes, RowTypes, RowOK
  <2>2. clock \in Times /\ clock \in Nat /\ c.last \in Times /\ c.last <= clock /\ c.sched.kind \in CronKinds
    BY <2>1, TimesAre, CronAssumption DEF CronTypes, ClockTypes, RowOK, Cron, Schedule, Times
  <2>3. /\ j \in FireJob /\ j.at = "claim" /\ j.cron = fireJob[w].cron /\ j.slot = fireJob[w].slot
        /\ j.t = clock /\ j.prior = c.last
    BY <1>1, <2>2 DEF FireJob
  <2>. HIDE DEF j
  <2>4. fireJob[w].slot \in Nat
    BY <1>1, TimesAre DEF FireJob
  <2>5. JobOK(j, clock)
    BY <1>1, <1>5, <2>2, <2>3, <2>4 DEF JobOK, ByHand
  <2>6. FireTypes'
    BY <1>2, <1>5, <2>5, PutJob DEF CronTypes
  <2>7. RowTypes' /\ QueueType' /\ FireTurnType'
    BY <1>2, <1>5 DEF CronTypes, RowTypes, QueueType, FireTurnType
  <2>8. ClaimInv'
    BY <1>1, <1>2, <1>5, <2>3, ReadsRow
  <2>9. QED  BY <1>2, <2>6, <2>7, <2>8 DEF CronKept, CronTypes
<1>6. QED  BY <1>3, <1>4, <1>5

\* Rows and jobs of the claims that are there, in numbers.
LEMMA ClaimNats ==
    ASSUME CronTypes, NEW w \in Workers, Claiming(w)
    PROVE  /\ fireJob[w].cron \in Crons /\ SoundSchedule(crons[fireJob[w].cron].sched)
           /\ crons[fireJob[w].cron].last \in Nat /\ crons[fireJob[w].cron].next \in Nat
           /\ fireJob[w].slot \in Nat /\ fireJob[w].t \in Nat /\ fireJob[w].prior \in Nat
           /\ 1 <= fireJob[w].slot /\ fireJob[w].slot <= fireJob[w].t /\ fireJob[w].prior <= fireJob[w].t
           /\ fireJob[w].t <= clock
<1>1. JobOK(fireJob[w], clock) /\ fireJob[w] \in FireJob
  BY DEF CronTypes, FireTypes, JobOK
<1>2. ~ByHand(fireJob[w]) /\ fireJob[w].cron \in Crons
      /\ fireJob[w].slot <= fireJob[w].t /\ fireJob[w].t <= clock /\ fireJob[w].prior <= fireJob[w].t
  BY <1>1 DEF JobOK, Claiming, Holding
<1>3. fireJob[w].slot \in Nat /\ fireJob[w].t \in Nat /\ fireJob[w].prior \in Nat
  BY <1>1, TimesAre DEF FireJob
<1>4. 1 <= fireJob[w].slot
  BY <1>2, <1>3 DEF ByHand, Never
<1>5. crons[fireJob[w].cron] \in Cron /\ SoundSchedule(crons[fireJob[w].cron].sched)
  BY <1>2 DEF CronTypes, RowTypes, RowOK
<1>6. crons[fireJob[w].cron].last \in Nat /\ crons[fireJob[w].cron].next \in Nat
  BY <1>5, TimesAre DEF Cron
<1>7. QED  BY <1>2, <1>3, <1>4, <1>5, <1>6

\* A claim that is made beside those that stand.
LEMMA ClaimsRow ==
    ASSUME CronTypes, ClaimInv, NEW w \in Workers, NEW r, UNCHANGED <<clock, edited>>,
           fireJob[w].at = "claim", Owed(crons[fireJob[w].cron]) = fireJob[w].slot, NewTime(w),
           crons' = [crons EXCEPT ![fireJob[w].cron] = r], fireJob' = [fireJob EXCEPT ![w].at = "fire"],
           r.sched = crons[fireJob[w].cron].sched, r.last = fireJob[w].t,
           r.next = NextPut(r.sched, fireJob[w].slot, fireJob[w].t)
    PROVE  ClaimInv'
<1>. DEFINE c == fireJob[w].cron
            s == crons[c].sched
<1>1. Claiming(w) /\ ~Holding(w)
  BY DEF Claiming, Holding
<1>2. c \in Crons /\ crons'[c] = r /\ \A b \in Crons : b # c => crons'[b] = crons[b]
  BY <1>1, ClaimNats DEF CronTypes, RowTypes
<1>3. \A v \in Workers : v # w => SameJob(v)
  BY DEF SameJob, CronTypes, FireTypes
<1>4. /\ fireJob'[w].cron = c /\ fireJob'[w].slot = fireJob[w].slot
      /\ fireJob'[w].t = fireJob[w].t /\ fireJob'[w].prior = fireJob[w].prior
  BY DEF CronTypes, FireTypes, FireJob
<1>5. \A v \in Workers : fireJob'[v].cron = fireJob[v].cron /\ fireJob'[v].slot = fireJob[v].slot
                         /\ fireJob'[v].t = fireJob[v].t /\ fireJob'[v].prior = fireJob[v].prior
  BY <1>3, <1>4 DEF SameJob
<1>6. \A v \in Workers : /\ Claiming(v)' => Claiming(v)
                         /\ Holding(v)' => v = w \/ Holding(v)
  BY <1>1, <1>3, SameJobClaims
<1>7. \A v \in Workers : Unedited(v)' <=> Unedited(v)
  BY <1>5 DEF Unedited
<1>8. \A u, v \in Workers : OneCron(u, v)' <=> OneCron(u, v)
  BY <1>5, <1>7 DEF OneCron
<1>9. SoundSchedule(s) /\ r.sched = s
  BY <1>1, ClaimNats
<1>10. ASSUME c \notin edited
       PROVE  /\ Fits(s, crons[c].last, fireJob[w].slot) /\ Fits(s, fireJob[w].prior, fireJob[w].slot)
              /\ crons[c].next = fireJob[w].slot /\ Fits(s, r.last, r.next)
  <2>1. Fits(s, crons[c].last, crons[c].next)
    BY <1>2, <1>10 DEF ClaimInv, RowsFit
  <2>2. crons[c].next = fireJob[w].slot
    BY <1>1, <2>1, ClaimNats, OwedIsNext
  <2>3. Fits(s, fireJob[w].prior, fireJob[w].slot)
    BY <1>1, <1>10 DEF ClaimInv, ClaimsFit, ClaimFitsRow, Unedited
  <2>4. Fits(s, r.last, r.next)
    BY <1>1, <1>9, <2>3, ClaimNats, ClaimFits
  <2>5. QED  BY <2>1, <2>2, <2>3, <2>4
<1>13. /\ crons[c].last \in Nat /\ fireJob[w].slot \in Nat /\ fireJob[w].t \in Nat /\ fireJob[w].prior \in Nat
       /\ 1 <= fireJob[w].slot /\ fireJob[w].slot <= fireJob[w].t /\ fireJob[w].prior <= fireJob[w].t
  BY <1>1, ClaimNats
<1>11. ASSUME NEW v \in Workers, v # w, Holding(v), fireJob[v].cron = c, c \notin edited
       PROVE  /\ Stands(s, r.last, r.next, fireJob[v].slot, fireJob[v].t, fireJob[v].prior)
              /\ Differ(s, fireJob[w].slot, fireJob[w].t, fireJob[w].prior,
                        fireJob[v].slot, fireJob[v].t, fireJob[v].prior)
  <2>1. Stands(s, crons[c].last, fireJob[w].slot, fireJob[v].slot, fireJob[v].t, fireJob[v].prior)
    BY <1>10, <1>11 DEF ClaimInv, ClaimsStand, ClaimStandsOn, Unedited
  <2>2. crons[c].last # fireJob[w].t /\ fireJob[v].t # fireJob[w].t
    BY <1>11 DEF NewTime
  <2>3. Claiming(v)
    BY <1>11 DEF Claiming
  <2>4. fireJob[v].slot \in Nat /\ fireJob[v].t \in Nat /\ fireJob[v].prior \in Nat
    BY <2>3, ClaimNats
  <2>5. Fits(s, crons[c].last, fireJob[w].slot) /\ Fits(s, fireJob[w].prior, fireJob[w].slot)
        /\ r.last = fireJob[w].t /\ r.next = NextPut(s, fireJob[w].slot, fireJob[w].t)
    BY <1>9, <1>10, <1>11
  <2>6. /\ Stands(s, fireJob[w].t, NextPut(s, fireJob[w].slot, fireJob[w].t),
                   fireJob[v].slot, fireJob[v].t, fireJob[v].prior)
        /\ Differ(s, fireJob[w].slot, fireJob[w].t, fireJob[w].prior,
                  fireJob[v].slot, fireJob[v].t, fireJob[v].prior)
    <3>. HIDE DEF s, c
    <3>1. QED  BY <1>9, <1>13, <2>1, <2>2, <2>4, <2>5, StandsBesides
  <2>7. QED  BY <2>5, <2>6
<1>12. ASSUME c \notin edited
       PROVE  Stands(s, r.last, r.next, fireJob[w].slot, fireJob[w].t, fireJob[w].prior)
  <2>1. s.kind = "every" => fireJob[w].prior = crons[c].last
    BY <1>1, <1>9, <1>10, <1>12, <1>13, SamePrior DEF Never
  <2>2. s.kind = "every" => fireJob[w].prior < fireJob[w].t
    BY <1>13, <2>1 DEF NewTime
  <2>3. QED  BY <1>9, <1>13, <2>2, NewStands
<1>14. RowsFit'
  BY <1>2, <1>9, <1>10 DEF ClaimInv, RowsFit
<1>15. ClaimsFit'
  <2>1. ASSUME NEW v \in Workers, Claiming(v), Unedited(v) PROVE ClaimFitsRow(v)'
    <3>1. Fits(crons[fireJob[v].cron].sched, fireJob[v].prior, fireJob[v].slot)
      BY <2>1 DEF ClaimInv, ClaimsFit, ClaimFitsRow
    <3>2. crons'[fireJob[v].cron].sched = crons[fireJob[v].cron].sched
      BY <1>2, <1>9, <2>1, ClaimNats
    <3>3. QED  BY <1>5, <3>1, <3>2 DEF ClaimFitsRow
  <2>2. QED  BY <1>6, <1>7, <2>1 DEF ClaimsFit
<1>16. ClaimsStand'
  <2>1. ASSUME NEW v \in Workers, v = w \/ Holding(v), Unedited(v) PROVE ClaimStandsOn(v)'
    <3>1. CASE fireJob[v].cron = c
      <4>1. Stands(s, r.last, r.next, fireJob[v].slot, fireJob[v].t, fireJob[v].prior)
        BY <1>11, <1>12, <2>1, <3>1 DEF Unedited
      <4>2. QED  BY <1>2, <1>5, <1>9, <3>1, <4>1 DEF ClaimStandsOn
    <3>2. CASE fireJob[v].cron # c
      <4>1. Claiming(v) /\ Holding(v)
        BY <2>1, <3>2 DEF Claiming
      <4>2. ClaimStandsOn(v) /\ crons'[fireJob[v].cron] = crons[fireJob[v].cron]
        BY <1>2, <2>1, <3>2, <4>1, ClaimNats DEF ClaimInv, ClaimsStand
      <4>3. QED  BY <1>5, <4>2 DEF ClaimStandsOn
    <3>3. QED  BY <3>1, <3>2
  <2>2. QED  BY <1>6, <1>7, <2>1 DEF ClaimsStand
<1>17. ASSUME NEW u \in Workers, Claiming(u)
       PROVE  crons'[fireJob[u].cron].sched = crons[fireJob[u].cron].sched
  BY <1>2, <1>9, <1>17, ClaimNats
<1>18. ClaimsFollow'
  <2>1. ASSUME NEW u \in Workers, NEW v \in Workers, Claiming(u), v = w \/ Holding(v), OneCron(u, v)
        PROVE  Follows(crons[fireJob[u].cron].sched, fireJob[u].slot, fireJob[u].prior, fireJob[v].slot, fireJob[v].t)
    <3>1. CASE v = w
      <4>1. fireJob[u].prior # fireJob[w].t
        BY <2>1, <3>1 DEF OneCron, NewTime
      <4>2. QED  BY <3>1, <4>1 DEF Follows
    <3>2. CASE Holding(v)
      BY <2>1, <3>2 DEF ClaimInv, ClaimsFollow, ClaimFollows
    <3>3. QED  BY <2>1, <3>1, <3>2
  <2>2. QED  BY <1>5, <1>6, <1>8, <1>17, <2>1 DEF ClaimsFollow, ClaimFollows
<1>19. ClaimsDiffer'
  <2>1. ASSUME NEW u \in Workers, NEW v \in Workers, u = w \/ Holding(u), v = w \/ Holding(v), OneCron(u, v)
        PROVE  Differ(crons[fireJob[u].cron].sched, fireJob[u].slot, fireJob[u].t, fireJob[u].prior,
                      fireJob[v].slot, fireJob[v].t, fireJob[v].prior)
    <3>1. u # v /\ fireJob[u].cron = fireJob[v].cron /\ fireJob[u].cron \notin edited
      BY <2>1 DEF OneCron, Unedited
    <3>2. CASE u = w
      <4>1. v # w /\ Holding(v) /\ fireJob[v].cron = c /\ c \notin edited
        BY <2>1, <3>1, <3>2
      <4>2. QED  BY <1>11, <3>2, <4>1
    <3>3. CASE v = w
      <4>1. u # w /\ Holding(u) /\ fireJob[u].cron = c /\ c \notin edited
        BY <2>1, <3>1, <3>3
      <4>2. Differ(s, fireJob[w].slot, fireJob[w].t, fireJob[w].prior,
                   fireJob[u].slot, fireJob[u].t, fireJob[u].prior)
        BY <1>11, <4>1
      <4>3. QED  BY <3>1, <3>3, <4>2 DEF Differ
    <3>4. CASE u # w /\ v # w
      BY <2>1, <3>4 DEF ClaimInv, ClaimsDiffer, ClaimDiffers
    <3>5. QED  BY <3>2, <3>3, <3>4
  <2>2. \A v \in Workers : v = w \/ Holding(v) => Claiming(v)
    BY <1>1 DEF Claiming
  <2>3. QED  BY <1>5, <1>6, <1>8, <1>17, <2>1, <2>2 DEF ClaimsDiffer, ClaimDiffers
<1>20. QED  BY <1>14, <1>15, <1>16, <1>18, <1>19 DEF ClaimInv

LEMMA ClaimsKeeps == ASSUME CronTypes, ClaimInv, NEW w \in Workers, JobClaims(w) PROVE CronKept
<1>. DEFINE c == fireJob[w].cron
            t == fireJob[w].t
            n == NextPut(crons[c].sched, fireJob[w].slot, t)
            r == [crons[c] EXCEPT !.last = t, !.next = n]
<1>1. UNCHANGED <<jobs, fireTurn, clock, edited, edits, cronFaults, crashes>> /\ fireJob[w].at = "claim"
  BY DEF JobClaims
<1>2. QueueType' /\ FireTurnType' /\ ClockTypes'
  BY <1>1 DEF CronTypes, QueueType, FireTurnType, ClockTypes
<1>3. CASE fireJob' = [fireJob EXCEPT ![w] = Idle] /\ UNCHANGED crons
  BY <1>1, <1>2, <1>3, IdleKeeps
<1>4. CASE /\ MayClaim(crons[c], fireJob[w].slot) /\ NewTime(w)
           /\ crons' = [crons EXCEPT ![c] = r] /\ fireJob' = [fireJob EXCEPT ![w].at = "fire"]
  <2>1. JobOK(fireJob[w], clock) /\ fireJob[w] \in FireJob
    BY DEF CronTypes, FireTypes, JobOK
  <2>2. FireTypes'
    <3>1. fireJob' = [fireJob EXCEPT ![w] = [fireJob[w] EXCEPT !.at = "fire"]]
      BY <1>4
    <3>2. JobOK([fireJob[w] EXCEPT !.at = "fire"], clock)
      BY <1>1, <2>1, GoesOnOK
    <3>3. QED  BY <1>1, <3>1, <3>2, PutJob DEF CronTypes
  <2>3. /\ c \in Crons /\ SoundSchedule(crons[c].sched) /\ fireJob[w].slot \in Nat /\ t \in Nat
        /\ fireJob[w].slot <= t /\ t <= clock
    BY <1>1, ClaimNats DEF Claiming
  <2>4. RowOK(crons[c], clock)
    BY <2>3 DEF CronTypes, RowTypes
  <2>5. t <= MaxTime /\ MaxTime \in Nat /\ Every \in Nat
    BY <2>3, CronAssumption DEF CronTypes, ClockTypes
  <2>6. n \in Times
    <3>1. NextCalendar(fireJob[w].slot) \in fireJob[w].slot + 1 .. fireJob[w].slot + Every
      BY <2>3, NextIsLater
    <3>2. NextCalendar(fireJob[w].slot) \in Times /\ t + Every \in Times
      BY <2>3, <2>5, <3>1 DEF Times
    <3>3. QED  BY <2>3, <3>2, TimesAre, NextPutIs DEF SoundSchedule, ScheduleKinds
  <2>7. t \in Times
    BY <2>3, <2>5 DEF Times
  <2>8. RowOK(r, clock) /\ r.last = t /\ r.next = n /\ r.sched = crons[c].sched
    <3>1. crons[c] \in Cron
      BY <2>4 DEF RowOK
    <3>. HIDE DEF t, n, c
    <3>2. r \in Cron /\ r.last = t /\ r.next = n /\ r.sched = crons[c].sched
      BY <2>6, <2>7, <3>1 DEF Cron
    <3>. HIDE DEF r
    <3>3. RowOK(r, clock)
      BY <2>3, <3>2 DEF RowOK
    <3>4. QED  BY <3>2, <3>3
  <2>9. Owed(crons[c]) = fireJob[w].slot
    BY <1>4 DEF MayClaim
  <2>. HIDE DEF r
  <2>10. RowTypes'
    BY <1>1, <1>4, <2>3, <2>8, PutRow DEF CronTypes
  <2>11. ClaimInv'
    <3>1. r.sched = crons[fireJob[w].cron].sched /\ r.last = fireJob[w].t
          /\ r.next = NextPut(r.sched, fireJob[w].slot, fireJob[w].t)
      BY <2>8
    <3>2. QED  BY <1>1, <1>4, <2>9, <3>1, ClaimsRow
  <2>12. QED  BY <1>2, <2>2, <2>10, <2>11 DEF CronKept, CronTypes
<1>5. QED  BY <1>3, <1>4 DEF JobClaims, ClaimRow, NextPut

\* A claim is given back.
LEMMA UndoesRow ==
    ASSUME CronTypes, ClaimInv, NEW w \in Workers, NEW r, UNCHANGED <<clock, edited>>,
           fireJob[w].at = "undo", crons[fireJob[w].cron].last = fireJob[w].t,
           crons' = [crons EXCEPT ![fireJob[w].cron] = r], fireJob' = [fireJob EXCEPT ![w] = Idle],
           r.sched = crons[fireJob[w].cron].sched, r.last = fireJob[w].prior, r.next = fireJob[w].slot
    PROVE  ClaimInv'
<1>. DEFINE c == fireJob[w].cron
            s == crons[c].sched
<1>1. Holding(w) /\ Claiming(w)
  <2>1. ~ByHand(fireJob[w])
    BY DEF CronTypes, FireTypes, JobOK
  <2>2. QED  BY <2>1 DEF Claiming, Holding
<1>2. c \in Crons /\ crons'[c] = r /\ \A b \in Crons : b # c => crons'[b] = crons[b]
  BY <1>1, ClaimNats DEF CronTypes, RowTypes
<1>3. fireJob'[w] = Idle /\ \A v \in Workers : v # w => SameJob(v)
  BY DEF SameJob, CronTypes, FireTypes
<1>4. ~Claiming(w)' /\ ~Holding(w)'
  BY <1>3 DEF Claiming, Holding, Idle
<1>5. \A v \in Workers : /\ Claiming(v)' => v # w /\ Claiming(v) /\ SameJob(v)
                         /\ Holding(v)' => v # w /\ Holding(v) /\ SameJob(v) /\ Claiming(v)'
  <2>1. \A v \in Workers : Holding(v)' => Claiming(v)'
    BY DEF Claiming
  <2>2. QED  BY <1>3, <1>4, <2>1, SameJobClaims
<1>6. \A v \in Workers : SameJob(v) => (Unedited(v)' <=> Unedited(v))
  BY DEF Unedited, SameJob
<1>7. \A u, v \in Workers : SameJob(u) /\ SameJob(v) => (OneCron(u, v)' <=> OneCron(u, v))
  BY <1>6 DEF OneCron, SameJob
<1>8. ASSUME NEW u \in Workers, Claiming(u)
      PROVE  crons'[fireJob[u].cron].sched = crons[fireJob[u].cron].sched
  BY <1>2, <1>8, ClaimNats
<1>9. RowsFit'
  <2>1. ASSUME c \notin edited PROVE Fits(r.sched, r.last, r.next)
    BY <1>1, <2>1 DEF ClaimInv, ClaimsFit, ClaimFitsRow, Unedited
  <2>2. QED  BY <1>2, <2>1 DEF ClaimInv, RowsFit
<1>10. ClaimsFit'
  <2>1. ASSUME NEW v \in Workers, Claiming(v)', Unedited(v)' PROVE ClaimFitsRow(v)'
    <3>1. Claiming(v) /\ SameJob(v) /\ Unedited(v)
      BY <1>5, <1>6, <2>1
    <3>2. ClaimFitsRow(v)
      BY <3>1 DEF ClaimInv, ClaimsFit
    <3>3. QED  BY <1>8, <3>1, <3>2 DEF ClaimFitsRow, SameJob
  <2>2. QED  BY <2>1 DEF ClaimsFit
<1>11. ClaimsFollow'
  <2>1. ASSUME NEW u \in Workers, NEW v \in Workers, Claiming(u)', Holding(v)', OneCron(u, v)'
        PROVE  ClaimFollows(u, v)'
    <3>1. Claiming(u) /\ Holding(v) /\ SameJob(u) /\ SameJob(v) /\ OneCron(u, v)
      BY <1>5, <1>7, <2>1
    <3>2. ClaimFollows(u, v)
      BY <3>1 DEF ClaimInv, ClaimsFollow
    <3>3. QED  BY <1>8, <3>1, <3>2 DEF ClaimFollows, SameJob
  <2>2. QED  BY <2>1 DEF ClaimsFollow
<1>12. ClaimsDiffer'
  <2>1. ASSUME NEW u \in Workers, NEW v \in Workers, Holding(u)', Holding(v)', OneCron(u, v)'
        PROVE  ClaimDiffers(u, v)'
    <3>1. Claiming(u) /\ Holding(u) /\ Holding(v) /\ SameJob(u) /\ SameJob(v) /\ OneCron(u, v)
      BY <1>5, <1>7, <2>1
    <3>2. ClaimDiffers(u, v)
      BY <3>1 DEF ClaimInv, ClaimsDiffer
    <3>3. QED  BY <1>8, <3>1, <3>2 DEF ClaimDiffers, SameJob
  <2>2. QED  BY <2>1 DEF ClaimsDiffer
<1>13. ASSUME NEW v \in Workers, v # w, Holding(v), fireJob[v].cron = c, c \notin edited
       PROVE  Stands(s, fireJob[w].prior, fireJob[w].slot, fireJob[v].slot, fireJob[v].t, fireJob[v].prior)
  <2>1. Claiming(v)
    BY <1>13 DEF Claiming
  <2>2. OneCron(w, v) /\ Unedited(w) /\ Unedited(v)
    BY <1>13 DEF OneCron, Unedited
  <2>3. Fits(s, fireJob[w].prior, fireJob[w].slot) /\ Fits(s, fireJob[v].prior, fireJob[v].slot)
    BY <1>1, <1>13, <2>1, <2>2 DEF ClaimInv, ClaimsFit, ClaimFitsRow
  <2>4. /\ Stands(s, fireJob[w].t, crons[c].next, fireJob[w].slot, fireJob[w].t, fireJob[w].prior)
        /\ Stands(s, fireJob[w].t, crons[c].next, fireJob[v].slot, fireJob[v].t, fireJob[v].prior)
    BY <1>1, <1>13, <2>2 DEF ClaimInv, ClaimsStand, ClaimStandsOn
  <2>5. Differ(s, fireJob[w].slot, fireJob[w].t, fireJob[w].prior,
               fireJob[v].slot, fireJob[v].t, fireJob[v].prior)
    BY <1>1, <1>13, <2>2 DEF ClaimInv, ClaimsDiffer, ClaimDiffers
  <2>6. Follows(s, fireJob[w].slot, fireJob[w].prior, fireJob[v].slot, fireJob[v].t)
    BY <1>1, <1>13, <2>2 DEF ClaimInv, ClaimsFollow, ClaimFollows
  <2>7. /\ SoundSchedule(s) /\ crons[c].next \in Nat
        /\ fireJob[w].slot \in Nat /\ fireJob[w].t \in Nat /\ fireJob[w].prior \in Nat
        /\ 1 <= fireJob[w].slot /\ fireJob[w].slot <= fireJob[w].t
    BY <1>1, ClaimNats
  <2>8. /\ fireJob[v].slot \in Nat /\ fireJob[v].t \in Nat /\ fireJob[v].prior \in Nat
        /\ 1 <= fireJob[v].slot /\ fireJob[v].slot <= fireJob[v].t
    BY <2>1, ClaimNats
  <2>. HIDE DEF s, c
  <2>9. LatestBeside(s, crons[c].next, fireJob[w].slot, fireJob[w].t, fireJob[w].prior,
                fireJob[v].slot, fireJob[v].t, fireJob[v].prior)
    BY <2>3, <2>4, <2>5, <2>6, <2>7, <2>8 DEF LatestBeside
  <2>10. QED  BY <2>9, StandsAfterUndo
<1>14. ClaimsStand'
  <2>1. ASSUME NEW v \in Workers, Holding(v)', Unedited(v)' PROVE ClaimStandsOn(v)'
    <3>1. v # w /\ Claiming(v) /\ Holding(v) /\ SameJob(v) /\ Unedited(v)
      BY <1>5, <1>6, <2>1
    <3>2. CASE fireJob[v].cron = c
      <4>1. Stands(r.sched, r.last, r.next, fireJob[v].slot, fireJob[v].t, fireJob[v].prior)
        BY <1>13, <3>1, <3>2 DEF Unedited
      <4>2. QED  BY <1>2, <3>1, <3>2, <4>1 DEF ClaimStandsOn, SameJob
    <3>3. CASE fireJob[v].cron # c
      <4>1. ClaimStandsOn(v) /\ crons'[fireJob[v].cron] = crons[fireJob[v].cron]
        BY <1>2, <3>1, <3>3, ClaimNats DEF ClaimInv, ClaimsStand
      <4>2. QED  BY <3>1, <4>1 DEF ClaimStandsOn, SameJob
    <3>4. QED  BY <3>2, <3>3
  <2>2. QED  BY <2>1 DEF ClaimsStand
<1>15. QED  BY <1>9, <1>10, <1>11, <1>12, <1>14 DEF ClaimInv

LEMMA UnclaimsKeeps == ASSUME CronTypes, ClaimInv, NEW w \in Workers, Unclaims(w) PROVE CronKept
<1>. DEFINE c == fireJob[w].cron
            r == [crons[c] EXCEPT !.last = fireJob[w].prior, !.next = fireJob[w].slot]
<1>1. /\ UNCHANGED <<jobs, fireTurn, clock, edited, edits, cronFaults, crashes>> /\ fireJob[w].at = "undo"
      /\ fireJob' = [fireJob EXCEPT ![w] = Idle]
  BY DEF Unclaims
<1>2. QueueType' /\ FireTurnType' /\ ClockTypes'
  BY <1>1 DEF CronTypes, QueueType, FireTurnType, ClockTypes
<1>3. CASE crons[c].last # fireJob[w].t
  <2>1. UNCHANGED crons
    BY <1>3 DEF Unclaims, UnclaimRow, CronTypes, RowTypes
  <2>2. QED  BY <1>1, <1>2, <2>1, IdleKeeps
<1>4. CASE crons[c].last = fireJob[w].t
  <2>1. crons' = [crons EXCEPT ![c] = r]
    BY <1>4 DEF Unclaims, UnclaimRow
  <2>2. Claiming(w)
    BY <1>1 DEF Claiming, Holding, CronTypes, FireTypes, JobOK
  <2>3. c \in Crons /\ SoundSchedule(crons[c].sched) /\ crons[c] \in Cron
    BY <2>2, ClaimNats DEF CronTypes, RowTypes
  <2>4. fireJob[w].prior \in Times /\ fireJob[w].slot \in Times /\ fireJob[w].prior <= clock
    <3>1. fireJob[w].prior \in Nat /\ fireJob[w].t \in Nat /\ clock \in Nat
          /\ fireJob[w].prior <= fireJob[w].t /\ fireJob[w].t <= clock
      BY <2>2, ClaimNats DEF CronTypes, ClockTypes
    <3>2. fireJob[w] \in FireJob
      BY DEF CronTypes, FireTypes, JobOK
    <3>3. QED  BY <3>1, <3>2 DEF FireJob
  <2>5. r \in Cron /\ r.last = fireJob[w].prior /\ r.next = fireJob[w].slot /\ r.sched = crons[c].sched
    <3>. HIDE DEF c
    <3>1. QED  BY <2>3, <2>4 DEF Cron
  <2>. HIDE DEF r
  <2>6. RowOK(r, clock)
    BY <2>3, <2>4, <2>5 DEF RowOK
  <2>7. RowTypes'
    BY <1>1, <2>1, <2>3, <2>6, PutRow DEF CronTypes
  <2>8. JobOK(Idle, clock)
    BY IdleOK
  <2>9. FireTypes'
    BY <1>1, <2>8, PutJob DEF CronTypes
  <2>10. ClaimInv'
    BY <1>1, <1>4, <2>1, <2>5, UndoesRow
  <2>11. QED  BY <1>2, <2>7, <2>9, <2>10 DEF CronKept, CronTypes
<1>5. QED  BY <1>3, <1>4

LEMMA CronInitInv == CronInit => CronTypes /\ ClaimInv
<1>. SUFFICES ASSUME CronInit PROVE CronTypes /\ ClaimInv
  OBVIOUS
<1>1. PICK kind \in CronKinds, first \in 1 .. MaxTime :
        crons = [c \in Crons |->
                 [sched |-> [kind |-> kind, first |-> IF kind = "calendar" THEN Never ELSE first],
                  on |-> TRUE, last |-> Never,
                  next |-> IF kind = "calendar" THEN NextCalendar(Never) ELSE first]]
  BY DEF CronInit
<1>2. jobs = {} /\ fireJob = [w \in Workers |-> Idle] /\ fireTurn = [k \in Crons \X Times |-> "none"]
      /\ clock = 1 /\ edited = {} /\ edits = 0 /\ cronFaults = 0 /\ crashes = 0
  BY DEF CronInit
<1>3. NextCalendar(Never) \in Times /\ OnGrid(NextCalendar(Never)) /\ first \in Times /\ first # Never
  <2>1. Never \in Nat /\ NextCalendar(Never) \in Never + 1 .. Never + Every
    BY NextIsLater DEF Never
  <2>2. QED  BY <2>1, NextOnGrid, CronAssumption DEF Times, Never
<1>4. kind \in ScheduleKinds
  BY CronAssumption
<1>5. ASSUME NEW c \in Crons
      PROVE  RowOK(crons[c], clock) /\ Fits(crons[c].sched, crons[c].last, crons[c].next)
  <2>1. /\ crons[c].last = Never /\ crons[c].sched.kind = kind
        /\ crons[c].sched.first = (IF kind = "calendar" THEN Never ELSE first)
        /\ crons[c].next = (IF kind = "calendar" THEN NextCalendar(Never) ELSE first)
    BY <1>1
  <2>2. crons[c] \in Cron
    BY <1>1, <1>3, TimesAre DEF Cron, Schedule
  <2>3. SoundSchedule(crons[c].sched)
    BY <1>3, <1>4, <2>1, TimesAre DEF SoundSchedule
  <2>4. Never <= clock
    BY <1>2 DEF Never
  <2>5. QED  BY <1>3, <2>1, <2>2, <2>3, <2>4 DEF RowOK, Fits
<1>6. RowTypes
  BY <1>1, <1>5 DEF RowTypes, RowOK
<1>7. FireTypes
  BY <1>2, IdleOK DEF FireTypes, JobOK
<1>8. QueueType /\ FireTurnType /\ ClockTypes
  BY <1>2, CronAssumption DEF QueueType, FireTurnType, ClockTypes
<1>9. \A w \in Workers : ~Claiming(w) /\ ~Holding(w)
  BY <1>2 DEF Claiming, Holding, Idle
<1>10. ClaimInv
  BY <1>5, <1>9 DEF ClaimInv, RowsFit, ClaimsFit, ClaimsStand, ClaimsFollow, ClaimsDiffer
<1>11. QED  BY <1>6, <1>7, <1>8, <1>10 DEF CronTypes

LEMMA CronNextInv == CronTypes /\ ClaimInv /\ [CronNext]_cronVars => CronKept
<1>. SUFFICES ASSUME CronTypes, ClaimInv, [CronNext]_cronVars PROVE CronKept
  OBVIOUS
<1>1. CASE UNCHANGED cronVars
  <2>1. UNCHANGED <<crons, jobs, fireJob, fireTurn, clock, edited, edits, cronFaults, crashes>>
    BY <1>1 DEF cronVars
  <2>2. RowTypes' /\ QueueType' /\ FireTypes' /\ FireTurnType' /\ ClockTypes'
    BY <2>1 DEF CronTypes, RowTypes, QueueType, FireTypes, FireTurnType, ClockTypes
  <2>3. QED  BY <2>1, <2>2, SameCrons, SameJobs, QuietKeeps
<1>2. ASSUME Tick \/ \E c \in Crons : EnqueueNext(c) PROVE CronKept
  BY <1>2, TickKeeps, EnqueueKeeps
<1>3. ASSUME NEW k \in Crons \X Times, FireEnds(k) PROVE CronKept
  BY <1>3, FireEndsKeeps
<1>4. ASSUME NEW w \in Workers, JobSteps(w) PROVE CronKept
  BY <1>4, ReadsKeeps, ClaimsKeeps, DeniedKeeps, FireStartsKeeps, ReturnsKeeps, SettlesKeeps, ChainsKeeps,
     UnclaimsKeeps DEF JobSteps
<1>5. ASSUME NEW w \in Workers, FireDenied(w) \/ FireThrows(w) \/ JobLost(w) PROVE CronKept
  BY <1>5, DeniedFireKeeps, ThrowsKeeps, LostKeeps
<1>6. ASSUME NEW w \in Workers, \E k \in jobs : Fetch(w, k) PROVE CronKept
  BY <1>6, FetchKeeps
<1>7. ASSUME NEW c \in Crons, \E kind \in CronKinds, first \in 1 .. MaxTime : Reschedule(c, kind, first)
      PROVE  CronKept
  BY <1>7, RescheduleKeeps
<1>8. ASSUME NEW c \in Crons, SetEnabled(c) PROVE CronKept
  BY <1>8, SetEnabledKeeps
<1>9. ASSUME NEW w \in Workers, NEW c \in Crons, RunNow(w, c) PROVE CronKept
  BY <1>9, RunNowKeeps
<1>10. QED  BY <1>1, <1>2, <1>3, <1>4, <1>5, <1>6, <1>7, <1>8, <1>9 DEF CronNext, CronSteps, Disturbance

LEMMA CronInvariant == CronSpec => [](CronTypes /\ ClaimInv)
<1>1. CronInit => CronTypes /\ ClaimInv
  BY CronInitInv
<1>2. CronTypes /\ ClaimInv /\ [CronNext]_cronVars => (CronTypes /\ ClaimInv)'
  BY CronNextInv DEF CronKept
<1>3. QED  BY <1>1, <1>2, PTL DEF CronSpec

\* Every reachable state of the crons, their queue and their fires is well typed.
THEOREM CronTypeCorrect == CronSpec => []CronTypeOK
<1>1. CronTypes => CronTypeOK
  BY DEF CronTypes, RowTypes, QueueType, FireTypes, FireTurnType, ClockTypes, CronTypeOK
<1>2. QED  BY <1>1, CronInvariant, PTL

\* While a fire lasts, a cron that nobody rescheduled owes neither its slot nor one
\* before it, so no failing fire gives back a slot from under a later claim.
THEOREM ClaimsStandAlways == CronSpec => []ClaimStands
<1>1. CronTypes /\ ClaimInv => ClaimStands
  <2>. SUFFICES ASSUME CronTypes, ClaimInv, NEW w \in Workers, Holding(w), fireJob[w].cron \notin edited
                PROVE  Owed(crons[fireJob[w].cron]) \notin 1 .. fireJob[w].slot
    BY DEF ClaimStands
  <2>. DEFINE c == fireJob[w].cron
  <2>1. Stands(crons[c].sched, crons[c].last, crons[c].next, fireJob[w].slot, fireJob[w].t, fireJob[w].prior)
    BY DEF ClaimInv, ClaimsStand, ClaimStandsOn, Unedited
  <2>2. c \in Crons /\ SoundSchedule(crons[c].sched) /\ crons[c].last \in Nat /\ crons[c].next \in Nat
    BY ClaimNats DEF Claiming
  <2>3. Fits(crons[c].sched, crons[c].last, crons[c].next)
    BY <2>2 DEF ClaimInv, RowsFit
  <2>4. Owed(crons[c]) = crons[c].next
    BY <2>2, <2>3, OwedIsNext
  <2>5. QED  BY <2>1, <2>4 DEF Stands
<1>2. QED  BY <1>1, CronInvariant, PTL

\* Two workers never fire the same slot of a cron that nobody rescheduled.
THEOREM ClaimsExclude == CronSpec => []ClaimExclusive
<1>1. ClaimInv => ClaimExclusive
  <2>. SUFFICES ASSUME ClaimInv, NEW w \in Workers, NEW v \in Workers, w # v, Holding(w), Holding(v),
                       fireJob[w].cron \notin edited, Key(fireJob[w]) = Key(fireJob[v])
                PROVE  FALSE
    BY DEF ClaimExclusive
  <2>1. fireJob[w].cron = fireJob[v].cron /\ fireJob[w].slot = fireJob[v].slot
    BY DEF Key
  <2>2. OneCron(w, v)
    BY <2>1 DEF OneCron, Unedited
  <2>3. ClaimDiffers(w, v)
    BY <2>2 DEF ClaimInv, ClaimsDiffer
  <2>4. QED  BY <2>1, <2>3 DEF ClaimDiffers, Differ
<1>2. QED  BY <1>1, CronInvariant, PTL

-----------------------------------------------------------------------------
(* Compaction.  The plan of a compaction, on a log of entries.             *)

\* A set of positions has a latest one.
LEMMA LatestIs ==
    ASSUME NEW n \in Nat, NEW S \in SUBSET (1 .. n), S # {}
    PROVE  Latest(S) \in S /\ \A j \in S : j <= Latest(S)
<1>. DEFINE B == {k \in Nat : \A i \in S : i <= k}
<1>1. n \in B /\ B \subseteq Nat
  OBVIOUS
<1>2. PICK k \in B : \A x \in B : ~(x < k)
  <2>1. IsWellFoundedOn(OpToRel(<, Nat), Nat)
    BY NatLessThanWellFounded
  <2>2. B # {}
    BY <1>1
  <2>. HIDE DEF B
  <2>3. \E k \in B : \A x \in B : <<x, k>> \notin OpToRel(<, Nat)
    BY <1>1, <2>1, <2>2, WFMin
  <2>4. QED  BY <1>1, <2>3 DEF OpToRel
<1>3. PICK s \in S : TRUE
  OBVIOUS
<1>4. k \in Nat /\ \A i \in S : i <= k /\ i \in 1 .. n
  OBVIOUS
<1>5. k \in S
  <2>1. SUFFICES ASSUME k \notin S PROVE FALSE
    OBVIOUS
  <2>2. \A i \in S : i <= k - 1
    BY <1>4, <2>1
  <2>3. k - 1 \in Nat
    BY <1>3, <1>4
  <2>4. k - 1 \in B
    BY <2>2, <2>3
  <2>5. QED  BY <1>2, <1>4, <2>4
<1>6. QED  BY <1>4, <1>5 DEF Latest

LEMMA SummariesIn ==
    ASSUME NEW l \in Seq(Entry)
    PROVE  /\ Len(l) \in Nat /\ Summaries(l) \subseteq 1 .. Len(l) /\ Visible(l) \subseteq 1 .. Len(l)
           /\ AfterSummary(l) \subseteq Visible(l) /\ Overflow(l) \subseteq AfterSummary(l)
           /\ \A i \in AfterSummary(l) : i > Through(l)
           /\ Through(l) \in 0 .. MaxLog
<1>1. Len(l) \in Nat /\ DOMAIN l = 1 .. Len(l)
  OBVIOUS
<1>2. Summaries(l) \subseteq 1 .. Len(l) /\ Visible(l) \subseteq 1 .. Len(l)
  BY <1>1 DEF Summaries, Visible
<1>3. AfterSummary(l) \subseteq Visible(l) /\ \A i \in AfterSummary(l) : i > Through(l)
  BY DEF AfterSummary
<1>4. Overflow(l) \subseteq AfterSummary(l)
  BY DEF Overflow
<1>5. Through(l) \in 0 .. MaxLog
  <2>1. CASE Summaries(l) = {}
    BY <2>1, CompactionAssumption DEF Through
  <2>2. CASE Summaries(l) # {}
    <3>1. Latest(Summaries(l)) \in 1 .. Len(l)
      BY <1>1, <1>2, <2>2, LatestIs
    <3>2. l[Latest(Summaries(l))] \in Entry
      BY <1>1, <3>1
    <3>3. QED  BY <2>2, <3>2 DEF Through, Entry
  <2>3. QED  BY <2>1, <2>2
<1>6. QED  BY <1>1, <1>2, <1>3, <1>4, <1>5

\* What overflows comes before what is kept.
LEMMA OverflowClosed ==
    ASSUME NEW l \in Seq(Entry), NEW i \in Overflow(l), NEW j \in AfterSummary(l), j <= i
    PROVE  j \in Overflow(l)
<1>. DEFINE Above(k) == {x \in AfterSummary(l) : x > k}
<1>1. AfterSummary(l) \subseteq 1 .. Len(l) /\ Len(l) \in Nat /\ i \in AfterSummary(l)
  BY SummariesIn
<1>2. Above(i) \subseteq Above(j)
  BY <1>1
<1>3. IsFiniteSet(1 .. Len(l))
  BY <1>1, FS_Interval
<1>4. Above(j) \in SUBSET (1 .. Len(l))
  BY <1>1
<1>5. IsFiniteSet(Above(j))
  BY <1>3, <1>4, FS_Subset
<1>6. Cardinality(Above(i)) <= Cardinality(Above(j)) /\ IsFiniteSet(Above(i))
  BY <1>2, <1>5, FS_Subset
<1>7. Cardinality(Above(i)) \in Nat /\ Cardinality(Above(j)) \in Nat
  BY <1>5, <1>6, FS_CardinalityType
<1>8. Cardinality(Above(i)) >= KeepRecent
  BY DEF Overflow
<1>9. KeepRecent \in Int
  BY CompactionAssumption DEF KeepRecent
<1>10. Cardinality(Above(j)) >= KeepRecent
  BY <1>6, <1>7, <1>8, <1>9
<1>11. QED  BY <1>10 DEF Overflow

LEMMA BatchClosed ==
    ASSUME NEW l \in Seq(Entry)
    PROVE  /\ Batch(l) \subseteq AfterSummary(l)
           /\ \A i \in Batch(l), j \in AfterSummary(l) : j <= i => j \in Batch(l)
<1>1. /\ PulledBack(l) \subseteq Overflow(l)
      /\ \A i \in PulledBack(l), j \in Overflow(l) : j <= i => j \in PulledBack(l)
  <2>. DEFINE o == Overflow(l)
              Upto(k) == {i \in o : i <= k}
              stops == {k \in o : ~Unpaired(l, Upto(k), k) /\ \A i \in o : i > k => Unpaired(l, Upto(i), i)}
  <2>1. PulledBack(l) = IF stops = {} THEN {} ELSE Upto(Latest(stops))
    BY DEF PulledBack
  <2>2. o \subseteq 1 .. Len(l) /\ Len(l) \in Nat
    BY SummariesIn
  <2>3. CASE stops = {}
    BY <2>1, <2>3
  <2>4. CASE stops # {}
    <3>1. stops \in SUBSET (1 .. Len(l))
      BY <2>2
    <3>2. Latest(stops) \in 1 .. Len(l)
      <4>. HIDE DEF stops
      <4>1. QED  BY <2>2, <2>4, <3>1, LatestIs
    <3>3. PulledBack(l) = Upto(Latest(stops))
      BY <2>1, <2>4
    <3>. HIDE DEF stops
    <3>4. QED  BY <2>2, <3>2, <3>3
  <2>5. QED  BY <2>3, <2>4
<1>2. Overflow(l) \subseteq AfterSummary(l)
  BY SummariesIn
<1>3. Batch(l) = {} \/ Batch(l) = PulledBack(l)
  BY DEF Batch
<1>4. AfterSummary(l) \subseteq 1 .. Len(l)
  BY SummariesIn
<1>5. QED  BY <1>1, <1>2, <1>3, <1>4, OverflowClosed

-----------------------------------------------------------------------------
(* A fold stands for the log up to its boundary.                           *)

Covers(l, f) ==
    /\ f \in Fold /\ f.through <= Len(l)
    /\ \A i \in Visible(l) : i > f.through \/ i \in f.says

\* The summary in force covers the log.
Covered(l) ==
    /\ Through(l) <= Len(l)
    /\ \A i \in Visible(l) : i > Through(l) \/ \E s \in LatestSummary(l) : i \in l[s].says

LEMMA FoldCovers ==
    ASSUME NEW l \in Seq(Entry), Len(l) <= MaxLog, Covered(l), Batch(l) # {}
    PROVE  Covers(l, FoldOf(l)) /\ FoldOf(l).through >= Through(l)
<1>. DEFINE b == Batch(l)
            f == FoldOf(l)
<1>1. /\ Len(l) \in Nat /\ Visible(l) \subseteq 1 .. Len(l) /\ AfterSummary(l) \subseteq Visible(l)
      /\ Through(l) \in 0 .. MaxLog /\ \A i \in AfterSummary(l) : i > Through(l)
  BY SummariesIn
<1>2. b \subseteq AfterSummary(l) /\ \A i \in b, j \in AfterSummary(l) : j <= i => j \in b
  BY BatchClosed
<1>3. b \in SUBSET (1 .. Len(l))
  BY <1>1, <1>2
<1>4. Latest(b) \in b /\ Latest(b) \in 1 .. Len(l) /\ Latest(b) > Through(l)
  BY <1>1, <1>2, <1>3, LatestIs
<1>5. f.through = Latest(b)
  BY <1>1, <1>4 DEF FoldOf
<1>6. f.says = b \cup UNION {l[i].says : i \in LatestSummary(l)}
  BY DEF FoldOf
<1>7. f.says \subseteq 1 .. MaxLog
  <2>1. ASSUME NEW i \in LatestSummary(l) PROVE l[i].says \subseteq 1 .. MaxLog
    <3>1. Summaries(l) # {} /\ i = Latest(Summaries(l))
      BY <2>1 DEF LatestSummary
    <3>2. i \in 1 .. Len(l)
      BY <3>1, SummariesIn, LatestIs
    <3>3. l[i] \in Entry
      BY <3>2
    <3>4. QED  BY <3>3 DEF Entry
  <2>2. b \subseteq 1 .. MaxLog
    BY <1>1, <1>3, CompactionAssumption
  <2>3. QED  BY <1>6, <2>1, <2>2
<1>8. f \in Fold
  <2>1. f = [through |-> f.through, says |-> f.says]
    BY DEF FoldOf
  <2>2. f.through \in 0 .. MaxLog
    BY <1>1, <1>4, <1>5, CompactionAssumption
  <2>3. QED  BY <1>7, <2>1, <2>2 DEF Fold
<1>9. ASSUME NEW i \in Visible(l), ~(i > f.through) PROVE i \in f.says
  <2>1. CASE i > Through(l)
    <3>1. i \in AfterSummary(l) /\ i <= Latest(b)
      BY <1>1, <1>4, <1>5, <1>9, <2>1 DEF AfterSummary
    <3>2. QED  BY <1>2, <1>4, <1>6, <3>1
  <2>2. CASE ~(i > Through(l))
    BY <1>6, <2>2 DEF Covered
  <2>3. QED  BY <2>1, <2>2
<1>10. QED  BY <1>1, <1>4, <1>5, <1>8, <1>9 DEF Covers

LEMMA AppendIs ==
    ASSUME NEW l \in Seq(Entry), NEW e \in Entry
    PROVE  /\ Append(l, e) \in Seq(Entry) /\ Len(Append(l, e)) = Len(l) + 1 /\ Len(l) \in Nat
           /\ DOMAIN l = 1 .. Len(l) /\ DOMAIN Append(l, e) = 1 .. Len(l) + 1
           /\ \A i \in 1 .. Len(l) : Append(l, e)[i] = l[i]
           /\ Append(l, e)[Len(l) + 1] = e
  OBVIOUS

\* What is covered stays covered when something is appended.
LEMMA CoversMore ==
    ASSUME NEW l \in Seq(Entry), NEW e \in Entry, NEW f, Covers(l, f)
    PROVE  Covers(Append(l, e), f)
<1>. DEFINE m == Append(l, e)
<1>1. /\ Len(m) = Len(l) + 1 /\ Len(l) \in Nat /\ DOMAIN l = 1 .. Len(l) /\ DOMAIN m = 1 .. Len(l) + 1
      /\ \A i \in 1 .. Len(l) : m[i] = l[i]
  BY AppendIs
<1>2. f \in Fold /\ f.through <= Len(l) /\ f.through \in Nat
  BY CompactionAssumption DEF Covers, Fold
<1>. HIDE DEF m
<1>3. \A i \in Visible(m) : i \in Visible(l) \/ i = Len(l) + 1
  BY <1>1 DEF Visible
<1>4. QED  BY <1>1, <1>2, <1>3 DEF Covers, m

\* An entry that is no summary leaves the boundary where it is.
LEMMA AppendPlain ==
    ASSUME NEW l \in Seq(Entry), NEW e \in Entry, e.kind # "summary", Covered(l)
    PROVE  /\ Summaries(Append(l, e)) = Summaries(l) /\ Through(Append(l, e)) = Through(l)
           /\ Covered(Append(l, e))
<1>. DEFINE m == Append(l, e)
<1>1. /\ Len(m) = Len(l) + 1 /\ Len(l) \in Nat /\ DOMAIN l = 1 .. Len(l) /\ DOMAIN m = 1 .. Len(l) + 1
      /\ \A i \in 1 .. Len(l) : m[i] = l[i]
      /\ m[Len(l) + 1] = e
  BY AppendIs
<1>. HIDE DEF m
<1>2. Summaries(m) = Summaries(l)
  BY <1>1 DEF Summaries
<1>3. Summaries(l) # {} => Latest(Summaries(l)) \in 1 .. Len(l)
  BY SummariesIn, LatestIs
<1>4. Through(m) = Through(l)
  BY <1>1, <1>2, <1>3 DEF Through
<1>5. LatestSummary(m) = LatestSummary(l) /\ \A s \in LatestSummary(l) : m[s] = l[s]
  BY <1>1, <1>2, <1>3 DEF LatestSummary
<1>6. \A i \in Visible(m) : i \in Visible(l) \/ i = Len(l) + 1
  BY <1>1 DEF Visible
<1>7. Through(l) \in Nat
  BY SummariesIn, CompactionAssumption
<1>8. Covered(m)
  BY <1>1, <1>4, <1>5, <1>6, <1>7 DEF Covered
<1>9. QED  BY <1>2, <1>4, <1>8 DEF m

\* A summary moves the boundary to that of its fold.
LEMMA AppendSummary ==
    ASSUME NEW l \in Seq(Entry), NEW f, Covers(l, f)
    PROVE  /\ Summary(f) \in Entry /\ Through(Append(l, Summary(f))) = f.through
           /\ Len(l) + 1 \in Summaries(Append(l, Summary(f)))
           /\ Covered(Append(l, Summary(f)))
<1>. DEFINE e == Summary(f)
            m == Append(l, e)
<1>1. e \in Entry /\ e.kind = "summary" /\ e.through = f.through /\ e.says = f.says
  BY DEF Summary, Entry, Covers, Fold
<1>2. /\ Len(m) = Len(l) + 1 /\ Len(l) \in Nat /\ DOMAIN l = 1 .. Len(l) /\ DOMAIN m = 1 .. Len(l) + 1
      /\ \A i \in 1 .. Len(l) : m[i] = l[i]
      /\ m[Len(l) + 1] = e /\ m \in Seq(Entry)
  BY <1>1, AppendIs
<1>. HIDE DEF m, e
<1>3. Len(l) + 1 \in Summaries(m) /\ Summaries(m) \subseteq 1 .. Len(l) + 1
  BY <1>1, <1>2 DEF Summaries
<1>4. Latest(Summaries(m)) = Len(l) + 1
  <2>1. Latest(Summaries(m)) \in Summaries(m) /\ \A j \in Summaries(m) : j <= Latest(Summaries(m))
    <3>1. Len(l) + 1 \in Nat /\ Summaries(m) \in SUBSET (1 .. Len(l) + 1) /\ Summaries(m) # {}
      BY <1>2, <1>3
    <3>2. QED  BY <3>1, LatestIs
  <2>2. QED  BY <1>2, <1>3, <2>1
<1>5. Through(m) = f.through /\ LatestSummary(m) = {Len(l) + 1}
  BY <1>1, <1>2, <1>3, <1>4 DEF Through, LatestSummary
<1>6. \A i \in Visible(m) : i \in Visible(l)
  BY <1>1, <1>2 DEF Visible
<1>7. f.through \in Nat /\ f.through <= Len(l)
  BY CompactionAssumption DEF Covers, Fold
<1>8. Covered(m)
  BY <1>1, <1>2, <1>5, <1>6, <1>7 DEF Covered, Covers
<1>9. QED  BY <1>1, <1>3, <1>5, <1>8 DEF m, e

-----------------------------------------------------------------------------
(* The invariant: what a turn and a pass have in hand.                     *)

TurnOK(p) ==
    turn[p].at = "folding" =>
        /\ Covers(log, turn[p].fold)
        /\ Holds(p, "turn") => turn[p].fold.through >= Through(log)

PassOK(p) ==
    pass[p].at \in {"summarizing", "holding", "writing"} =>
        /\ Covers(log, pass[p].fold) /\ pass[p].snap <= Len(log)
        /\ StillFresh(log, pass[p].snap) => pass[p].fold.through >= Through(log)
        /\ pass[p].at = "writing" /\ Holds(p, "pass") => StillFresh(log, pass[p].snap)

CompactInv == CompactionTypeOK /\ Covered(log) /\ \A p \in Procs : TurnOK(p) /\ PassOK(p)

TurnRec == [at : {"off", "open", "folding", "running"}, fold : Fold]
PassRec == [at : {"off", "summarizing", "holding", "writing", "leaving"}, fold : Fold, snap : 0 .. MaxLog]

LEMMA NoFoldTyped == NoFold \in Fold
  BY CompactionAssumption DEF NoFold, Fold

\* The parts of the types.
LEMMA TypesOf ==
    ASSUME CompactInv
    PROVE  /\ log \in Seq(Entry) /\ Len(log) \in Nat /\ Len(log) <= MaxLog
           /\ lease \in {Nothing} \cup (Procs \X {"turn", "pass"})
           /\ turn \in [Procs -> TurnRec] /\ pass \in [Procs -> PassRec] /\ due \in [Procs -> BOOLEAN]
  BY DEF CompactInv, CompactionTypeOK, TurnRec, PassRec

LEMMA InvOf ==
    ASSUME log' \in Seq(Entry), Len(log') <= MaxLog, lease' \in {Nothing} \cup (Procs \X {"turn", "pass"}),
           turn' \in [Procs -> TurnRec], pass' \in [Procs -> PassRec], due' \in [Procs -> BOOLEAN],
           Covered(log'), \A p \in Procs : TurnOK(p)' /\ PassOK(p)'
    PROVE  CompactInv'
  BY DEF CompactInv, CompactionTypeOK, TurnRec, PassRec

\* What a process has in hand is what it had.
TurnStays(p) ==
    turn'[p].at = "folding" =>
        turn[p].at = "folding" /\ turn'[p].fold = turn[p].fold /\ (Holds(p, "turn")' => Holds(p, "turn"))

PassStays(p) ==
    pass'[p].at \in {"summarizing", "holding", "writing"} =>
        /\ pass[p].at \in {"summarizing", "holding", "writing"}
        /\ pass'[p].fold = pass[p].fold /\ pass'[p].snap = pass[p].snap
        /\ pass'[p].at = "writing" /\ Holds(p, "pass")' => pass[p].at = "writing" /\ Holds(p, "pass")

LEMMA TurnKept == ASSUME NEW p \in Procs, TurnOK(p), TurnStays(p), UNCHANGED log PROVE TurnOK(p)'
  BY DEF TurnOK, TurnStays

LEMMA PassKept == ASSUME NEW p \in Procs, PassOK(p), PassStays(p), UNCHANGED log PROVE PassOK(p)'
  BY DEF PassOK, PassStays

LEMMA SameLog ==
    ASSUME CompactInv, UNCHANGED log, lease' \in {Nothing} \cup (Procs \X {"turn", "pass"}),
           turn' \in [Procs -> TurnRec], pass' \in [Procs -> PassRec], due' \in [Procs -> BOOLEAN],
           \A p \in Procs : (TurnStays(p) \/ TurnOK(p)') /\ (PassStays(p) \/ PassOK(p)')
    PROVE  CompactInv'
<1>1. Covered(log')
  BY DEF CompactInv
<1>2. log' \in Seq(Entry) /\ Len(log') <= MaxLog
  BY TypesOf
<1>3. \A p \in Procs : TurnOK(p)' /\ PassOK(p)'
  BY TurnKept, PassKept DEF CompactInv
<1>4. QED  BY <1>1, <1>2, <1>3, InvOf

\* The lease has one holder.
LEMMA OneHolder ==
    ASSUME NEW p \in Procs, NEW q \in Procs, NEW a \in {"turn", "pass"}, NEW b \in {"turn", "pass"},
           Holds(p, a), Holds(q, b)
    PROVE  p = q /\ a = b
  BY DEF Holds

\* The lease is handed to p, or is free.
LEMMA LeaseMoves ==
    ASSUME NEW p \in Procs, NEW a \in {"turn", "pass"}, lease' \in {Nothing, lease, <<p, a>>}
    PROVE  \A q \in Procs, b \in {"turn", "pass"} : Holds(q, b)' => Holds(q, b) \/ (q = p /\ b = a)
<1>1. ASSUME NEW q \in Procs, NEW b \in {"turn", "pass"}, lease' = <<q, b>> PROVE lease = <<q, b>> \/ (q = p /\ b = a)
  <2>1. CASE lease' = Nothing
    BY <1>1, <2>1, CallsAssumption
  <2>2. CASE lease' = lease
    BY <1>1, <2>2
  <2>3. CASE lease' = <<p, a>>
    BY <1>1, <2>3
  <2>4. QED  BY <2>1, <2>2, <2>3
<1>2. QED  BY <1>1 DEF Holds

-----------------------------------------------------------------------------
(* The steps.                                                              *)

LEMMA TurnTakesKeeps == ASSUME CompactInv, NEW p \in Procs, TurnTakes(p) PROVE CompactInv'
<1>1. /\ turn[p].at = "off" /\ lease' = <<p, "turn">> /\ turn' = [turn EXCEPT ![p].at = "open"]
      /\ UNCHANGED <<log, pass, due>>
  BY DEF TurnTakes
<1>2. turn \in [Procs -> TurnRec] /\ pass \in [Procs -> PassRec] /\ due \in [Procs -> BOOLEAN]
  BY TypesOf
<1>3. turn' \in [Procs -> TurnRec] /\ turn'[p].at = "open" /\ \A q \in Procs : q # p => turn'[q] = turn[q]
  BY <1>1, <1>2 DEF TurnRec
<1>4. \A q \in Procs, b \in {"turn", "pass"} : Holds(q, b)' => Holds(q, b) \/ (q = p /\ b = "turn")
  BY <1>1, LeaseMoves
<1>5. \A q \in Procs : TurnStays(q) /\ PassStays(q)
  BY <1>1, <1>3, <1>4 DEF TurnStays, PassStays
<1>6. lease' \in {Nothing} \cup (Procs \X {"turn", "pass"})
  BY <1>1
<1>7. QED  BY <1>1, <1>2, <1>3, <1>5, <1>6, SameLog

LEMMA TurnReadsKeeps == ASSUME CompactInv, NEW p \in Procs, TurnReads(p) PROVE CompactInv'
<1>1. turn[p].at = "open" /\ UNCHANGED <<log, lease, pass, due>>
  BY DEF TurnReads
<1>2. turn \in [Procs -> TurnRec] /\ pass \in [Procs -> PassRec] /\ due \in [Procs -> BOOLEAN]
      /\ lease \in {Nothing} \cup (Procs \X {"turn", "pass"}) /\ log \in Seq(Entry) /\ Len(log) <= MaxLog
  BY TypesOf
<1>3. \A q \in Procs : PassStays(q) /\ \A b \in {"turn", "pass"} : Holds(q, b)' <=> Holds(q, b)
  BY <1>1 DEF PassStays, Holds
<1>4. CASE Batch(log) # {} /\ turn' = [turn EXCEPT ![p] = [at |-> "folding", fold |-> FoldOf(log)]]
  <2>1. Covers(log, FoldOf(log)) /\ FoldOf(log).through >= Through(log)
    BY <1>2, <1>4, FoldCovers DEF CompactInv
  <2>2. FoldOf(log) \in Fold
    BY <2>1 DEF Covers
  <2>3. turn' \in [Procs -> TurnRec] /\ turn'[p].fold = FoldOf(log) /\ \A q \in Procs : q # p => turn'[q] = turn[q]
    BY <1>2, <1>4, <2>2 DEF TurnRec
  <2>4. TurnOK(p)'
    BY <1>1, <2>1, <2>3 DEF TurnOK
  <2>5. \A q \in Procs : q # p => TurnStays(q)
    BY <1>3, <2>3 DEF TurnStays
  <2>6. QED  BY <1>1, <1>2, <1>3, <2>3, <2>4, <2>5, SameLog
<1>5. CASE turn' = [turn EXCEPT ![p].at = "running"]
  <2>1. turn' \in [Procs -> TurnRec] /\ turn'[p].at = "running" /\ \A q \in Procs : q # p => turn'[q] = turn[q]
    BY <1>2, <1>5 DEF TurnRec
  <2>2. \A q \in Procs : TurnStays(q)
    BY <1>3, <2>1 DEF TurnStays
  <2>3. QED  BY <1>1, <1>2, <1>3, <2>1, <2>2, SameLog
<1>6. QED  BY <1>4, <1>5 DEF TurnReads

LEMMA TurnClosesKeeps == ASSUME CompactInv, NEW p \in Procs, TurnCloses(p) PROVE CompactInv'
<1>1. /\ turn' = [turn EXCEPT ![p] = [at |-> "off", fold |-> NoFold]] /\ lease' \in {Nothing, lease}
      /\ due' = [due EXCEPT ![p] = TRUE] /\ UNCHANGED <<log, pass>>
  BY DEF TurnCloses
<1>2. turn \in [Procs -> TurnRec] /\ pass \in [Procs -> PassRec] /\ due \in [Procs -> BOOLEAN]
      /\ lease \in {Nothing} \cup (Procs \X {"turn", "pass"})
  BY TypesOf
<1>3. turn' \in [Procs -> TurnRec] /\ turn'[p].at = "off" /\ \A q \in Procs : q # p => turn'[q] = turn[q]
  BY <1>1, <1>2, NoFoldTyped DEF TurnRec
<1>4. \A q \in Procs : (Holds(q, "turn")' => Holds(q, "turn") \/ q = p) /\ (Holds(q, "pass")' => Holds(q, "pass"))
  BY <1>1, LeaseMoves
<1>5. \A q \in Procs : TurnStays(q) /\ PassStays(q)
  BY <1>1, <1>3, <1>4 DEF TurnStays, PassStays
<1>6. lease' \in {Nothing} \cup (Procs \X {"turn", "pass"}) /\ due' \in [Procs -> BOOLEAN]
  BY <1>1, <1>2
<1>7. QED  BY <1>1, <1>2, <1>3, <1>5, <1>6, SameLog

LEMMA SnapshotsKeeps == ASSUME CompactInv, NEW p \in Procs, PassSnapshots(p) PROVE CompactInv'
<1>. DEFINE n == [at |-> "summarizing", fold |-> FoldOf(log), snap |-> Len(log)]
<1>1. pass[p].at = "off" /\ due' = [due EXCEPT ![p] = FALSE] /\ UNCHANGED <<log, lease, turn>>
  BY DEF PassSnapshots
<1>2. turn \in [Procs -> TurnRec] /\ pass \in [Procs -> PassRec] /\ due \in [Procs -> BOOLEAN]
      /\ lease \in {Nothing} \cup (Procs \X {"turn", "pass"}) /\ log \in Seq(Entry)
      /\ Len(log) \in Nat /\ Len(log) <= MaxLog
  BY TypesOf
<1>3. due' \in [Procs -> BOOLEAN]
  BY <1>1, <1>2
<1>4. \A q \in Procs : TurnStays(q) /\ \A b \in {"turn", "pass"} : Holds(q, b)' <=> Holds(q, b)
  BY <1>1 DEF TurnStays, Holds
<1>5. CASE Batch(log) # {} /\ pass' = [pass EXCEPT ![p] = n]
  <2>1. Covers(log, FoldOf(log)) /\ FoldOf(log).through >= Through(log)
    BY <1>2, <1>5, FoldCovers DEF CompactInv
  <2>2. n \in PassRec /\ n.at = "summarizing" /\ n.fold = FoldOf(log) /\ n.snap = Len(log)
    BY <1>2, <2>1, CompactionAssumption DEF Covers, PassRec
  <2>. HIDE DEF n
  <2>3. pass' \in [Procs -> PassRec] /\ pass'[p] = n /\ \A q \in Procs : q # p => pass'[q] = pass[q]
    BY <1>2, <1>5, <2>2
  <2>4. PassOK(p)'
    BY <1>1, <1>2, <2>1, <2>2, <2>3 DEF PassOK
  <2>5. \A q \in Procs : q # p => PassStays(q)
    BY <1>4, <2>3 DEF PassStays
  <2>6. QED  BY <1>1, <1>2, <1>3, <1>4, <2>3, <2>4, <2>5, SameLog
<1>6. CASE pass' = pass
  <2>1. \A q \in Procs : PassStays(q)
    BY <1>4, <1>6 DEF PassStays
  <2>2. QED  BY <1>1, <1>2, <1>3, <1>4, <1>6, <2>1, SameLog
<1>7. QED  BY <1>5, <1>6 DEF PassSnapshots

LEMMA PassTakesKeeps == ASSUME CompactInv, NEW p \in Procs, PassTakes(p) PROVE CompactInv'
<1>1. /\ pass[p].at = "summarizing" /\ lease' = <<p, "pass">> /\ pass' = [pass EXCEPT ![p].at = "holding"]
      /\ UNCHANGED <<log, turn, due>>
  BY DEF PassTakes
<1>2. turn \in [Procs -> TurnRec] /\ pass \in [Procs -> PassRec] /\ due \in [Procs -> BOOLEAN]
  BY TypesOf
<1>3. /\ pass' \in [Procs -> PassRec] /\ pass'[p].at = "holding" /\ pass'[p].fold = pass[p].fold
      /\ pass'[p].snap = pass[p].snap /\ \A q \in Procs : q # p => pass'[q] = pass[q]
  BY <1>1, <1>2 DEF PassRec
<1>4. \A q \in Procs, b \in {"turn", "pass"} : Holds(q, b)' => Holds(q, b) \/ (q = p /\ b = "pass")
  BY <1>1, LeaseMoves
<1>5. \A q \in Procs : TurnStays(q) /\ PassStays(q)
  BY <1>1, <1>3, <1>4 DEF TurnStays, PassStays
<1>6. lease' \in {Nothing} \cup (Procs \X {"turn", "pass"})
  BY <1>1
<1>7. QED  BY <1>1, <1>2, <1>3, <1>5, <1>6, SameLog

LEMMA PassChecksKeeps == ASSUME CompactInv, NEW p \in Procs, PassChecks(p) PROVE CompactInv'
<1>. DEFINE at == IF StillFresh(log, pass[p].snap) THEN "writing" ELSE "leaving"
<1>1. pass[p].at = "holding" /\ pass' = [pass EXCEPT ![p].at = at] /\ UNCHANGED <<log, lease, turn, due>>
  BY DEF PassChecks
<1>2. turn \in [Procs -> TurnRec] /\ pass \in [Procs -> PassRec] /\ due \in [Procs -> BOOLEAN]
      /\ lease \in {Nothing} \cup (Procs \X {"turn", "pass"})
  BY TypesOf
<1>3. at \in {"writing", "leaving"} /\ (at = "writing" => StillFresh(log, pass[p].snap))
  OBVIOUS
<1>. HIDE DEF at
<1>4. /\ pass' \in [Procs -> PassRec] /\ pass'[p].at = at /\ pass'[p].fold = pass[p].fold
      /\ pass'[p].snap = pass[p].snap /\ \A q \in Procs : q # p => pass'[q] = pass[q]
  BY <1>1, <1>2, <1>3 DEF PassRec
<1>5. \A q \in Procs : TurnStays(q) /\ \A b \in {"turn", "pass"} : Holds(q, b)' <=> Holds(q, b)
  BY <1>1 DEF TurnStays, Holds
<1>6. PassOK(p)'
  BY <1>1, <1>3, <1>4 DEF CompactInv, PassOK
<1>7. \A q \in Procs : q # p => PassStays(q)
  BY <1>4, <1>5 DEF PassStays
<1>8. QED  BY <1>1, <1>2, <1>4, <1>5, <1>6, <1>7, SameLog

LEMMA PassEndsKeeps == ASSUME CompactInv, NEW p \in Procs, PassEnds(p) PROVE CompactInv'
<1>1. /\ pass' = [pass EXCEPT ![p] = [at |-> "off", fold |-> NoFold, snap |-> 0]] /\ lease' \in {Nothing, lease}
      /\ UNCHANGED <<log, turn, due>>
  BY DEF PassEnds
<1>2. turn \in [Procs -> TurnRec] /\ pass \in [Procs -> PassRec] /\ due \in [Procs -> BOOLEAN]
      /\ lease \in {Nothing} \cup (Procs \X {"turn", "pass"})
  BY TypesOf
<1>3. pass' \in [Procs -> PassRec] /\ pass'[p].at = "off" /\ \A q \in Procs : q # p => pass'[q] = pass[q]
  BY <1>1, <1>2, NoFoldTyped, CompactionAssumption DEF PassRec
<1>4. \A q \in Procs : (Holds(q, "turn")' => Holds(q, "turn")) /\ (Holds(q, "pass")' => Holds(q, "pass") \/ q = p)
  BY <1>1, LeaseMoves
<1>5. \A q \in Procs : TurnStays(q) /\ PassStays(q)
  BY <1>1, <1>3, <1>4 DEF TurnStays, PassStays
<1>6. lease' \in {Nothing} \cup (Procs \X {"turn", "pass"})
  BY <1>1, <1>2
<1>7. QED  BY <1>1, <1>2, <1>3, <1>5, <1>6, SameLog

LEMMA LeaseLostKeeps == ASSUME CompactInv, LeaseLost PROVE CompactInv'
<1>1. lease' = Nothing /\ UNCHANGED <<log, turn, pass, due>>
  BY DEF LeaseLost
<1>2. turn \in [Procs -> TurnRec] /\ pass \in [Procs -> PassRec] /\ due \in [Procs -> BOOLEAN]
  BY TypesOf
<1>3. \A q \in Procs : ~Holds(q, "turn")' /\ ~Holds(q, "pass")'
  BY <1>1, CallsAssumption DEF Holds
<1>4. \A q \in Procs : TurnStays(q) /\ PassStays(q)
  BY <1>1, <1>3 DEF TurnStays, PassStays
<1>5. QED  BY <1>1, <1>2, <1>4, SameLog

LEMMA ProcessDiesKeeps == ASSUME CompactInv, NEW p \in Procs, ProcessDies(p) PROVE CompactInv'
<1>1. /\ turn' = [turn EXCEPT ![p] = [at |-> "off", fold |-> NoFold]]
      /\ pass' = [pass EXCEPT ![p] = [at |-> "off", fold |-> NoFold, snap |-> 0]]
      /\ due' = [due EXCEPT ![p] = FALSE] /\ UNCHANGED <<log, lease>>
  BY DEF ProcessDies
<1>2. turn \in [Procs -> TurnRec] /\ pass \in [Procs -> PassRec] /\ due \in [Procs -> BOOLEAN]
      /\ lease \in {Nothing} \cup (Procs \X {"turn", "pass"})
  BY TypesOf
<1>3. pass' \in [Procs -> PassRec] /\ pass'[p].at = "off" /\ \A q \in Procs : q # p => pass'[q] = pass[q]
  BY <1>1, <1>2, NoFoldTyped, CompactionAssumption DEF PassRec
<1>4. turn' \in [Procs -> TurnRec] /\ turn'[p].at = "off" /\ \A q \in Procs : q # p => turn'[q] = turn[q]
  BY <1>1, <1>2, NoFoldTyped DEF TurnRec
<1>5. \A q \in Procs, b \in {"turn", "pass"} : Holds(q, b)' <=> Holds(q, b)
  BY <1>1 DEF Holds
<1>6. \A q \in Procs : TurnStays(q) /\ PassStays(q)
  BY <1>3, <1>4, <1>5 DEF TurnStays, PassStays
<1>7. due' \in [Procs -> BOOLEAN]
  BY <1>1, <1>2
<1>8. QED  BY <1>1, <1>2, <1>3, <1>4, <1>6, <1>7, SameLog

\* What is in hand when something is appended: a summary makes the plans of the
\* passes stale, and a turn that holds the lease is the one that appends.
TurnHeld(p) ==
    turn'[p].at = "folding" => turn[p].at = "folding" /\ turn'[p].fold = turn[p].fold

PassHeld(p) ==
    pass'[p].at \in {"summarizing", "holding", "writing"} =>
        /\ pass[p].at = pass'[p].at /\ pass'[p].fold = pass[p].fold /\ pass'[p].snap = pass[p].snap

LEMMA AppendsPlain ==
    ASSUME CompactInv, NEW e \in Entry, e.kind # "summary", Room, log' = Append(log, e),
           UNCHANGED <<lease, turn, pass, due>>
    PROVE  CompactInv'
<1>1. turn \in [Procs -> TurnRec] /\ pass \in [Procs -> PassRec] /\ due \in [Procs -> BOOLEAN]
      /\ lease \in {Nothing} \cup (Procs \X {"turn", "pass"})
      /\ log \in Seq(Entry) /\ Len(log) \in Nat
  BY TypesOf
<1>2. log' \in Seq(Entry) /\ Len(log') = Len(log) + 1 /\ Len(log') <= MaxLog
  BY <1>1, AppendIs, CompactionAssumption DEF Room
<1>3. Summaries(log') = Summaries(log) /\ Through(log') = Through(log) /\ Covered(log')
  BY <1>1, AppendPlain DEF CompactInv
<1>4. \A f : Covers(log, f) => Covers(log', f)
  BY <1>1, CoversMore
<1>5. \A n : StillFresh(log', n) <=> StillFresh(log, n)
  BY <1>3 DEF StillFresh
<1>6. \A q \in Procs, b \in {"turn", "pass"} : Holds(q, b)' <=> Holds(q, b)
  BY DEF Holds
<1>7. ASSUME NEW p \in Procs PROVE TurnOK(p)'
  BY <1>3, <1>4, <1>6 DEF CompactInv, TurnOK
<1>8. ASSUME NEW p \in Procs PROVE PassOK(p)'
  <2>1. PassOK(p) /\ pass[p].snap \in Nat
    BY <1>1, CompactionAssumption DEF CompactInv, PassRec
  <2>2. QED  BY <1>1, <1>2, <1>3, <1>4, <1>5, <1>6, <2>1 DEF PassOK
<1>9. QED  BY <1>1, <1>2, <1>3, <1>7, <1>8, InvOf

LEMMA AppendsSummary ==
    ASSUME CompactInv, NEW p \in Procs, NEW a \in {"turn", "pass"}, Holds(p, a), NEW f, Covers(log, f), Room,
           log' = Append(log, Summary(f)), UNCHANGED <<lease, due>>,
           turn' \in [Procs -> TurnRec], pass' \in [Procs -> PassRec],
           \A q \in Procs : TurnHeld(q) /\ PassHeld(q),
           a = "turn" => turn'[p].at # "folding", a = "pass" => pass'[p].at # "writing"
    PROVE  CompactInv'
<1>1. turn \in [Procs -> TurnRec] /\ pass \in [Procs -> PassRec] /\ due \in [Procs -> BOOLEAN]
      /\ lease \in {Nothing} \cup (Procs \X {"turn", "pass"})
      /\ log \in Seq(Entry) /\ Len(log) \in Nat
  BY TypesOf
<1>2. /\ Summary(f) \in Entry /\ Covered(log') /\ Len(log) + 1 \in Summaries(log')
  BY <1>1, AppendSummary
<1>3. log' \in Seq(Entry) /\ Len(log') = Len(log) + 1 /\ Len(log') <= MaxLog
  BY <1>1, <1>2, AppendIs, CompactionAssumption DEF Room
<1>4. \A g : Covers(log, g) => Covers(log', g)
  BY <1>1, <1>2, CoversMore
<1>5. \A q \in Procs, b \in {"turn", "pass"} : Holds(q, b)' => q = p /\ b = a
  BY OneHolder DEF Holds
<1>6. ASSUME NEW q \in Procs PROVE TurnOK(q)'
  BY <1>4, <1>5 DEF CompactInv, TurnOK, TurnHeld
<1>7. ASSUME NEW q \in Procs PROVE PassOK(q)'
  <2>1. PassOK(q) /\ pass[q].snap \in Nat
    BY <1>1, CompactionAssumption DEF CompactInv, PassRec
  <2>2. SUFFICES ASSUME pass'[q].at \in {"summarizing", "holding", "writing"}
                 PROVE  /\ Covers(log', pass'[q].fold) /\ pass'[q].snap <= Len(log')
                        /\ ~StillFresh(log', pass'[q].snap)
                        /\ ~(pass'[q].at = "writing" /\ Holds(q, "pass")')
    BY DEF PassOK
  <2>3. /\ pass[q].at \in {"summarizing", "holding", "writing"}
        /\ pass'[q].fold = pass[q].fold /\ pass'[q].snap = pass[q].snap
    BY <2>2 DEF PassHeld
  <2>4. Covers(log, pass[q].fold) /\ pass[q].snap <= Len(log)
    BY <2>1, <2>3 DEF PassOK
  <2>5. ~StillFresh(log', pass[q].snap)
    BY <1>1, <1>2, <2>1, <2>4 DEF StillFresh
  <2>6. ~(pass'[q].at = "writing" /\ Holds(q, "pass")')
    BY <1>5
  <2>7. QED  BY <1>1, <1>3, <1>4, <2>1, <2>3, <2>4, <2>5, <2>6
<1>8. QED  BY <1>1, <1>2, <1>3, <1>6, <1>7, InvOf

\* A fold is written at or after the boundary of the summary in force.
LEMMA TurnFoldsAt ==
    ASSUME CompactInv, NEW p \in Procs, TurnFolds(p)
    PROVE  /\ Covers(log, turn[p].fold) /\ turn[p].fold.through >= Through(log)
           /\ log' = Append(log, Summary(turn[p].fold)) /\ log \in Seq(Entry)
  BY TypesOf DEF TurnFolds, CompactInv, TurnOK

LEMMA PassWritesAt ==
    ASSUME CompactInv, NEW p \in Procs, PassWrites(p)
    PROVE  /\ Covers(log, pass[p].fold) /\ pass[p].fold.through >= Through(log)
           /\ log' = Append(log, Summary(pass[p].fold)) /\ log \in Seq(Entry)
  BY TypesOf DEF PassWrites, CompactInv, PassOK

LEMMA TurnFoldsKeeps == ASSUME CompactInv, NEW p \in Procs, TurnFolds(p) PROVE CompactInv'
<1>1. /\ Holds(p, "turn") /\ Room /\ turn' = [turn EXCEPT ![p] = [at |-> "running", fold |-> NoFold]]
      /\ UNCHANGED <<lease, pass, due>>
  BY DEF TurnFolds
<1>2. turn \in [Procs -> TurnRec] /\ pass \in [Procs -> PassRec]
  BY TypesOf
<1>3. turn' \in [Procs -> TurnRec] /\ turn'[p].at = "running" /\ \A q \in Procs : q # p => turn'[q] = turn[q]
  BY <1>1, <1>2, NoFoldTyped DEF TurnRec
<1>4. \A q \in Procs : TurnHeld(q) /\ PassHeld(q)
  BY <1>1, <1>3 DEF TurnHeld, PassHeld
<1>5. Covers(log, turn[p].fold) /\ log' = Append(log, Summary(turn[p].fold))
  BY TurnFoldsAt
<1>6. QED  BY <1>1, <1>2, <1>3, <1>4, <1>5, AppendsSummary

LEMMA PassWritesKeeps == ASSUME CompactInv, NEW p \in Procs, PassWrites(p) PROVE CompactInv'
<1>1. /\ Holds(p, "pass") /\ Room /\ pass' = [pass EXCEPT ![p].at = "leaving"]
      /\ UNCHANGED <<lease, turn, due>>
  BY DEF PassWrites
<1>2. turn \in [Procs -> TurnRec] /\ pass \in [Procs -> PassRec]
  BY TypesOf
<1>3. pass' \in [Procs -> PassRec] /\ pass'[p].at = "leaving" /\ \A q \in Procs : q # p => pass'[q] = pass[q]
  BY <1>1, <1>2 DEF PassRec
<1>4. \A q \in Procs : TurnHeld(q) /\ PassHeld(q)
  BY <1>1, <1>3 DEF TurnHeld, PassHeld
<1>5. Covers(log, pass[p].fold) /\ log' = Append(log, Summary(pass[p].fold))
  BY PassWritesAt
<1>6. QED  BY <1>1, <1>2, <1>3, <1>4, <1>5, AppendsSummary

LEMMA TurnEmitsKeeps ==
    ASSUME CompactInv, NEW p \in Procs, NEW k \in Written, NEW c \in ToolCalls \cup {Nothing}, TurnEmits(p, k, c)
    PROVE  CompactInv' /\ Through(log') = Through(log)
<1>. DEFINE e == [kind |-> k, call |-> c, through |-> 0, says |-> {}]
<1>1. e \in Entry /\ e.kind # "summary"
  BY EntryKindsAssumption, CompactionAssumption DEF Entry, EntryKinds
<1>2. Room /\ log' = Append(log, e) /\ UNCHANGED <<lease, turn, pass, due>>
  BY DEF TurnEmits
<1>3. log \in Seq(Entry) /\ Covered(log)
  BY TypesOf DEF CompactInv
<1>. HIDE DEF e
<1>4. Through(log') = Through(log)
  BY <1>1, <1>2, <1>3, AppendPlain
<1>5. QED  BY <1>1, <1>2, <1>4, AppendsPlain

LEMMA CompactInitInv == CompactionInit => CompactInv
<1>. SUFFICES ASSUME CompactionInit PROVE CompactInv
  OBVIOUS
<1>1. log = <<>> /\ Summaries(log) = {} /\ Visible(log) = {}
  BY DEF CompactionInit, Summaries, Visible
<1>2. Through(log) = 0
  BY <1>1 DEF Through
<1>3. Covered(log)
  BY <1>1, <1>2 DEF Covered
<1>4. CompactionTypeOK
  BY <1>1, NoFoldTyped, CompactionAssumption DEF CompactionInit, CompactionTypeOK
<1>5. \A p \in Procs : TurnOK(p) /\ PassOK(p)
  BY DEF CompactionInit, TurnOK, PassOK
<1>6. QED  BY <1>3, <1>4, <1>5 DEF CompactInv

LEMMA CompactNextInv ==
    CompactInv /\ [CompactionNext]_compactionVars => CompactInv' /\ Through(log') >= Through(log)
<1>. SUFFICES ASSUME CompactInv, [CompactionNext]_compactionVars
              PROVE  CompactInv' /\ Through(log') >= Through(log)
  OBVIOUS
<1>1. Through(log) \in Nat
  BY TypesOf, SummariesIn, CompactionAssumption
<1>2. CASE UNCHANGED compactionVars
  BY <1>1, <1>2 DEF compactionVars, CompactInv, CompactionTypeOK, Covered, TurnOK, PassOK, Holds
<1>3. CASE LeaseLost
  BY <1>1, <1>3, LeaseLostKeeps DEF LeaseLost
<1>4. ASSUME NEW p \in Procs, TurnFolds(p) PROVE CompactInv' /\ Through(log') >= Through(log)
  <2>1. Through(log') >= Through(log)
    BY <1>4, TurnFoldsAt, AppendSummary
  <2>2. QED  BY <1>4, <2>1, TurnFoldsKeeps
<1>5. ASSUME NEW p \in Procs, PassWrites(p) PROVE CompactInv' /\ Through(log') >= Through(log)
  <2>1. Through(log') >= Through(log)
    BY <1>5, PassWritesAt, AppendSummary
  <2>2. QED  BY <1>5, <2>1, PassWritesKeeps
<1>6. ASSUME NEW p \in Procs, NEW k \in Written, NEW c \in ToolCalls \cup {Nothing}, TurnEmits(p, k, c)
      PROVE  CompactInv' /\ Through(log') >= Through(log)
  BY <1>1, <1>6, TurnEmitsKeeps
<1>7. ASSUME NEW p \in Procs, TurnTakes(p) \/ TurnReads(p) \/ TurnCloses(p)
      PROVE  CompactInv' /\ Through(log') >= Through(log)
  <2>1. UNCHANGED log
    BY <1>7 DEF TurnTakes, TurnReads, TurnCloses
  <2>2. CompactInv'
    BY <1>7, TurnTakesKeeps, TurnReadsKeeps, TurnClosesKeeps
  <2>3. QED  BY <1>1, <2>1, <2>2
<1>8. ASSUME NEW p \in Procs,
             PassSnapshots(p) \/ PassTakes(p) \/ PassChecks(p) \/ PassEnds(p) \/ ProcessDies(p)
      PROVE  CompactInv' /\ Through(log') >= Through(log)
  <2>1. UNCHANGED log
    BY <1>8 DEF PassSnapshots, PassTakes, PassChecks, PassEnds, ProcessDies
  <2>2. CompactInv'
    BY <1>8, SnapshotsKeeps, PassTakesKeeps, PassChecksKeeps, PassEndsKeeps, ProcessDiesKeeps
  <2>3. QED  BY <1>1, <2>1, <2>2
<1>9. QED  BY <1>2, <1>3, <1>4, <1>5, <1>6, <1>7, <1>8 DEF CompactionNext, ProcNext

LEMMA CompactInvariant == CompactionSpec => []CompactInv
<1>1. CompactInv /\ [CompactionNext]_compactionVars => CompactInv'
  BY CompactNextInv
<1>2. QED  BY <1>1, CompactInitInv, PTL DEF CompactionSpec

\* Every reachable state of a session that is compacted is well typed.
THEOREM CompactionTypeCorrect == CompactionSpec => []CompactionTypeOK
<1>1. CompactInv => CompactionTypeOK
  BY DEF CompactInv
<1>2. QED  BY <1>1, CompactInvariant, PTL

\* Compaction loses nothing of a session, whichever turns and passes interleave.
THEOREM CompactionLosesNothing == CompactionSpec => []NothingLost
<1>1. CompactInv => NothingLost
  BY DEF CompactInv, Covered, NothingLost
<1>2. QED  BY <1>1, CompactInvariant, PTL

\* The boundary of the model's context never moves back.
THEOREM WindowMovesOn == CompactionSpec => WindowNeverRegresses
<1>1. CompactInv /\ [CompactionNext]_compactionVars => [Through(log') >= Through(log)]_compactionVars
  BY CompactNextInv
<1>2. QED  BY <1>1, CompactInvariant, PTL DEF CompactionSpec, WindowNeverRegresses

-----------------------------------------------------------------------------
(* The published app.  What is left of a program is one of a few sequences *)
(* of statements.                                                          *)

AfterApply     == <<"endpoint", "running", "applied">>
AfterEndpoint  == <<"running", "applied">>
AfterRunning   == <<"applied">>
AfterDestroy   == <<"archived", "withdrawn">>
AfterArchived  == <<"withdrawn">>
Publication    == <<"version">> \o Place
RollBack       == <<"current">> \o Place

Downs == {TakeDown, AfterDestroy, AfterArchived, <<>>}
Ups   == {Place, AfterApply, AfterEndpoint, AfterRunning, <<>>}
Views == {<<"endpoint", "touch">>, <<"touch">>, <<"settings">>, <<>>}
Todos == Ups \cup Downs \cup Views \cup {Publication, RollBack, <<"endpoint">>}

\* A client's operation or visit: DeployTypeOK's record, with what may be left to do.
Operation == [at : {"idle", "reach", "waits", "locked", "open", "over"},
        kind : OwnerKinds \cup {"none", "rollback", "visit", "undo", "broken", "change"},
        v : 0 .. MaxVersions, todo : Todos, copy : App \cup {NoApp}]

\* What is so of record a and body b when t is left of bringing a version up.
Placing(t, a, b) ==
    /\ t \in Ups
    /\ t # Place => b \in {0, a.current}
    /\ t \in {AfterEndpoint, AfterRunning, <<>>} => a.endpoint
    /\ t \in {AfterRunning, <<>>} => a.status = "running"
    /\ t = <<>> => a.applied = a.current

\* What is so when t is left of taking the app down.
TakingDown(t, a, b, l) ==
    /\ t \in Downs
    /\ t # TakeDown => b = 0 \/ l
    /\ t \in {AfterArchived, <<>>} => a.status = "archived"

\* What the holder of the lock has reached.
Working(j, a, b, l) ==
    \/ j.kind = "publish" /\ j.todo = Publication /\ Len(a.versions) < MaxVersions
    \/ j.kind = "rollback" /\ j.todo = RollBack /\ j.v \in Versions
    \/ j.kind \in {"publish", "rollback", "restore"} /\ j.v = a.current /\ Placing(j.todo, a, b)
    \/ j.kind \in {"archive", "undo"} /\ TakingDown(j.todo, a, b, l)
    \/ j.kind = "broken" /\ j.todo \in Downs
    \/ j.kind = "visit" /\ j.todo \in Ups /\ j.v \in Versions
    \/ j.kind = "visit" /\ j.todo \in {<<>>, <<"endpoint">>}
    \/ j.kind = "edit" /\ j.todo \in {<<>>, <<"settings">>}

\* The copy r that the holder works on differs from the record at most in its endpoint,
\* and has the endpoint when the holder has set it.
Beside(j, r, a) ==
    /\ r.versions = a.versions /\ r.current = a.current /\ r.applied = a.applied /\ r.status = a.status
    /\ j.todo \in {AfterEndpoint, AfterRunning} /\ j.kind # "visit" => r.endpoint

\* What is so of client c's job j, whose record is a and body is b.
JobFits(c, j, a, b, l) ==
    /\ j \in Operation
    /\ c \in Visitors => j.kind \in {"none", "visit"}
    /\ c \in Visitors /\ j.at # "idle" => j.kind = "visit"
    /\ c \in Owners => j.kind # "visit" /\ j.at # "reach"
    /\ c \in Owners /\ j.at = "open" => j.kind \in {"publish", "change"}
    /\ c \in Owners /\ j.at = "waits" =>
         j.kind \in OwnerKinds \cup {"rollback"} /\ (j.kind = "rollback" => j.v \in Versions)
    /\ j.copy # NoApp => j.at \in {"locked", "open"} /\ j.todo # <<>> /\ Head(j.todo) \notin {"apply", "destroy"}
    /\ j.at = "open" => j.todo \in Views
    /\ j.at = "locked" => Working(j, a, b, l)
    /\ j.at = "locked" /\ j.copy # NoApp => Beside(j, j.copy, a)

\* What RecordIsTrue says of a record and a body.
Truth(a, b, l) == IF a.status = "running" THEN a.endpoint /\ a.applied = a.current /\ b \in {0, a.current}
                                       ELSE b = 0 \/ l

\* A visit under the lock that found a body, or an edit whose copy of a running app has the endpoint.
Unhurt(j) ==
    \/ j.kind = "visit" /\ j.todo \in {<<>>, <<"endpoint">>}
    \/ /\ j.kind = "edit" /\ j.todo \in {<<>>, <<"settings">>}
       /\ j.copy # NoApp /\ j.copy.status = "running" => j.copy.endpoint

\* The programs, spelled out, and what follows each of their statements.
LEMMA PublicationIs == Publication = <<"version", "apply", "endpoint", "running", "applied">>
<1>. DEFINE t == <<"version", "apply", "endpoint", "running", "applied">>
<1>1. Place \in Seq(Statements) /\ <<"version">> \in Seq(Statements) /\ t \in Seq(Statements)
  BY DEF Place, Statements
<1>2. Publication \in Seq(Statements) /\ Len(Publication) = 5 /\ \A i \in 1 .. 5 : Publication[i] = IF i <= 1 THEN <<"version">>[i] ELSE Place[i - 1]
  <2>1. Len(<<"version">>) = 1 /\ Len(Place) = 4
    BY DEF Place
  <2>2. Publication \in Seq(Statements) /\ Len(Publication) = Len(<<"version">>) + Len(Place)
    BY <1>1, ConcatProperties DEF Publication
  <2>3. \A i \in 1 .. Len(<<"version">>) + Len(Place) :
          Publication[i] = IF i <= Len(<<"version">>) THEN <<"version">>[i] ELSE Place[i - Len(<<"version">>)]
    BY <1>1, ConcatProperties DEF Publication
  <2>4. QED  BY <2>1, <2>2, <2>3
<1>3. \A i \in 1 .. 5 : Publication[i] = t[i]
  <2>1. SUFFICES ASSUME NEW i \in 1 .. 5 PROVE Publication[i] = t[i]
    OBVIOUS
  <2>2. CASE i = 1
    BY <1>2, <2>2
  <2>3. CASE i \in 2 .. 5
    BY <1>2, <2>3 DEF Place
  <2>4. QED  BY <2>2, <2>3
<1>4. Len(t) = 5
  OBVIOUS
<1>. HIDE DEF t
<1>5. Publication = t
  BY <1>1, <1>2, <1>3, <1>4, SeqEqual
<1>6. QED  BY <1>5 DEF t

LEMMA RollBackIs == RollBack = <<"current", "apply", "endpoint", "running", "applied">>
<1>. DEFINE t == <<"current", "apply", "endpoint", "running", "applied">>
<1>1. Place \in Seq(Statements) /\ <<"current">> \in Seq(Statements) /\ t \in Seq(Statements)
  BY DEF Place, Statements
<1>2. RollBack \in Seq(Statements) /\ Len(RollBack) = 5 /\ \A i \in 1 .. 5 : RollBack[i] = IF i <= 1 THEN <<"current">>[i] ELSE Place[i - 1]
  <2>1. Len(<<"current">>) = 1 /\ Len(Place) = 4
    BY DEF Place
  <2>2. RollBack \in Seq(Statements) /\ Len(RollBack) = Len(<<"current">>) + Len(Place)
    BY <1>1, ConcatProperties DEF RollBack
  <2>3. \A i \in 1 .. Len(<<"current">>) + Len(Place) :
          RollBack[i] = IF i <= Len(<<"current">>) THEN <<"current">>[i] ELSE Place[i - Len(<<"current">>)]
    BY <1>1, ConcatProperties DEF RollBack
  <2>4. QED  BY <2>1, <2>2, <2>3
<1>3. \A i \in 1 .. 5 : RollBack[i] = t[i]
  <2>1. SUFFICES ASSUME NEW i \in 1 .. 5 PROVE RollBack[i] = t[i]
    OBVIOUS
  <2>2. CASE i = 1
    BY <1>2, <2>2
  <2>3. CASE i \in 2 .. 5
    BY <1>2, <2>3 DEF Place
  <2>4. QED  BY <2>2, <2>3
<1>4. Len(t) = 5
  OBVIOUS
<1>. HIDE DEF t
<1>5. RollBack = t
  BY <1>1, <1>2, <1>3, <1>4, SeqEqual
<1>6. QED  BY <1>5 DEF t

LEMMA UpsNext ==
    /\ Head(Place) = "apply" /\ Tail(Place) = AfterApply
    /\ Head(AfterApply) = "endpoint" /\ Tail(AfterApply) = AfterEndpoint
    /\ Head(AfterEndpoint) = "running" /\ Tail(AfterEndpoint) = AfterRunning
    /\ Head(AfterRunning) = "applied" /\ Tail(AfterRunning) = <<>>
  BY DEF Place, AfterApply, AfterEndpoint, AfterRunning

LEMMA DownsNext ==
    /\ Head(TakeDown) = "destroy" /\ Tail(TakeDown) = AfterDestroy
    /\ Head(AfterDestroy) = "archived" /\ Tail(AfterDestroy) = AfterArchived
    /\ Head(AfterArchived) = "withdrawn" /\ Tail(AfterArchived) = <<>>
  BY DEF TakeDown, AfterDestroy, AfterArchived

LEMMA ViewsNext ==
    /\ Head(<<"endpoint", "touch">>) = "endpoint" /\ Tail(<<"endpoint", "touch">>) = <<"touch">>
    /\ Head(<<"touch">>) = "touch" /\ Tail(<<"touch">>) = <<>>
    /\ Head(<<"endpoint">>) = "endpoint" /\ Tail(<<"endpoint">>) = <<>>
    /\ Head(<<"settings">>) = "settings" /\ Tail(<<"settings">>) = <<>>
  OBVIOUS

LEMMA FirstNext ==
    /\ Head(Publication) = "version" /\ Tail(Publication) = Place
    /\ Head(RollBack) = "current" /\ Tail(RollBack) = Place
  BY PublicationIs, RollBackIs DEF Place

LEMMA TodosDiffer ==
    /\ Place # <<>> /\ AfterApply # <<>> /\ AfterEndpoint # <<>> /\ AfterRunning # <<>>
    /\ TakeDown # <<>> /\ AfterDestroy # <<>> /\ AfterArchived # <<>>
    /\ Publication # <<>> /\ RollBack # <<>> /\ <<"endpoint">> # <<>>
    /\ <<"endpoint", "touch">> # <<>> /\ <<"touch">> # <<>> /\ <<"settings">> # <<>>
  BY PublicationIs, RollBackIs DEF Place, AfterApply, AfterEndpoint, AfterRunning, TakeDown, AfterDestroy, AfterArchived

LEMMA TodosAreSeqs == Todos \subseteq Seq(Statements)
<1>1. Publication \in Seq(Statements) /\ RollBack \in Seq(Statements)
  BY PublicationIs, RollBackIs DEF Statements
<1>2. Ups \subseteq Seq(Statements)
  BY DEF Statements, Ups, Place, AfterApply, AfterEndpoint, AfterRunning
<1>3. Downs \subseteq Seq(Statements)
  BY DEF Statements, Downs, TakeDown, AfterDestroy, AfterArchived
<1>4. Views \subseteq Seq(Statements) /\ <<"endpoint">> \in Seq(Statements)
  BY DEF Statements, Views
<1>5. QED  BY <1>1, <1>2, <1>3, <1>4 DEF Todos

-----------------------------------------------------------------------------
\* The inductive invariant: the types, the lock and its holder agree, every client fits
\* the record, and the record is true while no operation is under way that changes it.
DeployTypes ==
    /\ app \in App /\ holder \in Clients \cup {NoHolder} /\ op \in [Clients -> Operation]
    /\ body \in 0 .. MaxVersions /\ leftOver \in BOOLEAN /\ settled \in BOOLEAN
    /\ deployFaults \in 0 .. MaxDeployFaults

LockHeld == \A c \in Clients : op[c].at = "locked" <=> holder = c

JobsFit == \A c \in Clients : JobFits(c, op[c], app, body, leftOver)

Truthful == settled => Truth(app, body, leftOver) /\ \A c \in Clients : op[c].at = "locked" => Unhurt(op[c])

DeployInv == DeployTypes /\ LockHeld /\ JobsFit /\ Truthful

\* Lemmas about the parts of the invariant.
LEMMA NoAppIsNone == NoApp \notin App
  BY DeployAssumption DEF NoApp, App, Versions

\* Only the holder of the lock depends on the record and the body.
LEMMA UnlockedFits ==
    ASSUME NEW c, NEW j, NEW a, NEW b, NEW l, NEW a2, NEW b2, NEW l2, JobFits(c, j, a, b, l), j.at # "locked"
    PROVE  JobFits(c, j, a2, b2, l2)
  BY DEF JobFits

\* An endpoint that is set, and a body that ends, disturb nobody.
LEMMA EndpointKept ==
    ASSUME NEW c, NEW j, NEW a \in App, NEW b, NEW l, NEW a2 \in App, JobFits(c, j, a, b, l), a2 = [a EXCEPT !.endpoint = TRUE]
    PROVE  JobFits(c, j, a2, b, l)
<1>1. a2.versions = a.versions /\ a2.current = a.current /\ a2.applied = a.applied /\ a2.status = a.status
      /\ a2.endpoint = TRUE
  BY DEF App
<1>2. Working(j, a, b, l) => Working(j, a2, b, l)
  BY <1>1 DEF Working, Placing, TakingDown
<1>3. \A r : Beside(j, r, a) => Beside(j, r, a2)
  BY <1>1 DEF Beside
<1>4. QED  BY <1>2, <1>3 DEF JobFits

LEMMA BodyGone ==
    ASSUME NEW c, NEW j, NEW a, NEW b, NEW l, JobFits(c, j, a, b, l)
    PROVE  JobFits(c, j, a, 0, l)
<1>1. Working(j, a, b, l) => Working(j, a, 0, l)
  BY DEF Working, Placing, TakingDown
<1>2. QED  BY <1>1 DEF JobFits

\* The lock stays, is freed by the client that holds it, or is taken when it is free.
LockMoves(c, j) ==
    \/ holder' = holder /\ (j.at = "locked" <=> op[c].at = "locked")
    \/ holder = c /\ holder' = NoHolder /\ j.at # "locked"
    \/ holder = NoHolder /\ holder' = c /\ j.at = "locked"

\* A step of one client.
LEMMA StepOf ==
    ASSUME DeployInv, NEW c \in Clients, NEW j, op' = [op EXCEPT ![c] = j],
           JobFits(c, j, app', body', leftOver'), \A d \in Clients : d # c => JobFits(d, op[d], app', body', leftOver'),
           app' \in App, body' \in 0 .. MaxVersions, leftOver' \in BOOLEAN, settled' \in BOOLEAN,
           deployFaults' \in 0 .. MaxDeployFaults, LockMoves(c, j),
           settled' => Truth(app', body', leftOver') /\ (j.at = "locked" => Unhurt(j)) /\ (settled \/ holder = c)
    PROVE  DeployInv'
<1>1. op'[c] = j /\ \A d \in Clients : d # c => op'[d] = op[d]
  BY DEF DeployInv, DeployTypes
<1>2. DeployTypes'
  <2>1. j \in Operation
    BY DEF JobFits
  <2>2. holder' \in Clients \cup {NoHolder}
    BY DEF LockMoves, DeployInv, DeployTypes
  <2>3. QED  BY <2>1, <2>2 DEF DeployTypes, DeployInv
<1>3. LockHeld'
  <2>1. NoHolder \notin Clients
    BY DeployAssumption DEF Clients
  <2>2. ASSUME NEW d \in Clients PROVE op'[d].at = "locked" <=> holder' = d
    BY <1>1, <2>1, <2>2 DEF LockMoves, LockHeld, DeployInv
  <2>3. QED  BY <2>2 DEF LockHeld
<1>4. JobsFit'
  <2>1. ASSUME NEW d \in Clients PROVE JobFits(d, op'[d], app', body', leftOver')
    BY <1>1, <2>1
  <2>2. QED  BY <2>1 DEF JobsFit
<1>5. Truthful'
  <2>1. SUFFICES ASSUME settled', NEW d \in Clients, op'[d].at = "locked" PROVE Unhurt(op'[d])
    BY DEF Truthful
  <2>2. CASE d = c
    BY <1>1, <2>1, <2>2
  <2>3. CASE d # c
    BY <1>1, <2>1, <2>3 DEF DeployInv, Truthful, LockHeld
  <2>4. QED  BY <2>2, <2>3
<1>6. QED  BY <1>2, <1>3, <1>4, <1>5 DEF DeployInv

\* A step that leaves the record and the body alone.
LEMMA QuietVisit ==
    ASSUME DeployInv, NEW c \in Clients, NEW j, op' = [op EXCEPT ![c] = j], UNCHANGED <<app, body, leftOver>>,
           JobFits(c, j, app, body, leftOver), settled' \in BOOLEAN, deployFaults' \in 0 .. MaxDeployFaults,
           LockMoves(c, j), settled' => settled /\ (j.at = "locked" => Unhurt(j))
    PROVE  DeployInv'
<1>1. app' = app /\ body' = body /\ leftOver' = leftOver
      /\ app \in App /\ body \in 0 .. MaxVersions /\ leftOver \in BOOLEAN
  BY DEF DeployInv, DeployTypes
<1>2. \A d \in Clients : JobFits(d, op[d], app', body', leftOver')
  BY <1>1 DEF DeployInv, JobsFit
<1>3. settled => Truth(app, body, leftOver)
  BY DEF DeployInv, Truthful
<1>4. QED  BY <1>1, <1>2, <1>3, StepOf

\* A client that is through fits any record.
LEMMA OverFits ==
    ASSUME DeployInv, NEW c \in Clients, op[c].at # "idle", NEW a, NEW b, NEW l
    PROVE  JobFits(c, Over(c), a, b, l) /\ Over(c).at = "over"
<1>1. op[c] \in Operation /\ JobFits(c, op[c], app, body, leftOver)
  BY DEF DeployInv, DeployTypes, JobsFit
<1>. DEFINE j == Over(c)
<1>2. j \in Operation /\ j.at = "over" /\ j.kind = op[c].kind /\ j.todo = <<>> /\ j.copy = NoApp
  BY <1>1 DEF Over, Operation, Todos, Ups
<1>. HIDE DEF j
<1>3. JobFits(c, j, a, b, l)
  BY <1>1, <1>2 DEF JobFits
<1>4. QED  BY <1>2, <1>3 DEF j

\* What a client is in the middle of.
LEMMA FitsOf ==
    ASSUME DeployInv, NEW c \in Clients
    PROVE  op[c] \in Operation /\ JobFits(c, op[c], app, body, leftOver) /\ (op[c].at = "locked" <=> holder = c)
           /\ app \in App /\ body \in 0 .. MaxVersions /\ leftOver \in BOOLEAN /\ settled \in BOOLEAN
           /\ deployFaults \in 0 .. MaxDeployFaults
           /\ (settled => Truth(app, body, leftOver)) /\ (settled /\ op[c].at = "locked" => Unhurt(op[c]))
  BY DEF DeployInv, DeployTypes, JobsFit, LockHeld, Truthful

LEMMA DeployInvInit == DeployInit => DeployInv
<1>. SUFFICES ASSUME DeployInit PROVE DeployInv
  OBVIOUS
<1>. DEFINE j == [at |-> "idle", kind |-> "none", v |-> 0, todo |-> <<>>, copy |-> NoApp]
<1>1. j \in Operation /\ j.at = "idle" /\ j.kind = "none" /\ j.copy = NoApp
  BY DeployAssumption DEF Operation, Todos, Ups
<1>2. op = [c \in Clients |-> j]
  BY DEF DeployInit
<1>. HIDE DEF j
<1>3. app \in App /\ app.endpoint /\ app.applied = app.current /\ app.current = 1
  <2>1. <<First>> \in Seq(Owners \cup {First}) /\ 1 \in Versions
    BY DeployAssumption DEF Versions
  <2>2. QED  BY <2>1 DEF DeployInit, App
<1>4. DeployTypes
  <2>1. op \in [Clients -> Operation]
    BY <1>1, <1>2
  <2>2. holder = NoHolder /\ body = 1 /\ leftOver = FALSE /\ settled = TRUE /\ deployFaults = 0
    BY DEF DeployInit
  <2>3. body \in 0 .. MaxVersions /\ deployFaults \in 0 .. MaxDeployFaults
    BY <2>2, DeployAssumption
  <2>4. QED  BY <1>3, <2>1, <2>2, <2>3 DEF DeployTypes
<1>5. LockHeld
  BY <1>1, <1>2, DeployAssumption DEF DeployInit, LockHeld, Clients
<1>6. JobsFit
  BY <1>1, <1>2 DEF JobsFit, JobFits
<1>7. Truthful
  BY <1>1, <1>2, <1>3 DEF Truthful, Truth, DeployInit
<1>8. QED  BY <1>4, <1>5, <1>6, <1>7 DEF DeployInv

\* A client that has an order or a visit to make takes it on, waits or is done with it.
LEMMA OrdersKeeps ==
    ASSUME DeployInv, NEW c \in Owners, NEW kind \in OwnerKinds \cup {"rollback"}, NEW v \in 0 .. MaxVersions,
           kind = "rollback" => v \in Versions, Orders(c, kind, v)
    PROVE  DeployInv'
<1>. DEFINE j == [op[c] EXCEPT !.at = "waits", !.kind = kind, !.v = v]
<1>1. c \in Clients /\ c \notin Visitors
  BY DeployAssumption DEF Clients
<1>2. op[c] \in Operation /\ JobFits(c, op[c], app, body, leftOver)
  BY <1>1, FitsOf
<1>3. j \in Operation /\ j.at = "waits" /\ j.kind = kind /\ j.v = v /\ j.copy = op[c].copy
  BY <1>2 DEF Operation
<1>4. op' = [op EXCEPT ![c] = j] /\ UNCHANGED <<app, holder, body, leftOver, settled, deployFaults>> /\ op[c].at = "idle"
  BY DEF Orders
<1>. HIDE DEF j
<1>5. j.copy = NoApp
  BY <1>2, <1>3, <1>4 DEF JobFits
<1>6. JobFits(c, j, app, body, leftOver)
  BY <1>1, <1>3, <1>5 DEF JobFits, OwnerKinds
<1>7. LockMoves(c, j)
  BY <1>3, <1>4 DEF LockMoves
<1>8. settled' \in BOOLEAN /\ deployFaults' \in 0 .. MaxDeployFaults
  BY <1>1, <1>4, FitsOf
<1>9. QED  BY <1>1, <1>3, <1>4, <1>6, <1>7, <1>8, QuietVisit

\* An owner that renames or transfers the app without the lock.
LEMMA ChangesKeeps == ASSUME DeployInv, NEW c \in Owners, Changes(c) PROVE DeployInv'
<1>. DEFINE j == [op[c] EXCEPT !.at = "open", !.kind = "change", !.todo = <<"settings">>]
<1>1. c \in Clients /\ c \notin Visitors
  BY DeployAssumption DEF Clients
<1>2. op[c] \in Operation /\ JobFits(c, op[c], app, body, leftOver)
  BY <1>1, FitsOf
<1>3. <<"settings">> \in Todos /\ <<"settings">> \in Views
  BY DEF Todos, Views
<1>4. j \in Operation /\ j.at = "open" /\ j.kind = "change" /\ j.todo = <<"settings">> /\ j.copy = op[c].copy
  BY <1>2, <1>3 DEF Operation
<1>5. op' = [op EXCEPT ![c] = j] /\ UNCHANGED <<app, holder, body, leftOver, settled, deployFaults>> /\ op[c].at = "idle"
  BY DEF Changes
<1>. HIDE DEF j
<1>6. j.copy = NoApp
  BY <1>2, <1>4, <1>5 DEF JobFits
<1>7. JobFits(c, j, app, body, leftOver)
  BY <1>1, <1>3, <1>4, <1>6 DEF JobFits
<1>8. LockMoves(c, j)
  BY <1>4, <1>5 DEF LockMoves
<1>9. settled' \in BOOLEAN /\ deployFaults' \in 0 .. MaxDeployFaults
  BY <1>1, <1>5, FitsOf
<1>10. QED  BY <1>1, <1>4, <1>5, <1>7, <1>8, <1>9, QuietVisit

\* A client that leaves for good, holding the lock or not.
LEMMA OverKeeps ==
    ASSUME DeployInv, NEW c \in Clients, op[c].at # "idle", op' = [op EXCEPT ![c] = Over(c)],
           holder' = Freed(c), UNCHANGED <<app, body, leftOver>>, settled' = settled,
           deployFaults' \in 0 .. MaxDeployFaults
    PROVE  DeployInv'
<1>. DEFINE j == Over(c)
<1>1. JobFits(c, j, app, body, leftOver) /\ j.at = "over"
  BY OverFits
<1>2. op' = [op EXCEPT ![c] = j]
  OBVIOUS
<1>. HIDE DEF j
<1>3. settled' \in BOOLEAN /\ (op[c].at = "locked" <=> holder = c)
  BY FitsOf
<1>4. LockMoves(c, j)
  BY <1>1, <1>3 DEF LockMoves, Freed
<1>5. QED  BY <1>1, <1>2, <1>3, <1>4, QuietVisit

LEMMA GivesUpKeeps ==
    ASSUME DeployInv, NEW c \in Clients, GivesUp(c) \/ Returns(c) \/ CallerDies(c) PROVE DeployInv'
<1>1. op[c].at # "idle" /\ op' = [op EXCEPT ![c] = Over(c)] /\ UNCHANGED <<app, body, leftOver>> /\ settled' = settled
  BY DEF GivesUp, Returns, CallerDies
<1>2. op[c].at = "locked" <=> holder = c
  BY FitsOf
<1>3. holder' = Freed(c)
  BY <1>2 DEF GivesUp, Returns, CallerDies, Freed
<1>4. deployFaults' \in 0 .. MaxDeployFaults
  <2>1. deployFaults \in 0 .. MaxDeployFaults
    BY FitsOf
  <2>2. QED  BY <2>1, DeployAssumption DEF GivesUp, Returns, CallerDies, Faulty
<1>5. QED  BY <1>1, <1>3, <1>4, OverKeeps

\* A client that is done without the lock leaves, or goes on to publish.
LEMMA OpenEndsKeeps == ASSUME DeployInv, NEW c \in Clients, Ends(c) PROVE DeployInv'
<1>1. op[c].at = "open" /\ op[c].todo = <<>> /\ UNCHANGED <<app, holder, body, leftOver, settled, deployFaults>>
  BY DEF Ends
<1>2. op[c] \in Operation /\ JobFits(c, op[c], app, body, leftOver) /\ (op[c].at = "locked" <=> holder = c)
      /\ settled \in BOOLEAN /\ deployFaults \in 0 .. MaxDeployFaults
  BY FitsOf
<1>3. CASE op' = [op EXCEPT ![c] = Over(c)]
  <2>1. holder' = Freed(c)
    BY <1>1, <1>2 DEF Freed
  <2>2. QED  BY <1>1, <1>2, <1>3, <2>1, OverKeeps
<1>4. CASE op[c].kind = "change" /\ op' = [op EXCEPT ![c].at = "waits", ![c].kind = "publish"]
  <2>. DEFINE j == [op[c] EXCEPT !.at = "waits", !.kind = "publish"]
  <2>1. op' = [op EXCEPT ![c] = j]
    BY <1>4
  <2>2. j \in Operation /\ j.at = "waits" /\ j.kind = "publish" /\ j.copy = op[c].copy
    BY <1>2 DEF Operation, OwnerKinds
  <2>. HIDE DEF j
  <2>3. j.copy = NoApp /\ c \notin Visitors
    BY <1>1, <1>2, <1>4, <2>2 DEF JobFits
  <2>4. JobFits(c, j, app, body, leftOver)
    BY <2>2, <2>3 DEF JobFits, OwnerKinds
  <2>5. LockMoves(c, j)
    BY <1>1, <2>2 DEF LockMoves
  <2>6. QED  BY <1>1, <1>2, <2>1, <2>2, <2>4, <2>5, QuietVisit
<1>5. QED  BY <1>3, <1>4 DEF Ends

\* An operation that has the lock sets out.
LEMMA EntersKeeps == ASSUME DeployInv, NEW c \in Owners, Enters(c) PROVE DeployInv'
<1>. DEFINE j == [op[c] EXCEPT !.at = "locked", !.todo = Program(op[c].kind), !.v = About(c, app)]
<1>1. c \in Clients /\ c \notin Visitors
  BY DeployAssumption DEF Clients
<1>2. /\ op[c] \in Operation /\ JobFits(c, op[c], app, body, leftOver) /\ app \in App
      /\ op[c].at = "waits" /\ op[c].kind \in OwnerKinds \cup {"rollback"} /\ op[c].copy = NoApp
      /\ op[c].kind = "rollback" => op[c].v \in Versions
      /\ op[c].kind = "publish" => Len(app.versions) < MaxVersions
  <2>1. op[c] \in Operation /\ JobFits(c, op[c], app, body, leftOver) /\ app \in App
    BY <1>1, FitsOf
  <2>2. op[c].at = "waits" /\ (op[c].kind = "publish" => Len(app.versions) < MaxVersions)
    BY DEF Enters
  <2>3. QED  BY <2>1, <2>2 DEF JobFits
<1>3. op' = [op EXCEPT ![c] = j] /\ holder = NoHolder /\ holder' = c /\ UNCHANGED <<app, body, leftOver, deployFaults>>
      /\ settled' = (settled /\ op[c].kind = "edit")
  BY DEF Enters, Free
<1>4. About(c, app) \in Versions /\ (op[c].kind = "rollback" => About(c, app) = op[c].v)
      /\ (op[c].kind # "rollback" => About(c, app) = app.current)
  BY <1>2 DEF About, App
<1>5. /\ op[c].kind = "publish" => Program(op[c].kind) = Publication
      /\ op[c].kind = "rollback" => Program(op[c].kind) = RollBack
      /\ op[c].kind = "archive" => Program(op[c].kind) = TakeDown
      /\ op[c].kind = "restore" => Program(op[c].kind) = Place
      /\ op[c].kind = "edit" => Program(op[c].kind) = <<"settings">>
  BY DEF Program, Publication, RollBack
<1>6. Program(op[c].kind) \in Todos
  BY <1>2, <1>5 DEF Todos, Ups, Downs, Views, OwnerKinds
<1>7. j \in Operation /\ j.at = "locked" /\ j.kind = op[c].kind /\ j.v = About(c, app) /\ j.copy = NoApp
      /\ j.todo = Program(op[c].kind)
  <2>1. About(c, app) \in 0 .. MaxVersions
    BY <1>4, DeployAssumption DEF Versions
  <2>2. QED  BY <1>2, <1>6, <2>1 DEF Operation
<1>. HIDE DEF j
<1>8. Working(j, app, body, leftOver)
  <2>1. CASE op[c].kind = "publish"
    BY <1>2, <1>5, <1>7, <2>1 DEF Working
  <2>2. CASE op[c].kind = "rollback"
    BY <1>2, <1>4, <1>5, <1>7, <2>2 DEF Working
  <2>3. CASE op[c].kind = "restore"
    BY <1>4, <1>5, <1>7, <2>3, TodosDiffer, UpsNext DEF Working, Placing, Ups
  <2>4. CASE op[c].kind = "archive"
    BY <1>5, <1>7, <2>4, TodosDiffer, DownsNext DEF Working, TakingDown, Downs
  <2>5. CASE op[c].kind = "edit"
    BY <1>5, <1>7, <2>5 DEF Working
  <2>6. QED  BY <1>2, <2>1, <2>2, <2>3, <2>4, <2>5 DEF OwnerKinds
<1>9. JobFits(c, j, app, body, leftOver)
  BY <1>1, <1>2, <1>7, <1>8 DEF JobFits, OwnerKinds
<1>10. LockMoves(c, j) /\ deployFaults' \in 0 .. MaxDeployFaults
  BY <1>1, <1>3, <1>7, FitsOf DEF LockMoves
<1>11. settled' \in BOOLEAN /\ (settled' => settled /\ (j.at = "locked" => Unhurt(j)))
  <2>1. settled \in BOOLEAN
    BY <1>1, FitsOf
  <2>2. op[c].kind = "edit" => Unhurt(j)
    BY <1>2, <1>5, <1>7 DEF Unhurt
  <2>3. QED  BY <1>3, <2>1, <2>2
<1>12. QED  BY <1>1, <1>3, <1>9, <1>10, <1>11, QuietVisit

LEMMA GetsKeeps == ASSUME DeployInv, NEW c \in Clients, Gets(c) PROVE DeployInv'
<1>. DEFINE j == [op[c] EXCEPT !.copy = app]
<1>1. op[c] \in Operation /\ JobFits(c, op[c], app, body, leftOver) /\ app \in App
  BY FitsOf
<1>2. /\ op' = [op EXCEPT ![c] = j] /\ UNCHANGED <<app, holder, body, leftOver, settled, deployFaults>>
      /\ op[c].at \in {"locked", "open"} /\ op[c].todo # <<>> /\ Head(op[c].todo) \notin {"apply", "destroy"}
  BY DEF Gets, Reading, Going, Stmt
<1>3. j \in Operation /\ j.at = op[c].at /\ j.kind = op[c].kind /\ j.v = op[c].v /\ j.copy = app /\ j.todo = op[c].todo
  BY <1>1 DEF Operation
<1>. HIDE DEF j
<1>4. Working(op[c], app, body, leftOver) => Working(j, app, body, leftOver)
  BY <1>3 DEF Working
<1>5. j.at = "locked" => Beside(j, app, app)
  <2>1. SUFFICES ASSUME op[c].at = "locked", op[c].todo \in {AfterEndpoint, AfterRunning}, op[c].kind # "visit"
                 PROVE  app.endpoint
    BY <1>3 DEF Beside
  <2>2. Working(op[c], app, body, leftOver)
    BY <1>1, <2>1 DEF JobFits
  <2>3. Head(op[c].todo) \in {"running", "applied"}
    BY <2>1, UpsNext
  <2>4. op[c].todo \notin Downs
    BY <2>3, <1>2, DownsNext DEF Downs
  <2>5. op[c].todo # Publication /\ op[c].todo # RollBack /\ op[c].todo # <<"settings">>
    BY <2>3, FirstNext, ViewsNext
  <2>6. Placing(op[c].todo, app, body)
    BY <1>2, <2>1, <2>2, <2>4, <2>5 DEF Working, TakingDown
  <2>7. QED  BY <2>1, <2>6 DEF Placing
<1>6. JobFits(c, j, app, body, leftOver)
  BY <1>1, <1>2, <1>3, <1>4, <1>5 DEF JobFits
<1>7. LockMoves(c, j) /\ deployFaults' \in 0 .. MaxDeployFaults /\ settled' \in BOOLEAN
      /\ (settled' => settled /\ (j.at = "locked" => Unhurt(j)))
  <2>1. settled => (app.status = "running" => app.endpoint)
    BY FitsOf DEF Truth
  <2>2. settled /\ j.at = "locked" => Unhurt(j)
    BY <1>2, <1>3, <2>1, FitsOf DEF Unhurt
  <2>3. QED  BY <1>2, <1>3, <2>2, FitsOf DEF LockMoves
<1>8. QED  BY <1>2, <1>6, <1>7, QuietVisit

-----------------------------------------------------------------------------
\* Going through a program, statement by statement.
LEMMA TailsStay ==
    /\ \A t \in Ups : t # <<>> => Tail(t) \in Ups /\ Tail(t) # Place
    /\ \A t \in Downs : t # <<>> => Tail(t) \in Downs /\ Tail(t) # TakeDown
    /\ \A t \in Views : t # <<>> => Tail(t) \in Views /\ Head(t) \in {"endpoint", "touch", "settings"}
    /\ \A t \in Todos : t # <<>> => Tail(t) \in Todos
<1>1. ASSUME NEW t \in Ups, t # <<>> PROVE Tail(t) \in Ups /\ Tail(t) # Place
  <2>1. AfterApply # Place /\ AfterEndpoint # Place /\ AfterRunning # Place
    BY UpsNext
  <2>2. QED  BY <1>1, <2>1, UpsNext, TodosDiffer DEF Ups
<1>2. ASSUME NEW t \in Downs, t # <<>> PROVE Tail(t) \in Downs /\ Tail(t) # TakeDown
  <2>1. AfterDestroy # TakeDown /\ AfterArchived # TakeDown
    BY DownsNext
  <2>2. QED  BY <1>2, <2>1, DownsNext, TodosDiffer DEF Downs
<1>3. ASSUME NEW t \in Views, t # <<>> PROVE Tail(t) \in Views /\ Head(t) \in {"endpoint", "touch", "settings"}
  BY <1>3, ViewsNext DEF Views
<1>4. ASSUME NEW t \in Todos, t # <<>> PROVE Tail(t) \in Todos
  <2>1. CASE t \in Ups
    BY <1>1, <1>4, <2>1 DEF Todos
  <2>2. CASE t \in Downs
    BY <1>2, <1>4, <2>2 DEF Todos
  <2>3. CASE t \in Views
    BY <1>3, <1>4, <2>3 DEF Todos
  <2>4. CASE t \in {Publication, RollBack, <<"endpoint">>}
    BY <2>4, FirstNext, ViewsNext DEF Todos, Ups
  <2>5. QED  BY <1>4, <2>1, <2>2, <2>3, <2>4 DEF Todos
<1>5. QED  BY <1>1, <1>2, <1>3, <1>4

LEMMA DoneIs ==
    ASSUME NEW c, op[c] \in Operation, op[c].todo # <<>>
    PROVE  /\ Done(c) \in Operation /\ Done(c).at = op[c].at /\ Done(c).kind = op[c].kind /\ Done(c).v = op[c].v
           /\ Done(c).todo = Tail(op[c].todo) /\ Done(c).copy = NoApp
<1>1. Tail(op[c].todo) \in Todos
  BY TailsStay DEF Operation
<1>2. QED  BY <1>1 DEF Done, Operation

\* What is at the head of what an operation has to do.
LEMMA HeadsTell ==
    ASSUME NEW t \in Todos, t # <<>>
    PROVE  /\ Head(t) = "version" <=> t = Publication
           /\ Head(t) = "current" <=> t = RollBack
           /\ Head(t) = "apply" <=> t = Place
           /\ Head(t) = "running" <=> t = AfterEndpoint
           /\ Head(t) = "applied" <=> t = AfterRunning
           /\ Head(t) = "destroy" <=> t = TakeDown
           /\ Head(t) = "archived" <=> t = AfterDestroy
           /\ Head(t) = "withdrawn" <=> t = AfterArchived
           /\ Head(t) = "touch" <=> t = <<"touch">>
           /\ Head(t) = "settings" <=> t = <<"settings">>
           /\ Head(t) = "endpoint" <=> t \in {AfterApply, <<"endpoint">>, <<"endpoint", "touch">>}
<1>1. t \in {Place, AfterApply, AfterEndpoint, AfterRunning, TakeDown, AfterDestroy, AfterArchived, <<"touch">>,
            <<"endpoint", "touch">>, <<"settings">>, Publication, RollBack, <<"endpoint">>}
  BY DEF Todos, Ups, Downs, Views
<1>2. QED  BY <1>1, UpsNext, DownsNext, ViewsNext, FirstNext

LEMMA HeadsAreStatements == ASSUME NEW t \in Todos, t # <<>> PROVE Head(t) \in Statements
<1>1. t \in {Place, AfterApply, AfterEndpoint, AfterRunning, TakeDown, AfterDestroy, AfterArchived, <<"touch">>,
            <<"endpoint", "touch">>, <<"settings">>, Publication, RollBack, <<"endpoint">>}
  BY DEF Todos, Ups, Downs, Views
<1>2. QED  BY <1>1, UpsNext, DownsNext, ViewsNext, FirstNext DEF Statements

\* Two programs of different kinds have no part in common but the end.
LEMMA PartsDiffer ==
    /\ \A t \in Ups \cap Downs : t = <<>>
    /\ \A t \in Ups \cup Downs : t # Publication /\ t # RollBack /\ t # <<"endpoint">> /\ t # <<"settings">>
    /\ Publication # RollBack /\ Publication # <<"endpoint">> /\ RollBack # <<"endpoint">>
    /\ Publication # <<"settings">> /\ RollBack # <<"settings">>
<1>1. \A t \in Ups \cap Downs : t = <<>>
  BY UpsNext, DownsNext DEF Ups, Downs
<1>2. AfterApply # <<"endpoint">>
  BY UpsNext, ViewsNext, TodosDiffer
<1>3. \A t \in Ups : t # Publication /\ t # RollBack /\ t # <<"endpoint">> /\ t # <<"settings">>
  BY UpsNext, FirstNext, ViewsNext, TodosDiffer, <1>2 DEF Ups
<1>4. \A t \in Downs : t # Publication /\ t # RollBack /\ t # <<"endpoint">> /\ t # <<"settings">>
  BY DownsNext, FirstNext, ViewsNext, TodosDiffer DEF Downs
<1>5. QED  BY <1>1, <1>3, <1>4, FirstNext, ViewsNext

\* A client whose statement is one of the provider's or of the store's setters but the
\* ones that set the endpoint, the time of a visit and the settings holds the lock, and the
\* record is not known to be true.
LEMMA AtWork ==
    ASSUME DeployInv, NEW c \in Clients, Going(c), Stmt(c) \notin {"endpoint", "touch", "settings"}
    PROVE  op[c].at = "locked" /\ holder = c /\ settled = FALSE /\ Working(op[c], app, body, leftOver)
<1>1. op[c].at \in {"locked", "open"} /\ op[c].todo # <<>> /\ Head(op[c].todo) \notin {"endpoint", "touch", "settings"}
  BY DEF Going, Stmt
<1>2. op[c] \in Operation /\ JobFits(c, op[c], app, body, leftOver) /\ settled \in BOOLEAN
      /\ (op[c].at = "locked" <=> holder = c) /\ (settled /\ op[c].at = "locked" => Unhurt(op[c]))
  BY FitsOf
<1>3. op[c].at # "open"
  BY <1>1, <1>2, TailsStay DEF JobFits
<1>4. ~Unhurt(op[c])
  BY <1>1, ViewsNext DEF Unhurt
<1>5. QED  BY <1>1, <1>2, <1>3, <1>4 DEF JobFits

LEMMA LeavesKeeps == ASSUME DeployInv, NEW c \in Clients, Leaves(c) PROVE DeployInv'
<1>1. /\ op[c] \in Operation /\ JobFits(c, op[c], app, body, leftOver) /\ holder = c /\ settled \in BOOLEAN
      /\ settled => Truth(app, body, leftOver)
      /\ deployFaults \in 0 .. MaxDeployFaults /\ app \in App /\ body \in 0 .. MaxVersions /\ leftOver \in BOOLEAN
  BY FitsOf DEF Leaves
<1>2. /\ op[c].at = "locked" /\ op[c].todo = <<>> /\ holder' = NoHolder /\ UNCHANGED <<app, body, leftOver, deployFaults>>
      /\ settled' = (settled \/ op[c].kind \notin {"broken", "visit", "edit"})
  BY DEF Leaves
<1>3. op[c].copy = NoApp
  BY <1>1, <1>2 DEF JobFits
<1>4. Working(op[c], app, body, leftOver)
  BY <1>1, <1>2 DEF JobFits
<1>5. op[c].kind \notin {"broken", "visit", "edit"} => Truth(app, body, leftOver)
  <2>1. SUFFICES ASSUME op[c].kind \notin {"broken", "visit", "edit"} PROVE Truth(app, body, leftOver)
    OBVIOUS
  <2>2. \/ Placing(<<>>, app, body)
        \/ TakingDown(<<>>, app, body, leftOver)
    BY <1>2, <1>4, <2>1, TodosDiffer DEF Working
  <2>3. CASE Placing(<<>>, app, body)
    BY <2>3, TodosDiffer DEF Placing, Truth
  <2>4. CASE TakingDown(<<>>, app, body, leftOver)
    BY <2>4, TodosDiffer DEF TakingDown, Truth
  <2>5. QED  BY <2>2, <2>3, <2>4
<1>6. \A d \in Clients : JobFits(d, op[d], app', body', leftOver')
  BY <1>2, FitsOf
<1>7. ASSUME NEW j, op' = [op EXCEPT ![c] = j], JobFits(c, j, app, body, leftOver), j.at # "locked" PROVE DeployInv'
  <2>1. LockMoves(c, j)
    BY <1>1, <1>2, <1>7 DEF LockMoves
  <2>2. settled' => Truth(app', body', leftOver') /\ (settled \/ holder = c)
    BY <1>1, <1>2, <1>5
  <2>3. JobFits(c, j, app', body', leftOver') /\ app' \in App /\ body' \in 0 .. MaxVersions
        /\ leftOver' \in BOOLEAN /\ settled' \in BOOLEAN /\ deployFaults' \in 0 .. MaxDeployFaults
    BY <1>1, <1>2, <1>7
  <2>4. QED  BY <1>6, <1>7, <2>1, <2>2, <2>3, StepOf
<1>8. PICK j \in Onward(c) : op' = [op EXCEPT ![c] = j]
  BY DEF Leaves
<1>9. CASE j = Over(c)
  <2>1. JobFits(c, Over(c), app, body, leftOver) /\ Over(c).at = "over"
    BY <1>2, OverFits
  <2>2. QED  BY <1>7, <1>8, <1>9, <2>1
<1>10. CASE c \in Visitors /\ j = [op[c] EXCEPT !.at = "open", !.todo = <<"touch">>]
  <2>1. j \in Operation /\ j.at = "open" /\ j.kind = op[c].kind /\ j.copy = NoApp /\ j.todo = <<"touch">>
    BY <1>1, <1>3, <1>10 DEF Operation, Todos, Views
  <2>2. JobFits(c, j, app, body, leftOver)
    <3>1. c \notin Owners /\ op[c].kind = "visit"
      BY <1>1, <1>2, <1>10, DeployAssumption DEF JobFits
    <3>2. QED  BY <2>1, <3>1 DEF JobFits, Views
  <2>3. QED  BY <1>7, <1>8, <2>1, <2>2
<1>11. CASE c \notin Visitors /\ op[c].kind = "publish" /\ j = [op[c] EXCEPT !.at = "open", !.todo = <<"settings">>]
  <2>1. j \in Operation /\ j.at = "open" /\ j.kind = op[c].kind /\ j.copy = NoApp /\ j.todo = <<"settings">>
    BY <1>1, <1>3, <1>11 DEF Operation, Todos, Views
  <2>2. JobFits(c, j, app, body, leftOver)
    BY <1>11, <2>1 DEF JobFits, Views
  <2>3. QED  BY <1>7, <1>8, <2>1, <2>2
<1>12. [op[c] EXCEPT !.at = "open", !.todo = <<"settings">>].kind = op[c].kind
  BY <1>1 DEF Operation
<1>13. QED  BY <1>8, <1>9, <1>10, <1>11, <1>12 DEF Onward

\* Whatever the holder of the lock does to record and body, the others take it.
LEMMA OthersTake ==
    ASSUME DeployInv, NEW c \in Clients, holder = c, NEW a, NEW b, NEW l
    PROVE  \A d \in Clients : d # c => JobFits(d, op[d], a, b, l)
<1>1. SUFFICES ASSUME NEW d \in Clients, d # c PROVE JobFits(d, op[d], a, b, l)
  OBVIOUS
<1>2. op[d].at # "locked" /\ JobFits(d, op[d], app, body, leftOver)
  BY <1>1, FitsOf
<1>3. QED  BY <1>2, UnlockedFits

\* A step of the holder of the lock at work.
LEMMA WorkStep ==
    ASSUME DeployInv, NEW c \in Clients, NEW j, holder = c, settled = FALSE, op' = [op EXCEPT ![c] = j],
           JobFits(c, j, app', body', leftOver'), j.at = "locked", holder' = holder, settled' = settled,
           app' \in App, body' \in 0 .. MaxVersions, leftOver' \in BOOLEAN, deployFaults' \in 0 .. MaxDeployFaults
    PROVE  DeployInv'
<1>1. \A d \in Clients : d # c => JobFits(d, op[d], app', body', leftOver')
  BY OthersTake
<1>2. op[c].at = "locked"
  BY FitsOf
<1>3. LockMoves(c, j)
  BY <1>2 DEF LockMoves
<1>4. QED  BY <1>1, <1>3, StepOf

LEMMA AppliesKeeps == ASSUME DeployInv, NEW c \in Clients, Applies(c) PROVE DeployInv'
<1>. DEFINE j == Done(c)
<1>1. Going(c) /\ Stmt(c) = "apply" /\ body' = op[c].v /\ op' = [op EXCEPT ![c] = j]
      /\ UNCHANGED <<app, holder, leftOver, settled, deployFaults>>
  BY DEF Applies
<1>2. op[c].at = "locked" /\ holder = c /\ settled = FALSE /\ Working(op[c], app, body, leftOver)
  BY <1>1, AtWork
<1>3. op[c] \in Operation /\ JobFits(c, op[c], app, body, leftOver) /\ app \in App
      /\ body \in 0 .. MaxVersions /\ leftOver \in BOOLEAN /\ deployFaults \in 0 .. MaxDeployFaults
  BY FitsOf
<1>4. op[c].todo = Place
  <2>1. op[c].todo \in Todos /\ op[c].todo # <<>> /\ Head(op[c].todo) = "apply"
    BY <1>1, <1>3 DEF Operation, Going, Stmt
  <2>2. QED  BY <2>1, HeadsTell
<1>5. j \in Operation /\ j.at = "locked" /\ j.kind = op[c].kind /\ j.v = op[c].v /\ j.todo = AfterApply /\ j.copy = NoApp
  BY <1>2, <1>3, <1>4, DoneIs, TodosDiffer, UpsNext
<1>6. op[c].v \in 0 .. MaxVersions
  BY <1>3 DEF Operation
<1>. HIDE DEF j
<1>7. Working(j, app, op[c].v, leftOver)
  <2>0. AfterApply \in Ups /\ AfterApply \notin {AfterEndpoint, AfterRunning, <<>>}
    BY UpsNext, TodosDiffer DEF Ups
  <2>1. Place \in Ups /\ Place \notin Downs
    BY PartsDiffer, TodosDiffer DEF Ups
  <2>2. \/ op[c].kind \in {"publish", "rollback", "restore"} /\ op[c].v = app.current
        \/ op[c].kind = "visit" /\ op[c].v \in Versions
    BY <1>2, <1>4, <2>1, PartsDiffer, TodosDiffer DEF Working, TakingDown
  <2>3. op[c].v = app.current => Placing(AfterApply, app, op[c].v)
    BY <2>0 DEF Placing
  <2>4. QED  BY <1>5, <2>0, <2>2, <2>3 DEF Working
<1>8. JobFits(c, j, app, op[c].v, leftOver)
  BY <1>2, <1>3, <1>5, <1>7 DEF JobFits
<1>9. QED  BY <1>1, <1>2, <1>3, <1>5, <1>6, <1>8, WorkStep

LEMMA DestroysKeeps == ASSUME DeployInv, NEW c \in Clients, Destroys(c) PROVE DeployInv'
<1>. DEFINE j == Done(c)
<1>1. Going(c) /\ Stmt(c) = "destroy" /\ op' = [op EXCEPT ![c] = j]
      /\ UNCHANGED <<app, holder, settled>> /\ leftOver' = (body' # 0)
  BY DEF Destroys
<1>2. op[c].at = "locked" /\ holder = c /\ settled = FALSE /\ Working(op[c], app, body, leftOver)
  BY <1>1, AtWork
<1>3. op[c] \in Operation /\ JobFits(c, op[c], app, body, leftOver) /\ app \in App
      /\ body \in 0 .. MaxVersions /\ leftOver \in BOOLEAN /\ deployFaults \in 0 .. MaxDeployFaults
  BY FitsOf
<1>4. op[c].todo = TakeDown
  <2>1. op[c].todo \in Todos /\ op[c].todo # <<>> /\ Head(op[c].todo) = "destroy"
    BY <1>1, <1>3 DEF Operation, Going, Stmt
  <2>2. QED  BY <2>1, HeadsTell
<1>5. j \in Operation /\ j.at = "locked" /\ j.kind = op[c].kind /\ j.todo = AfterDestroy /\ j.copy = NoApp
  BY <1>2, <1>3, <1>4, DoneIs, TodosDiffer, DownsNext
<1>6. body' \in 0 .. MaxVersions /\ deployFaults' \in 0 .. MaxDeployFaults /\ leftOver' \in BOOLEAN
      /\ (body' = 0 \/ leftOver')
  <2>1. body' = 0 \/ body' = body
    BY DEF Destroys
  <2>2. 0 \in 0 .. MaxVersions
    BY DeployAssumption
  <2>3. deployFaults' \in 0 .. MaxDeployFaults
    BY <1>3, DeployAssumption DEF Destroys, Faulty
  <2>4. QED  BY <1>1, <1>3, <2>1, <2>2, <2>3
<1>. HIDE DEF j
<1>7. Working(j, app, body', leftOver')
  <2>0. AfterDestroy \in Downs /\ AfterDestroy \notin {AfterArchived, <<>>}
    BY DownsNext, TodosDiffer DEF Downs
  <2>1. TakeDown \in Downs /\ TakeDown \notin Ups /\ TakeDown # <<"settings">>
    BY PartsDiffer, TodosDiffer DEF Downs
  <2>2. op[c].kind \in {"archive", "undo", "broken"}
    BY <1>2, <1>4, <2>1, PartsDiffer, TodosDiffer DEF Working, Placing
  <2>3. TakingDown(AfterDestroy, app, body', leftOver')
    BY <1>6, <2>0 DEF TakingDown
  <2>4. QED  BY <1>5, <2>0, <2>2, <2>3 DEF Working
<1>8. JobFits(c, j, app, body', leftOver')
  BY <1>2, <1>3, <1>5, <1>7 DEF JobFits
<1>9. app' = app /\ holder' = holder /\ settled' = settled
  BY <1>1
<1>10. JobFits(c, j, app', body', leftOver') /\ app' \in App
  BY <1>3, <1>8, <1>9
<1>11. QED  BY <1>1, <1>2, <1>5, <1>6, <1>9, <1>10, WorkStep

LEMMA BodyEndsKeeps == ASSUME DeployInv, BodyEnds PROVE DeployInv'
<1>1. body' = 0 /\ UNCHANGED <<app, holder, op, leftOver, settled>> /\ deployFaults' \in 0 .. MaxDeployFaults
  BY DeployAssumption DEF BodyEnds, Faulty, DeployInv, DeployTypes
<1>2. DeployTypes'
  BY <1>1, DeployAssumption DEF DeployInv, DeployTypes
<1>3. LockHeld'
  BY <1>1 DEF DeployInv, LockHeld
<1>4. JobsFit'
  BY <1>1, BodyGone DEF DeployInv, JobsFit
<1>5. Truthful'
  BY <1>1 DEF DeployInv, Truthful, Truth
<1>6. QED  BY <1>2, <1>3, <1>4, <1>5 DEF DeployInv

LEMMA VisitKeeps ==
    ASSUME DeployInv, NEW c \in Visitors, Visits(c) \/ Resolves(c) \/ FindsNoBody(c) PROVE DeployInv'
<1>0. c \in Clients /\ c \notin Owners
  BY DeployAssumption DEF Clients
<1>1. op[c] \in Operation /\ JobFits(c, op[c], app, body, leftOver) /\ settled \in BOOLEAN /\ deployFaults \in 0 .. MaxDeployFaults
  BY <1>0, FitsOf
<1>2. UNCHANGED <<app, holder, body, leftOver, settled, deployFaults>> /\ op[c].at \in {"idle", "reach"} /\ op[c].copy = NoApp
  BY <1>1 DEF Visits, Resolves, FindsNoBody, JobFits
<1>3. ASSUME NEW j, j \in Operation, j.at \in {"reach", "over", "waits", "open"}, j.kind = "visit", j.copy = NoApp,
             j.at = "open" => j.todo \in Views, op' = [op EXCEPT ![c] = j]
      PROVE  DeployInv'
  <2>1. JobFits(c, j, app, body, leftOver)
    BY <1>0, <1>3 DEF JobFits
  <2>2. LockMoves(c, j)
    BY <1>2, <1>3 DEF LockMoves
  <2>3. QED  BY <1>0, <1>1, <1>2, <1>3, <2>1, <2>2, QuietVisit
<1>4. CASE Visits(c)
  <2>. DEFINE x == IF app.status = "running" /\ app.endpoint THEN "reach" ELSE "over"
              j == [op[c] EXCEPT !.at = x, !.kind = "visit"]
  <2>1. op' = [op EXCEPT ![c] = j]
    BY <1>4 DEF Visits
  <2>2. x \in {"reach", "over"}
    OBVIOUS
  <2>. HIDE DEF x
  <2>3. j \in Operation /\ j.at = x /\ j.kind = "visit" /\ j.copy = NoApp
    BY <1>1, <1>2, <2>2 DEF Operation
  <2>. HIDE DEF j
  <2>4. QED  BY <1>3, <2>1, <2>2, <2>3
<1>5. CASE Resolves(c)
  <2>1. PICK p \in {<<"touch">>, <<"endpoint", "touch">>} : op' = [op EXCEPT ![c].at = "open", ![c].todo = p]
    BY <1>5 DEF Resolves
  <2>. DEFINE j == [op[c] EXCEPT !.at = "open", !.todo = p]
  <2>2. op' = [op EXCEPT ![c] = j]
    BY <2>1
  <2>3. p \in Views /\ p \in Todos
    BY DEF Views, Todos
  <2>4. op[c].kind = "visit"
    BY <1>1, <1>5 DEF Resolves, JobFits
  <2>5. j \in Operation /\ j.at = "open" /\ j.kind = "visit" /\ j.copy = NoApp /\ j.todo = p
    BY <1>1, <1>2, <2>3, <2>4 DEF Operation
  <2>. HIDE DEF j
  <2>6. QED  BY <1>3, <2>2, <2>3, <2>5
<1>6. CASE FindsNoBody(c)
  <2>. DEFINE j == [op[c] EXCEPT !.at = "waits"]
  <2>1. op' = [op EXCEPT ![c] = j]
    BY <1>6 DEF FindsNoBody
  <2>2. op[c].kind = "visit"
    BY <1>1, <1>6 DEF FindsNoBody, JobFits
  <2>3. j \in Operation /\ j.at = "waits" /\ j.kind = "visit" /\ j.copy = NoApp
    BY <1>1, <1>2, <2>2 DEF Operation
  <2>. HIDE DEF j
  <2>4. QED  BY <1>3, <2>1, <2>3
<1>7. QED  BY <1>4, <1>5, <1>6

LEMMA VisitEntersKeeps == ASSUME DeployInv, NEW c \in Visitors, VisitEnters(c) PROVE DeployInv'
<1>0. c \in Clients /\ c \notin Owners
  BY DeployAssumption DEF Clients
<1>1. op[c] \in Operation /\ JobFits(c, op[c], app, body, leftOver) /\ settled \in BOOLEAN /\ deployFaults \in 0 .. MaxDeployFaults
      /\ app \in App
  BY <1>0, FitsOf
<1>2. PICK p \in {Place, <<>>, <<"endpoint">>} :
        /\ op' = [op EXCEPT ![c].at = "locked", ![c].todo = p, ![c].v = app.current]
        /\ settled' = (settled /\ p # Place)
  BY DEF VisitEnters
<1>. DEFINE j == [op[c] EXCEPT !.at = "locked", !.todo = p, !.v = app.current]
<1>3. op' = [op EXCEPT ![c] = j]
  BY <1>2
<1>4. op[c].at = "waits" /\ op[c].kind = "visit" /\ holder = NoHolder /\ holder' = c
      /\ UNCHANGED <<app, body, leftOver, deployFaults>>
  BY DEF VisitEnters, Free
<1>5. op[c].copy = NoApp
  BY <1>1, <1>4 DEF JobFits
<1>6. app.current \in Versions /\ app.current \in 0 .. MaxVersions
  BY <1>1, DeployAssumption DEF App, Versions
<1>7. p \in {Place, <<>>, <<"endpoint">>} /\ p \in Todos
  BY DEF Todos, Ups
<1>8. j \in Operation /\ j.at = "locked" /\ j.kind = "visit" /\ j.copy = NoApp /\ j.todo = p /\ j.v = app.current
  BY <1>1, <1>4, <1>5, <1>6, <1>7 DEF Operation
<1>. HIDE DEF j
<1>9. JobFits(c, j, app, body, leftOver)
  <2>1. Working(j, app, body, leftOver)
    BY <1>6, <1>7, <1>8 DEF Working, Ups
  <2>2. QED  BY <1>0, <1>8, <2>1 DEF JobFits
<1>10. LockMoves(c, j)
  BY <1>4, <1>8 DEF LockMoves
<1>11. settled' \in BOOLEAN /\ (settled' => settled /\ Unhurt(j))
  BY <1>1, <1>2, <1>7, <1>8 DEF Unhurt
<1>12. QED  BY <1>0, <1>1, <1>3, <1>4, <1>9, <1>10, <1>11, QuietVisit

\* A statement of an operation threw, or was refused.
UndoneStep(c) ==
    /\ Going(c) /\ op' = [op EXCEPT ![c] = Undone(c)]
    /\ holder' = IF op'[c].at = "over" THEN Freed(c) ELSE holder
    /\ UNCHANGED <<app, leftOver, settled>>
    /\ body' \in 0 .. MaxVersions /\ leftOver \in BOOLEAN /\ (body' = body \/ Stmt(c) = "apply")
    /\ deployFaults' \in 0 .. MaxDeployFaults

LEMMA UndoneKeeps == ASSUME DeployInv, NEW c \in Clients, UndoneStep(c) PROVE DeployInv'
<1>1. op[c] \in Operation /\ JobFits(c, op[c], app, body, leftOver) /\ settled \in BOOLEAN /\ app \in App
      /\ (settled /\ op[c].at = "locked" => Unhurt(op[c])) /\ op \in [Clients -> Operation]
      /\ (op[c].at = "locked" <=> holder = c)
  BY FitsOf DEF DeployInv, DeployTypes
<1>2. Going(c) /\ op[c].at \in {"locked", "open"} /\ op[c].todo # <<>> /\ UNCHANGED <<app, leftOver, settled>>
      /\ body' \in 0 .. MaxVersions /\ leftOver' \in BOOLEAN /\ deployFaults' \in 0 .. MaxDeployFaults
  BY DEF UndoneStep, Going
<1>3. op'[c] = Undone(c)
  BY <1>1 DEF UndoneStep
<1>4. op[c].kind \in {"restore", "undo", "broken"} =>
        op[c].at = "locked" /\ c \notin Visitors /\ settled = FALSE /\ Working(op[c], app, body, leftOver)
  BY <1>1, <1>2 DEF JobFits, Unhurt, Clients
<1>5. CASE op[c].kind = "restore"
  <2>. DEFINE j == [op[c] EXCEPT !.kind = "undo", !.todo = TakeDown, !.copy = NoApp]
  <2>1. Undone(c) = j
    BY <1>5 DEF Undone
  <2>2. j \in Operation /\ j.at = "locked" /\ j.kind = "undo" /\ j.todo = TakeDown /\ j.copy = NoApp
    BY <1>1, <1>4, <1>5 DEF Operation, Todos, Downs
  <2>. HIDE DEF j
  <2>3. op' = [op EXCEPT ![c] = j] /\ holder' = holder
    BY <1>3, <2>1, <2>2 DEF UndoneStep
  <2>4. Working(j, app', body', leftOver')
    BY <2>2, TodosDiffer, DownsNext DEF Working, TakingDown, Downs
  <2>5. JobFits(c, j, app', body', leftOver')
    BY <1>4, <1>5, <2>2, <2>4 DEF JobFits
  <2>6. QED  BY <1>1, <1>2, <1>4, <1>5, <2>2, <2>3, <2>5, WorkStep
<1>6. CASE op[c].kind \in {"undo", "broken"}
  <2>. DEFINE j == [Done(c) EXCEPT !.kind = "broken"]
  <2>1. Undone(c) = j
    BY <1>6 DEF Undone
  <2>2. op[c].todo \in Downs
    BY <1>4, <1>6 DEF Working, TakingDown
  <2>3. Tail(op[c].todo) \in Downs
    BY <1>2, <2>2, TailsStay
  <2>4. /\ Done(c) \in Operation /\ Done(c).at = "locked" /\ Done(c).todo = Tail(op[c].todo) /\ Done(c).copy = NoApp
    BY <1>1, <1>2, <1>4, <1>6, DoneIs
  <2>5. j \in Operation /\ j.at = "locked" /\ j.kind = "broken" /\ j.todo \in Downs /\ j.copy = NoApp
    BY <2>3, <2>4 DEF Operation
  <2>. HIDE DEF j
  <2>6. op' = [op EXCEPT ![c] = j] /\ holder' = holder
    BY <1>3, <2>1, <2>5 DEF UndoneStep
  <2>7. Working(j, app', body', leftOver')
    BY <2>5 DEF Working
  <2>8. JobFits(c, j, app', body', leftOver')
    BY <1>4, <1>6, <2>5, <2>7 DEF JobFits
  <2>9. QED  BY <1>1, <1>2, <1>4, <1>6, <2>5, <2>6, <2>8, WorkStep
<1>7. CASE op[c].kind \notin {"restore", "undo", "broken"}
  <2>1. Undone(c) = Over(c)
    BY <1>7 DEF Undone
  <2>2. op[c].at # "idle" /\ op' = [op EXCEPT ![c] = Over(c)]
    BY <1>2, <2>1 DEF UndoneStep
  <2>3. JobFits(c, Over(c), app', body', leftOver') /\ Over(c).at = "over"
    BY <2>2, OverFits
  <2>4. holder' = Freed(c)
    BY <1>3, <2>1, <2>3 DEF UndoneStep
  <2>5. CASE body' = body
    BY <1>2, <2>2, <2>4, <2>5, OverKeeps
  <2>6. CASE body' # body
    <3>1. holder = c /\ settled = FALSE
      BY <1>2, <2>6, AtWork DEF UndoneStep
    <3>2. \A d \in Clients : d # c => JobFits(d, op[d], app', body', leftOver')
      BY <3>1, OthersTake
    <3>. DEFINE j == Over(c)
    <3>3. LockMoves(c, j)
      BY <2>3, <2>4, <3>1 DEF LockMoves, Freed
    <3>4. JobFits(c, j, app', body', leftOver') /\ op' = [op EXCEPT ![c] = j]
      BY <2>2, <2>3
    <3>. HIDE DEF j
    <3>5. QED  BY <1>1, <1>2, <3>1, <3>2, <3>3, <3>4, StepOf
  <2>7. QED  BY <2>5, <2>6
<1>8. QED  BY <1>5, <1>6, <1>7

LEMMA StatementThrowsKeeps == ASSUME DeployInv, NEW c \in Clients, Throws(c) PROVE DeployInv'
<1>1. op[c] \in Operation /\ body \in 0 .. MaxVersions /\ leftOver \in BOOLEAN /\ deployFaults \in 0 .. MaxDeployFaults
  BY FitsOf
<1>2. op[c].v \in 0 .. MaxVersions /\ 0 \in 0 .. MaxVersions
  BY <1>1, DeployAssumption DEF Operation
<1>3. body' \in 0 .. MaxVersions /\ (body' = body \/ Stmt(c) = "apply")
  BY <1>1, <1>2 DEF Throws
<1>4. deployFaults' \in 0 .. MaxDeployFaults
  BY <1>1, DeployAssumption DEF Throws, Faulty
<1>5. UndoneStep(c)
  BY <1>1, <1>3, <1>4 DEF UndoneStep, Throws
<1>6. QED  BY <1>5, UndoneKeeps

LEMMA RefusesKeeps == ASSUME DeployInv, NEW c \in Clients, Refuses(c) PROVE DeployInv'
<1>1. body \in 0 .. MaxVersions /\ leftOver \in BOOLEAN /\ deployFaults \in 0 .. MaxDeployFaults
  BY FitsOf
<1>2. UndoneStep(c)
  BY <1>1 DEF UndoneStep, Refuses, Writing
<1>3. QED  BY <1>2, UndoneKeeps

-----------------------------------------------------------------------------
\* The setters.
LEMMA VersionIs ==
    ASSUME NEW r \in App, NEW v, NEW w \in Owners, Len(r.versions) < MaxVersions, NEW e,
           e = Edited("version", r, v, w)
    PROVE  e \in App /\ e.versions = Append(r.versions, w) /\ e.current = Len(r.versions) + 1
<1>. DEFINE n == Len(r.versions) + 1
            s == Append(r.versions, w)
<1>1. r.versions \in Seq(Owners \cup {First})
  BY DEF App
<1>2. s \in Seq(Owners \cup {First})
  BY <1>1
<1>3. Len(r.versions) \in Nat
  BY <1>1
<1>4. n \in Versions
  BY <1>3, DeployAssumption DEF Versions
<1>5. e = [r EXCEPT !.versions = s, !.current = n]
  BY DEF Edited
<1>. HIDE DEF n, s
<1>6. e \in App /\ e.versions = s /\ e.current = n
  BY <1>2, <1>4, <1>5 DEF App
<1>7. QED  BY <1>6 DEF s, n

LEMMA CurrentIs ==
    ASSUME NEW r \in App, NEW v \in Versions, NEW w, NEW e, e = Edited("current", r, v, w)
    PROVE  e \in App /\ e.versions = r.versions /\ e.current = v
  BY DEF Edited, App

LEMMA AppliedIs ==
    ASSUME NEW r \in App, NEW v \in Versions, NEW w, NEW e, e = Edited("applied", r, v, w)
    PROVE  e \in App /\ e.versions = r.versions /\ e.current = r.current /\ e.applied = v
           /\ e.status = r.status /\ e.endpoint = r.endpoint
  BY DEF Edited, App

LEMMA EndpointIs ==
    ASSUME NEW r \in App, NEW v, NEW w, NEW e, e = Edited("endpoint", r, v, w)
    PROVE  e \in App /\ e.versions = r.versions /\ e.current = r.current /\ e.applied = r.applied
           /\ e.status = r.status /\ e.endpoint
  BY DEF Edited, App

LEMMA RunningIs ==
    ASSUME NEW r \in App, NEW v, NEW w, NEW e, e = Edited("running", r, v, w)
    PROVE  e \in App /\ e.versions = r.versions /\ e.current = r.current /\ e.applied = r.applied
           /\ e.status = "running" /\ e.endpoint = r.endpoint
  BY DEF Edited, App

LEMMA ArchivedIs ==
    ASSUME NEW r \in App, NEW v, NEW w, NEW e, e = Edited("archived", r, v, w)
    PROVE  e \in App /\ e.versions = r.versions /\ e.status = "archived"
  BY DEF Edited, App

LEMMA WithdrawnIs ==
    ASSUME NEW r \in App, NEW v, NEW w, NEW e, e = Edited("withdrawn", r, v, w)
    PROVE  e \in App /\ e.versions = r.versions /\ e.status = r.status
  BY DEF Edited, App

LEMMA SettingsIs ==
    ASSUME NEW r, NEW v, NEW w
    PROVE  Edited("settings", r, v, w) = r
  BY DEF Edited

\* What a client has read and is about to put back.
LEMMA PutsIs ==
    ASSUME DeployInv, NEW c \in Clients, Puts(c)
    PROVE  /\ op[c] \in Operation /\ op[c].copy \in App /\ op[c].todo \in Todos /\ op[c].todo # <<>>
           /\ op[c].at \in {"locked", "open"}
           /\ app' = Edited(Head(op[c].todo), op[c].copy, op[c].v, c)
           /\ Head(op[c].todo) \in Statements \ {"apply", "destroy"}
           /\ UNCHANGED <<holder, body, leftOver, settled, deployFaults>>
           /\ op' = [op EXCEPT ![c] = [Done(c) EXCEPT !.v = IF Head(op[c].todo) = "version" THEN app'.current ELSE @]]
<1>1. op[c] \in Operation /\ JobFits(c, op[c], app, body, leftOver)
  BY FitsOf
<1>2. Writing(c) /\ app' = Edited(Head(op[c].todo), op[c].copy, op[c].v, c)
      /\ UNCHANGED <<holder, body, leftOver, settled, deployFaults>>
      /\ op' = [op EXCEPT ![c] = [Done(c) EXCEPT !.v = IF Head(op[c].todo) = "version" THEN app'.current ELSE @]]
  BY DEF Puts, Stmt
<1>3. op[c].at \in {"locked", "open"} /\ op[c].todo # <<>> /\ op[c].copy # NoApp
  BY <1>2 DEF Writing, Going
<1>4. op[c].copy \in App /\ op[c].todo \in Todos
  BY <1>1, <1>3 DEF Operation
<1>5. Head(op[c].todo) \notin {"apply", "destroy"}
  BY <1>1, <1>3 DEF JobFits
<1>6. QED  BY <1>1, <1>2, <1>3, <1>4, <1>5, HeadsAreStatements

\* What the put leaves to do.
LEMMA PutLeaves ==
    ASSUME DeployInv, NEW c \in Clients, Puts(c), app' \in App
    PROVE  \E j \in Operation :
             /\ op' = [op EXCEPT ![c] = j]
             /\ j.at = op[c].at /\ j.kind = op[c].kind /\ j.copy = NoApp /\ j.todo = Tail(op[c].todo)
             /\ j.v = IF Head(op[c].todo) = "version" THEN app'.current ELSE op[c].v
<1>. DEFINE x == IF Head(op[c].todo) = "version" THEN app'.current ELSE op[c].v
            j == [Done(c) EXCEPT !.v = x]
<1>1. op[c] \in Operation /\ op[c].todo # <<>>
      /\ op' = [op EXCEPT ![c] = [Done(c) EXCEPT !.v = IF Head(op[c].todo) = "version" THEN app'.current ELSE @]]
  BY PutsIs
<1>2. Done(c) \in Operation /\ Done(c).at = op[c].at /\ Done(c).kind = op[c].kind /\ Done(c).v = op[c].v
      /\ Done(c).todo = Tail(op[c].todo) /\ Done(c).copy = NoApp
  BY <1>1, DoneIs
<1>3. op' = [op EXCEPT ![c] = j]
  BY <1>1, <1>2
<1>4. x \in 0 .. MaxVersions
  <2>1. app'.current \in Versions
    BY DEF App
  <2>2. QED  BY <1>1, <2>1, DeployAssumption DEF Operation, Versions
<1>. HIDE DEF x
<1>5. j \in Operation /\ j.at = op[c].at /\ j.kind = op[c].kind /\ j.copy = NoApp /\ j.todo = Tail(op[c].todo) /\ j.v = x
  BY <1>2, <1>4 DEF Operation
<1>. HIDE DEF j
<1>6. QED  BY <1>3, <1>5 DEF x

\* A client that goes on without the lock, and puts back no stale record, keeps the record but for the endpoint.
LEMMA OpenPut ==
    ASSUME DeployInv, ~StalePut, NEW c \in Clients, Puts(c), op[c].at = "open"
    PROVE  DeployInv' /\ app'.versions = app.versions
<1>1. op[c] \in Operation /\ JobFits(c, op[c], app, body, leftOver) /\ app \in App /\ settled \in BOOLEAN
      /\ body \in 0 .. MaxVersions /\ leftOver \in BOOLEAN /\ deployFaults \in 0 .. MaxDeployFaults /\ (settled => Truth(app, body, leftOver))
  BY FitsOf
<1>2. /\ op[c].copy \in App /\ op[c].todo # <<>> /\ op[c].todo \in Todos
      /\ app' = Edited(Head(op[c].todo), op[c].copy, op[c].v, c)
      /\ UNCHANGED <<holder, body, leftOver, settled, deployFaults>>
  BY PutsIs
<1>3. op[c].todo \in Views
  BY <1>1 DEF JobFits, Clients
<1>4. op[c].copy = app
  BY DEF StalePut
<1>5. Head(op[c].todo) \in {"endpoint", "touch", "settings"} /\ Tail(op[c].todo) \in Views
  BY <1>2, <1>3, TailsStay
<1>6. app' = app \/ app' = [app EXCEPT !.endpoint = TRUE]
  BY <1>2, <1>4, <1>5 DEF Edited
<1>7. /\ app' \in App /\ app'.versions = app.versions /\ app'.status = app.status /\ app'.current = app.current
      /\ app'.applied = app.applied /\ (app.endpoint => app'.endpoint)
  BY <1>1, <1>6 DEF App
<1>8. \A d \in Clients : JobFits(d, op[d], app', body', leftOver')
  <2>1. ASSUME NEW d \in Clients PROVE JobFits(d, op[d], app', body, leftOver)
    <3>1. JobFits(d, op[d], app, body, leftOver)
      BY FitsOf
    <3>2. QED  BY <1>1, <1>6, <1>7, <3>1, EndpointKept
  <2>2. QED  BY <1>2, <2>1
<1>9. PICK j \in Operation :
        /\ op' = [op EXCEPT ![c] = j]
        /\ j.at = "open" /\ j.kind = op[c].kind /\ j.copy = NoApp /\ j.todo = Tail(op[c].todo)
  BY <1>7, PutLeaves
<1>10. JobFits(c, j, app', body', leftOver')
  <2>1. c \in Visitors => op[c].kind = "visit"
    BY <1>1 DEF JobFits
  <2>2. c \in Owners => op[c].kind \in {"publish", "change"}
    BY <1>1 DEF JobFits
  <2>3. QED  BY <1>5, <1>9, <2>1, <2>2 DEF JobFits
<1>11. LockMoves(c, j)
  BY <1>2, <1>9 DEF LockMoves
<1>12. settled' => Truth(app', body', leftOver')
  BY <1>1, <1>2, <1>7 DEF Truth
<1>13. DeployInv'
  BY <1>1, <1>2, <1>7, <1>8, <1>9, <1>10, <1>11, <1>12, StepOf
<1>14. QED  BY <1>7, <1>13

\* The holder of the lock puts back what it read; the record has changed since at most in its endpoint.
PutDone(c, j) ==
    /\ j \in Operation /\ j.at = "locked" /\ j.kind = op[c].kind /\ j.copy = NoApp /\ j.todo = Tail(op[c].todo)
    /\ j.v = IF Head(op[c].todo) = "version" THEN app'.current ELSE op[c].v

PutGood(c) ==
    /\ app' \in App
    /\ app'.versions = app.versions \/ (c \in Owners /\ app'.versions = Append(app.versions, c))
    /\ \A j : PutDone(c, j) => Working(j, app', body, leftOver)
    /\ settled => Truth(app', body, leftOver)

LEMMA PutGoodKeeps ==
    ASSUME DeployInv, NEW c \in Clients, Puts(c), op[c].at = "locked", PutGood(c)
    PROVE  DeployInv'
<1>1. op[c] \in Operation /\ JobFits(c, op[c], app, body, leftOver) /\ holder = c /\ settled \in BOOLEAN
      /\ body \in 0 .. MaxVersions /\ leftOver \in BOOLEAN /\ deployFaults \in 0 .. MaxDeployFaults
      /\ (settled => Unhurt(op[c]))
  BY FitsOf
<1>2. UNCHANGED <<holder, body, leftOver, settled, deployFaults>> /\ op[c].todo # <<>>
  BY PutsIs
<1>3. PICK j \in Operation :
        /\ op' = [op EXCEPT ![c] = j]
        /\ j.at = "locked" /\ j.kind = op[c].kind /\ j.copy = NoApp /\ j.todo = Tail(op[c].todo)
        /\ j.v = IF Head(op[c].todo) = "version" THEN app'.current ELSE op[c].v
  BY PutLeaves DEF PutGood
<1>4. Working(j, app', body, leftOver)
  BY <1>3 DEF PutGood, PutDone
<1>5. JobFits(c, j, app', body', leftOver')
  BY <1>1, <1>2, <1>3, <1>4 DEF JobFits
<1>6. \A d \in Clients : d # c => JobFits(d, op[d], app', body', leftOver')
  BY <1>1, OthersTake
<1>7. settled => Unhurt(j)
  BY <1>1, <1>2, <1>3, ViewsNext DEF Unhurt
<1>8. LockMoves(c, j)
  BY <1>1, <1>2, <1>3 DEF LockMoves
<1>9. app' \in App /\ (settled => Truth(app', body, leftOver))
  BY DEF PutGood
<1>10. QED  BY <1>1, <1>2, <1>3, <1>5, <1>6, <1>7, <1>8, <1>9, StepOf

\* What the holder works from.
LockedPut(c) ==
    /\ Puts(c) /\ op[c].at = "locked" /\ op[c].copy \in App /\ op[c].todo \in Todos /\ op[c].todo # <<>>
    /\ app' = Edited(Head(op[c].todo), op[c].copy, op[c].v, c)
    /\ op[c].copy.versions = app.versions /\ op[c].copy.current = app.current /\ op[c].copy.applied = app.applied
    /\ op[c].copy.status = app.status
    /\ op[c].todo \in {AfterEndpoint, AfterRunning} /\ op[c].kind # "visit" => op[c].copy.endpoint
    /\ Head(op[c].todo) \notin {"apply", "destroy"}

LEMMA PublicationPut ==
    ASSUME DeployInv, NEW c \in Clients, LockedPut(c), op[c].kind = "publish", op[c].todo = Publication,
           Len(app.versions) < MaxVersions, settled = FALSE
    PROVE  PutGood(c)
<1>1. c \in Owners
  <2>1. JobFits(c, op[c], app, body, leftOver)
    BY FitsOf
  <2>2. QED  BY <2>1 DEF JobFits, Clients, LockedPut
<1>2. Head(op[c].todo) = "version" /\ Tail(op[c].todo) = Place
  BY FirstNext
<1>3. app' \in App /\ app'.versions = Append(app.versions, c)
  <2>1. app' = Edited("version", op[c].copy, op[c].v, c) /\ op[c].copy \in App
        /\ op[c].copy.versions = app.versions
    BY <1>2 DEF LockedPut
  <2>2. Len(op[c].copy.versions) < MaxVersions
    BY <2>1
  <2>3. QED  BY <1>1, <2>1, <2>2, VersionIs
<1>4. ASSUME NEW j, PutDone(c, j) PROVE Working(j, app', body, leftOver)
  <2>1. Placing(Place, app', body)
    BY UpsNext, TodosDiffer DEF Placing, Ups
  <2>2. QED  BY <1>2, <1>4, <2>1 DEF PutDone, Working
<1>5. QED  BY <1>1, <1>3, <1>4 DEF PutGood

LEMMA RollBackPut ==
    ASSUME DeployInv, NEW c \in Clients, LockedPut(c), op[c].kind = "rollback", op[c].todo = RollBack,
           op[c].v \in Versions, settled = FALSE
    PROVE  PutGood(c)
<1>2. Head(op[c].todo) = "current" /\ Tail(op[c].todo) = Place
  BY FirstNext
<1>3. app' \in App /\ app'.versions = app.versions /\ app'.current = op[c].v
  <2>1. app' = Edited("current", op[c].copy, op[c].v, c) /\ op[c].copy \in App
        /\ op[c].copy.versions = app.versions
    BY <1>2 DEF LockedPut
  <2>2. QED  BY <2>1, CurrentIs
<1>4. ASSUME NEW j, PutDone(c, j) PROVE Working(j, app', body, leftOver)
  <2>1. Placing(Place, app', body)
    BY UpsNext, TodosDiffer DEF Placing, Ups
  <2>2. QED  BY <1>2, <1>3, <1>4, <2>1 DEF PutDone, Working
<1>5. QED  BY <1>3, <1>4 DEF PutGood

LEMMA PlacingPut ==
    ASSUME DeployInv, NEW c \in Clients, LockedPut(c), op[c].kind \in {"publish", "rollback", "restore"},
           op[c].v = app.current, Placing(op[c].todo, app, body), settled = FALSE
    PROVE  PutGood(c)
<1>1. op[c].todo \in {AfterApply, AfterEndpoint, AfterRunning}
  BY UpsNext DEF LockedPut, Placing, Ups
<1>2. app \in App
  BY FitsOf
<1>3. op[c].v \in Versions
  BY <1>2 DEF App
<1>4. SUFFICES ASSUME TRUE
               PROVE  /\ app' \in App /\ app'.versions = app.versions /\ app'.current = app.current
                      /\ Placing(Tail(op[c].todo), app', body) /\ Head(op[c].todo) # "version"
  BY DEF PutDone, Working, PutGood
<1>5. AfterApply # AfterEndpoint /\ AfterApply # AfterRunning /\ AfterEndpoint # AfterRunning
      /\ AfterEndpoint # Place /\ AfterRunning # Place /\ AfterApply # Place
  BY UpsNext
<1>6. CASE op[c].todo = AfterApply
  <2>1. /\ app' \in App /\ app'.versions = app.versions /\ app'.current = app.current /\ app'.endpoint
    <3>1. app' = Edited("endpoint", op[c].copy, op[c].v, c)
      BY <1>6, UpsNext DEF LockedPut
    <3>2. QED  BY <3>1, EndpointIs DEF LockedPut
  <2>2. Placing(AfterEndpoint, app', body)
    BY <1>5, <1>6, <2>1, TodosDiffer DEF Placing, Ups
  <2>3. QED  BY <1>6, <2>1, <2>2, UpsNext
<1>7. CASE op[c].todo = AfterEndpoint
  <2>1. op[c].copy.endpoint
    BY <1>7 DEF LockedPut
  <2>2. /\ app' \in App /\ app'.versions = app.versions /\ app'.current = app.current
        /\ app'.endpoint = op[c].copy.endpoint /\ app'.status = "running"
    <3>1. app' = Edited("running", op[c].copy, op[c].v, c)
      BY <1>7, UpsNext DEF LockedPut
    <3>2. QED  BY <3>1, RunningIs DEF LockedPut
  <2>3. Placing(AfterRunning, app', body)
    BY <1>5, <1>7, <2>1, <2>2, TodosDiffer DEF Placing, Ups
  <2>4. QED  BY <1>7, <2>2, <2>3, UpsNext
<1>8. CASE op[c].todo = AfterRunning
  <2>1. op[c].copy.endpoint
    BY <1>8 DEF LockedPut
  <2>2. /\ app' \in App /\ app'.versions = app.versions /\ app'.current = app.current
        /\ app'.endpoint = op[c].copy.endpoint /\ app'.status = app.status /\ app'.applied = op[c].v
    <3>1. app' = Edited("applied", op[c].copy, op[c].v, c)
      BY <1>8, UpsNext DEF LockedPut
    <3>2. QED  BY <1>3, <3>1, AppliedIs DEF LockedPut
  <2>3. Placing(<<>>, app', body)
    BY <1>5, <1>8, <2>1, <2>2, TodosDiffer DEF Placing, Ups
  <2>4. QED  BY <1>8, <2>2, <2>3, UpsNext
<1>9. QED  BY <1>1, <1>6, <1>7, <1>8

\* Setters of the way down, and of a way down that broke.
LEMMA DownsPut ==
    ASSUME NEW c \in Clients, LockedPut(c), op[c].todo \in Downs
    PROVE  /\ app' \in App /\ app'.versions = app.versions /\ Tail(op[c].todo) \in Downs
           /\ TakingDown(op[c].todo, app, body, leftOver) => TakingDown(Tail(op[c].todo), app', body, leftOver)
<1>1. op[c].todo \in {AfterDestroy, AfterArchived}
  BY DownsNext DEF LockedPut, Downs
<1>2. AfterDestroy # AfterArchived /\ AfterDestroy # TakeDown /\ AfterArchived # TakeDown
  BY DownsNext
<1>3. CASE op[c].todo = AfterDestroy
  <2>1. app' \in App /\ app'.versions = app.versions /\ app'.status = "archived"
    <3>1. app' = Edited("archived", op[c].copy, op[c].v, c)
      BY <1>3, DownsNext DEF LockedPut
    <3>2. QED  BY <3>1, ArchivedIs DEF LockedPut
  <2>2. QED  BY <1>2, <1>3, <2>1, DownsNext DEF TakingDown, Downs
<1>4. CASE op[c].todo = AfterArchived
  <2>1. app' \in App /\ app'.versions = app.versions /\ app'.status = app.status
    <3>1. app' = Edited("withdrawn", op[c].copy, op[c].v, c)
      BY <1>4, DownsNext DEF LockedPut
    <3>2. QED  BY <3>1, WithdrawnIs DEF LockedPut
  <2>2. QED  BY <1>2, <1>4, <2>1, DownsNext DEF TakingDown, Downs
<1>5. QED  BY <1>1, <1>3, <1>4

LEMMA TakingDownPut ==
    ASSUME NEW c \in Clients, LockedPut(c), op[c].kind \in {"archive", "undo"}, TakingDown(op[c].todo, app, body, leftOver),
           settled = FALSE
    PROVE  PutGood(c)
<1>1. op[c].todo \in Downs
  BY DEF TakingDown
<1>2. app' \in App /\ app'.versions = app.versions /\ TakingDown(Tail(op[c].todo), app', body, leftOver)
  BY <1>1, DownsPut
<1>3. QED  BY <1>2 DEF PutGood, PutDone, Working

LEMMA BrokenPut ==
    ASSUME NEW c \in Clients, LockedPut(c), op[c].kind = "broken", op[c].todo \in Downs, settled = FALSE
    PROVE  PutGood(c)
<1>2. app' \in App /\ app'.versions = app.versions /\ Tail(op[c].todo) \in Downs
  BY DownsPut
<1>3. QED  BY <1>2 DEF PutGood, PutDone, Working

\* Setters of a visit that had to bring the app up.
LEMMA VisitPut ==
    ASSUME NEW c \in Clients, LockedPut(c), op[c].kind = "visit", op[c].todo \in Ups, op[c].v \in Versions,
           settled = FALSE
    PROVE  PutGood(c)
<1>1. op[c].todo \in {AfterApply, AfterEndpoint, AfterRunning}
  BY UpsNext DEF LockedPut, Ups
<1>2. Head(op[c].todo) \in {"endpoint", "running", "applied"} /\ Tail(op[c].todo) \in Ups
  BY <1>1, UpsNext DEF Ups
<1>3. app' \in App /\ app'.versions = app.versions
  <2>0. op[c].copy \in App /\ op[c].copy.versions = app.versions
        /\ app' = Edited(Head(op[c].todo), op[c].copy, op[c].v, c)
    BY DEF LockedPut
  <2>1. CASE Head(op[c].todo) = "endpoint"
    BY <2>0, <2>1, EndpointIs
  <2>2. CASE Head(op[c].todo) = "running"
    BY <2>0, <2>2, RunningIs
  <2>3. CASE Head(op[c].todo) = "applied"
    BY <2>0, <2>3, AppliedIs
  <2>4. QED  BY <1>2, <2>1, <2>2, <2>3
<1>4. QED  BY <1>2, <1>3 DEF PutGood, PutDone, Working

\* A visit that found a body and sets its endpoint under the lock.
LEMMA EndpointPut ==
    ASSUME DeployInv, NEW c \in Clients, LockedPut(c), op[c].kind = "visit", op[c].todo = <<"endpoint">>
    PROVE  PutGood(c)
<1>1. Head(op[c].todo) = "endpoint" /\ Tail(op[c].todo) = <<>>
  BY ViewsNext
<1>2. app' \in App /\ app'.versions = app.versions /\ app'.current = app.current /\ app'.applied = app.applied
      /\ app'.status = app.status /\ app'.endpoint
  <2>1. app' = Edited("endpoint", op[c].copy, op[c].v, c)
    BY <1>1 DEF LockedPut
  <2>2. QED  BY <2>1, EndpointIs DEF LockedPut
<1>3. op[c] \in Operation /\ (settled => Truth(app, body, leftOver))
  BY FitsOf
<1>4. settled => Truth(app', body, leftOver)
  BY <1>2, <1>3 DEF Truth
<1>5. ASSUME NEW j, PutDone(c, j) PROVE Working(j, app', body, leftOver)
  <2>1. j.kind = "visit" /\ j.todo = <<>> /\ j.v = op[c].v
    BY <1>1, <1>5 DEF PutDone
  <2>2. QED  BY <2>1 DEF Working
<1>6. QED  BY <1>2, <1>4, <1>5 DEF PutGood

\* An edit under the lock puts back what it read.
LEMMA EditPut ==
    ASSUME DeployInv, NEW c \in Clients, LockedPut(c), op[c].kind = "edit", op[c].todo = <<"settings">>,
           settled => Unhurt(op[c])
    PROVE  PutGood(c)
<1>1. Head(op[c].todo) = "settings" /\ Tail(op[c].todo) = <<>>
  BY ViewsNext
<1>2. app' = op[c].copy /\ app' \in App /\ app'.versions = app.versions /\ app'.current = app.current
      /\ app'.applied = app.applied /\ app'.status = app.status
  BY <1>1, SettingsIs DEF LockedPut
<1>3. settled => Truth(app', body, leftOver)
  <2>1. settled => Truth(app, body, leftOver)
    BY FitsOf
  <2>2. settled /\ app'.status = "running" => app'.endpoint
    BY <1>2, NoAppIsNone DEF Unhurt
  <2>3. QED  BY <1>2, <2>1, <2>2 DEF Truth
<1>4. ASSUME NEW j, PutDone(c, j) PROVE Working(j, app', body, leftOver)
  <2>1. j.kind = "edit" /\ j.todo = <<>>
    BY <1>1, <1>4 DEF PutDone
  <2>2. QED  BY <2>1 DEF Working
<1>5. QED  BY <1>2, <1>3, <1>4 DEF PutGood

LEMMA LockedPutIs ==
    ASSUME DeployInv, NEW c \in Clients, Puts(c), op[c].at = "locked"
    PROVE  LockedPut(c) /\ Working(op[c], app, body, leftOver)
<1>1. JobFits(c, op[c], app, body, leftOver)
  BY FitsOf
<1>2. op[c].copy \in App /\ op[c].copy # NoApp
  BY PutsIs, NoAppIsNone
<1>3. Beside(op[c], op[c].copy, app) /\ Working(op[c], app, body, leftOver)
  BY <1>1, <1>2 DEF JobFits
<1>4. QED  BY <1>2, <1>3, PutsIs DEF LockedPut, Beside

LEMMA PutsKeeps ==
    ASSUME DeployInv, ~StalePut, NEW c \in Clients, Puts(c)
    PROVE  /\ DeployInv'
           /\ app'.versions = app.versions \/ (c \in Owners /\ app'.versions = Append(app.versions, c))
<1>1. CASE op[c].at = "open"
  BY <1>1, OpenPut
<1>2. CASE op[c].at = "locked"
  <2>1. LockedPut(c) /\ Working(op[c], app, body, leftOver)
    BY <1>2, LockedPutIs
  <2>2. op[c].todo # <<>> /\ settled \in BOOLEAN /\ (settled => Unhurt(op[c]))
    BY <1>2, <2>1, FitsOf DEF LockedPut
  <2>3. settled = FALSE \/ (op[c].kind = "visit" /\ op[c].todo = <<"endpoint">>)
                         \/ (op[c].kind = "edit" /\ op[c].todo = <<"settings">>)
    BY <2>2 DEF Unhurt
  <2>4. ASSUME op[c].kind = "visit" /\ op[c].todo = <<"endpoint">> PROVE PutGood(c)
    BY <2>1, <2>4, EndpointPut
  <2>5. ASSUME op[c].kind = "edit" /\ op[c].todo = <<"settings">> PROVE PutGood(c)
    BY <2>1, <2>2, <2>5, EditPut
  <2>6. ASSUME settled = FALSE, ~(op[c].kind = "edit" /\ op[c].todo = <<"settings">>),
               ~(op[c].kind = "visit" /\ op[c].todo = <<"endpoint">>)
        PROVE  PutGood(c)
    <3>1. CASE op[c].kind = "publish" /\ op[c].todo = Publication /\ Len(app.versions) < MaxVersions
      BY <2>1, <2>6, <3>1, PublicationPut
    <3>2. CASE op[c].kind = "rollback" /\ op[c].todo = RollBack /\ op[c].v \in Versions
      BY <2>1, <2>6, <3>2, RollBackPut
    <3>3. CASE op[c].kind \in {"publish", "rollback", "restore"} /\ op[c].v = app.current /\ Placing(op[c].todo, app, body)
      BY <2>1, <2>6, <3>3, PlacingPut
    <3>4. CASE op[c].kind \in {"archive", "undo"} /\ TakingDown(op[c].todo, app, body, leftOver)
      BY <2>1, <2>6, <3>4, TakingDownPut
    <3>5. CASE op[c].kind = "broken" /\ op[c].todo \in Downs
      BY <2>1, <2>6, <3>5, BrokenPut
    <3>6. CASE op[c].kind = "visit" /\ op[c].todo \in Ups /\ op[c].v \in Versions
      BY <2>1, <2>6, <3>6, VisitPut
    <3>7. QED  BY <2>1, <2>2, <2>6, TodosDiffer, <3>1, <3>2, <3>3, <3>4, <3>5, <3>6 DEF Working
  <2>7. PutGood(c)
    BY <2>3, <2>4, <2>6, <2>5
  <2>8. DeployInv'
    BY <1>2, <2>7, PutGoodKeeps
  <2>9. QED  BY <2>7, <2>8 DEF PutGood
<1>3. QED  BY <1>1, <1>2, PutsIs

\* The invariant stays where nothing changes, ...
LEMMA DeployInvStill == ASSUME DeployInv, UNCHANGED deployVars PROVE DeployInv'
<1>1. UNCHANGED app /\ UNCHANGED holder /\ UNCHANGED op /\ UNCHANGED body /\ UNCHANGED leftOver /\ UNCHANGED settled
      /\ UNCHANGED deployFaults
  BY DEF deployVars
<1>2. DeployTypes' /\ LockHeld'
  BY <1>1 DEF DeployInv, DeployTypes, LockHeld
<1>3. JobsFit' /\ Truthful'
  BY <1>1 DEF DeployInv, JobsFit, Truthful
<1>4. QED  BY <1>2, <1>3 DEF DeployInv

\* ... and with every step that is not the put of a stale record.
LEMMA DeployInvNext == ASSUME DeployInv, ~StalePut, [DeployNext]_deployVars PROVE DeployInv'
<1>1. CASE UNCHANGED deployVars
  BY <1>1, DeployInvStill
<1>2. ASSUME NEW c \in Owners, NEW kind \in OwnerKinds, Orders(c, kind, 0) PROVE DeployInv'
  <2>1. kind # "rollback" /\ 0 \in 0 .. MaxVersions
    BY DeployAssumption DEF OwnerKinds
  <2>2. QED  BY <1>2, <2>1, OrdersKeeps
<1>3. ASSUME NEW c \in Owners, NEW v \in Versions, Orders(c, "rollback", v) PROVE DeployInv'
  <2>1. v \in 0 .. MaxVersions
    BY DeployAssumption DEF Versions
  <2>2. QED  BY <1>3, <2>1, OrdersKeeps
<1>4. ASSUME NEW c \in Owners, Enters(c) PROVE DeployInv'
  BY <1>4, EntersKeeps
<1>5. ASSUME NEW c \in Owners, Returns(c) PROVE DeployInv'
  BY <1>5, GivesUpKeeps DEF Clients
<1>6. ASSUME NEW c \in Clients, GivesUp(c) \/ CallerDies(c) PROVE DeployInv'
  BY <1>6, GivesUpKeeps
<1>7. ASSUME NEW c \in Clients, Puts(c) PROVE DeployInv'
  BY <1>7, PutsKeeps
<1>8. ASSUME NEW c \in Clients, Gets(c) \/ Applies(c) \/ Destroys(c) \/ Leaves(c) \/ Ends(c) PROVE DeployInv'
  BY <1>8, GetsKeeps, AppliesKeeps, DestroysKeeps, LeavesKeeps, OpenEndsKeeps
<1>9. ASSUME NEW c \in Clients, Throws(c) \/ Refuses(c) PROVE DeployInv'
  BY <1>9, StatementThrowsKeeps, RefusesKeeps
<1>10. ASSUME NEW c \in Visitors, Visits(c) \/ Resolves(c) \/ FindsNoBody(c) PROVE DeployInv'
  BY <1>10, VisitKeeps
<1>11. ASSUME NEW c \in Visitors, VisitEnters(c) PROVE DeployInv'
  BY <1>11, VisitEntersKeeps
<1>12. ASSUME NEW c \in Owners, Changes(c) PROVE DeployInv'
  BY <1>12, ChangesKeeps
<1>13. ASSUME BodyEnds PROVE DeployInv'
  BY <1>13, BodyEndsKeeps
<1>14. QED
  BY <1>1, <1>2, <1>3, <1>4, <1>5, <1>6, <1>7, <1>8, <1>9, <1>10, <1>11, <1>12, <1>13 DEF DeployNext

\* As long as no setter without the lock (a visit's, a publication's default audience, a
\* rename, a transfer) puts back a record that has changed since it read it, the invariant holds.
LEMMA DeployUntilStale == DeploySpec /\ [][~StalePut]_deployVars => []DeployInv
<1>1. DeployInit => DeployInv
  BY DeployInvInit
<1>2. ASSUME DeployInv, [DeployNext]_deployVars, [~StalePut]_deployVars PROVE DeployInv'
  BY <1>2, DeployInvNext, DeployInvStill
<1>3. QED  BY <1>1, <1>2, PTL DEF DeploySpec

\* It says what the variables are.
LEMMA DeployInvTypes == DeployInv => DeployTypeOK
<1>1. SUFFICES ASSUME DeployInv PROVE DeployTypeOK
  OBVIOUS
<1>2. [Clients -> Operation] \subseteq
        [Clients -> [at : {"idle", "reach", "waits", "locked", "open", "over"},
                     kind : OwnerKinds \cup {"none", "rollback", "visit", "undo", "broken", "change"},
                     v : 0 .. MaxVersions, todo : Seq(Statements), copy : App \cup {NoApp}]]
  BY TodosAreSeqs DEF Operation
<1>3. QED  BY <1>1, <1>2 DEF DeployInv, DeployTypes, DeployTypeOK

\* As long as no setter without the lock (a visit's, a publication's default audience, a
\* rename, a transfer) puts back a record that has changed since it read it, every reachable
\* state of a published app is well typed.
THEOREM DeployTypeCorrect == DeploySpec /\ [][~StalePut]_deployVars => []DeployTypeOK
  BY DeployInvTypes, DeployUntilStale, PTL

\* Under the same condition the record tells the truth once an operation has run to its
\* end, a failed restore's clean-up included: a running app has an endpoint and what
\* serves it, if anything does, is its current version; nothing serves an archived one,
\* unless the destroy that took it down failed quietly and left its body.
THEOREM RecordStaysTrue == DeploySpec /\ [][~StalePut]_deployVars => []RecordIsTrue
<1>1. DeployInv => RecordIsTrue
  BY DEF DeployInv, Truthful, Truth, RecordIsTrue
<1>2. QED  BY <1>1, DeployUntilStale, PTL

\* A sequence is a prefix of itself, and of itself with one element more.
LEMMA PrefixOf ==
    ASSUME NEW S, NEW s \in Seq(S), NEW w \in S, NEW t, t = s \/ t = Append(s, w)
    PROVE  IsPrefix(s, t)
<1>1. CASE t = s
  BY <1>1 DEF IsPrefix
<1>2. CASE t = Append(s, w)
  <2>1. t \in Seq(S) /\ Len(t) = Len(s) + 1 /\ \A i \in 1 .. Len(s) : t[i] = s[i]
    BY <1>2, AppendProperties
  <2>2. Len(s) \in Nat
    OBVIOUS
  <2>3. SubSeq(s, 1, Len(s)) \in Seq(S) /\ Len(SubSeq(s, 1, Len(s))) = Len(s)
        /\ \A i \in 1 .. Len(s) : SubSeq(s, 1, Len(s))[i] = s[i]
    BY <2>2
  <2>4. SubSeq(t, 1, Len(s)) \in Seq(S) /\ Len(SubSeq(t, 1, Len(s))) = Len(s)
        /\ \A i \in 1 .. Len(s) : SubSeq(t, 1, Len(s))[i] = t[i]
    BY <2>1, <2>2
  <2>5. SubSeq(s, 1, Len(s)) = SubSeq(t, 1, Len(s))
    BY <2>1, <2>3, <2>4, SeqEqual
  <2>6. QED  BY <2>1, <2>2, <2>5 DEF IsPrefix
<1>3. QED  BY <1>1, <1>2

LEMMA VersionsStep ==
    ASSUME DeployInv, ~StalePut, [DeployNext]_deployVars
    PROVE  IsPrefix(app.versions, app'.versions)
<1>1. app.versions \in Seq(Owners \cup {First})
  BY DEF DeployInv, DeployTypes, App
<1>2. app' = app \/ \E c \in Clients : Puts(c)
  BY DEF DeployNext, deployVars, Orders, Enters, Returns, GivesUp, Gets, Applies, Destroys, Leaves, Throws, Refuses,
         CallerDies, Visits, Resolves, FindsNoBody, VisitEnters, Changes, Ends, BodyEnds
<1>3. CASE app' = app
  <2>1. First \in Owners \cup {First} /\ app'.versions = app.versions
    BY <1>3
  <2>2. QED  BY <1>1, <2>1, PrefixOf
<1>4. ASSUME NEW c \in Clients, Puts(c) PROVE IsPrefix(app.versions, app'.versions)
  <2>1. app'.versions = app.versions \/ (c \in Owners /\ app'.versions = Append(app.versions, c))
    BY <1>4, PutsKeeps
  <2>2. First \in Owners \cup {First} /\ (c \in Owners => c \in Owners \cup {First})
    OBVIOUS
  <2>3. QED  BY <1>1, <2>1, <2>2, PrefixOf
<1>5. QED  BY <1>2, <1>3, <1>4

\* Under the same condition a version once in the record stays in it with the same
\* content, for any number of owners and visitors, whatever throws or dies.
THEOREM VersionsNeverLost == DeploySpec /\ [][~StalePut]_deployVars => VersionsStand
<1>1. DeployInv /\ [~StalePut]_deployVars /\ [DeployNext]_deployVars => [IsPrefix(app.versions, app'.versions)]_deployVars
  BY VersionsStep
<1>2. QED  BY <1>1, DeployUntilStale, PTL DEF DeploySpec, VersionsStand

-----------------------------------------------------------------------------
(* The budget.                                                             *)

\* The records of the turns.
Flow == [at : {"none", "checked", "running", "over"}, who : Keys, cost : 0 .. MaxCost]

\* The dollars that the turns under way may come to, whatever of them is recorded.
Could(k) == {d \in Dollars : d[1] \in UnderWay(k)}

\* What is recorded for a key and what may come stay within what the checks allowed for:
\* each turn that is under way was let in when less than the limit was recorded.
Afforded(k) ==
    \/ Held(k) \cup Could(k) = {}
    \/ Cardinality(Held(k) \cup Could(k)) < Limit(k) + MaxCost * peak[k]

\* A turn that has posted is past its checks, and posts for its principal or for everybody.
PostsOK ==
    \A q \in posts :
        /\ flow[q.turn].at \in {"running", "over"}
        /\ q.key \in {flow[q.turn].who, Org}

\* A turn that was found within a principal's budget is not everybody's.
FlowOK == \A u \in Turns : flow[u].at = "checked" => flow[u].who # Org

\* What holds in every state of the budget.
SpendInv == BudgetTypeOK /\ PostsOK /\ FlowOK /\ \A k \in Keys : Afforded(k)

\* What is assumed of the budget's constants.
LEMMA BudgetBounds ==
    /\ IsFiniteSet(Turns) /\ Org \notin Principals /\ Budget \in Nat /\ OrgBudget \in Nat
    /\ BudgetWindow \in Nat /\ MaxCost \in Nat /\ MaxClock \in Nat /\ MaxBudgetFaults \in Nat
  BY BudgetAssumption

\* There are so many dollars.
LEMMA DollarsFinite == IsFiniteSet(Dollars) /\ Cardinality(Turns) \in Nat
<1>1. IsFiniteSet(1 .. MaxCost)
  BY BudgetBounds, FS_Interval
<1>2. QED  BY <1>1, BudgetBounds, FS_Product, FS_CardinalityType DEF Dollars

\* So many turns come to so many dollars.
LEMMA CouldCost ==
    ASSUME NEW U \in SUBSET Turns
    PROVE  /\ IsFiniteSet({d \in Dollars : d[1] \in U}) /\ Cardinality(U) \in Nat
           /\ Cardinality({d \in Dollars : d[1] \in U}) = MaxCost * Cardinality(U)
<1>1. {d \in Dollars : d[1] \in U} = U \X (1 .. MaxCost)
  BY DEF Dollars
<1>2. IsFiniteSet(U) /\ Cardinality(U) \in Nat
  BY BudgetBounds, FS_Subset, FS_CardinalityType
<1>3. IsFiniteSet(1 .. MaxCost) /\ Cardinality(1 .. MaxCost) = MaxCost
  BY BudgetBounds, FS_Interval
<1>4. IsFiniteSet(U \X (1 .. MaxCost)) /\ Cardinality(U \X (1 .. MaxCost)) = Cardinality(U) * MaxCost
  BY <1>2, <1>3, FS_Product
<1>5. Cardinality(U) * MaxCost = MaxCost * Cardinality(U)
  BY <1>2, BudgetBounds
<1>6. QED  BY <1>1, <1>2, <1>4, <1>5

\* Fewer dollars under the same bound.
LEMMA StaysBelow ==
    ASSUME NEW A \in SUBSET Dollars, NEW B \in SUBSET A, NEW n, A = {} \/ Cardinality(A) < n, n \in Nat
    PROVE  B = {} \/ Cardinality(B) < n
<1>1. IsFiniteSet(A)
  BY DollarsFinite, FS_Subset
<1>2. IsFiniteSet(B) /\ Cardinality(B) <= Cardinality(A) /\ Cardinality(A) \in Nat /\ Cardinality(B) \in Nat
  BY <1>1, FS_Subset, FS_CardinalityType
<1>3. QED  BY <1>2

\* Both are dollars of turns.
LEMMA HeldAndCould ==
    /\ \A k : Held(k) \subseteq Dollars /\ Could(k) \subseteq Dollars /\ UnderWay(k) \subseteq Turns
  BY DEF Held, Could, UnderWay

\* It holds at first.
LEMMA SpendInvInit == BudgetInit => SpendInv
<1>1. SUFFICES ASSUME BudgetInit PROVE SpendInv
  OBVIOUS
<1>2. BudgetTypeOK
  BY <1>1, BudgetBounds, DollarsFinite DEF BudgetInit, BudgetTypeOK, Clocks, Keys
<1>3. PostsOK /\ FlowOK
  BY <1>1 DEF BudgetInit, PostsOK, FlowOK
<1>4. ASSUME NEW k \in Keys PROVE Afforded(k)
  <2>1. UnderWay(k) = {}
    BY <1>1 DEF BudgetInit, UnderWay
  <2>2. Held(k) = {}
    BY <1>1, <1>4 DEF BudgetInit, Held, Keys
  <2>3. Could(k) = {}
    BY <2>1 DEF Could
  <2>4. QED  BY <2>2, <2>3 DEF Afforded
<1>5. QED  BY <1>2, <1>3, <1>4 DEF SpendInv

\* A limit is a number.
LEMMA LimitNat == ASSUME NEW k PROVE Limit(k) \in Nat
  BY BudgetBounds DEF Limit

\* Dollars move from what may come to what is recorded, or drop out.
LEMMA ShrinkKeeps ==
    ASSUME NEW k \in Keys, Afforded(k), Held(k)' \subseteq Held(k) \cup Could(k), UnderWay(k)' \subseteq UnderWay(k),
           peak'[k] = peak[k], peak[k] \in Nat
    PROVE  Afforded(k)'
<1>. DEFINE A == Held(k) \cup Could(k)
            B == Held(k)' \cup Could(k)'
            n == Limit(k) + MaxCost * peak[k]
<1>1. Could(k)' \subseteq Could(k)
  BY DEF Could, Dollars
<1>2. B \in SUBSET A /\ A \in SUBSET Dollars
  BY <1>1, HeldAndCould
<1>3. n \in Nat
  BY LimitNat, BudgetBounds
<1>4. A = {} \/ Cardinality(A) < n
  BY DEF Afforded
<1>5. Limit(k)' + MaxCost * peak'[k] = n
  BY DEF Limit
<1>. HIDE DEF A, B, n
<1>6. B = {} \/ Cardinality(B) < n
  BY <1>2, <1>3, <1>4, StaysBelow
<1>7. QED  BY <1>5, <1>6 DEF Afforded, A, B, n

\* A turn is let in while the limit is not reached.
LEMMA CheckKeeps ==
    ASSUME NEW k \in Keys, NEW u \in Turns, Within(k), Held(k)' = Held(k), UnderWay(k)' \subseteq UnderWay(k) \cup {u},
           peak'[k] \in Nat, peak'[k] >= Cardinality(UnderWay(k)) + 1
    PROVE  Afforded(k)'
<1>. DEFINE H == Held(k)
            U == UnderWay(k)'
            C == Could(k)'
<1>1. H \subseteq Dollars /\ U \subseteq Turns /\ UnderWay(k) \subseteq Turns
  BY HeldAndCould DEF UnderWay
<1>2. IsFiniteSet(H) /\ Cardinality(H) \in Nat /\ Cardinality(H) < Limit(k)
  BY <1>1, DollarsFinite, FS_Subset, FS_CardinalityType DEF Within, Spent
<1>3. C = {d \in Dollars : d[1] \in U}
  BY DEF Could, Dollars
<1>4. IsFiniteSet(C) /\ Cardinality(C) = MaxCost * Cardinality(U) /\ Cardinality(U) \in Nat
  BY <1>1, <1>3, CouldCost
<1>5. Cardinality(U) <= peak'[k]
  <2>1. IsFiniteSet(UnderWay(k)) /\ IsFiniteSet(UnderWay(k) \cup {u})
    BY <1>1, BudgetBounds, FS_Subset, FS_AddElement
  <2>2. Cardinality(UnderWay(k) \cup {u}) <= Cardinality(UnderWay(k)) + 1
    BY <2>1, FS_AddElement, FS_CardinalityType
  <2>3. Cardinality(U) <= Cardinality(UnderWay(k) \cup {u})
    BY <2>1, FS_Subset
  <2>4. Cardinality(UnderWay(k)) \in Nat /\ Cardinality(UnderWay(k) \cup {u}) \in Nat
    BY <2>1, FS_CardinalityType
  <2>5. QED  BY <1>4, <2>2, <2>3, <2>4
<1>. HIDE DEF H, U, C
<1>6. Cardinality(H \cup C) <= Cardinality(H) + Cardinality(C) /\ Cardinality(H \cup C) \in Nat
  <2>1. IsFiniteSet(H \cap C) /\ IsFiniteSet(H \cup C)
    BY <1>2, <1>4, FS_Union, FS_Intersection
  <2>2. Cardinality(H \cup C) = Cardinality(H) + Cardinality(C) - Cardinality(H \cap C)
    BY <1>2, <1>4, FS_Union
  <2>3. Cardinality(H \cap C) \in Nat /\ Cardinality(H \cup C) \in Nat /\ Cardinality(C) \in Nat
    BY <1>4, <2>1, FS_CardinalityType
  <2>4. QED  BY <1>2, <2>2, <2>3
<1>7. MaxCost * Cardinality(U) <= MaxCost * peak'[k]
  BY <1>4, <1>5, BudgetBounds
<1>8. Cardinality(H \cup C) < Limit(k) + MaxCost * peak'[k]
  <2>1. MaxCost * peak'[k] \in Nat /\ MaxCost * Cardinality(U) \in Nat
    BY <1>4, BudgetBounds
  <2>2. QED  BY <1>2, <1>4, <1>6, <1>7, <2>1, LimitNat
<1>9. Limit(k)' = Limit(k)
  BY DEF Limit
<1>10. QED  BY <1>8, <1>9 DEF Afforded, H, C

\* The peak of a key, when one more turn is let in.
LEMMA GrownIs ==
    ASSUME BudgetTypeOK, NEW k \in Keys, NEW u \in Turns, u \notin UnderWay(k)
    PROVE  Grown(k) \in 0 .. Cardinality(Turns) /\ Grown(k) >= Cardinality(UnderWay(k)) + 1
<1>1. UnderWay(k) \subseteq Turns \ {u}
  BY HeldAndCould
<1>2. IsFiniteSet(Turns \ {u}) /\ Cardinality(Turns \ {u}) = Cardinality(Turns) - 1
  BY BudgetBounds, FS_RemoveElement
<1>3. IsFiniteSet(UnderWay(k)) /\ Cardinality(UnderWay(k)) <= Cardinality(Turns \ {u})
  BY <1>1, <1>2, FS_Subset
<1>4. Cardinality(UnderWay(k)) \in Nat /\ Cardinality(Turns) \in Nat
  BY <1>3, DollarsFinite, FS_CardinalityType
<1>5. peak[k] \in 0 .. Cardinality(Turns)
  BY DEF BudgetTypeOK
<1>. DEFINE n == Cardinality(UnderWay(k)) + 1
<1>6. Grown(k) = IF n > peak[k] THEN n ELSE peak[k]
  BY DEF Grown
<1>7. n \in 0 .. Cardinality(Turns)
  BY <1>2, <1>3, <1>4
<1>. HIDE DEF n
<1>8. QED  BY <1>4, <1>5, <1>6, <1>7 DEF n

\* What the invariant says of each variable.
LEMMA SpendTypes ==
    ASSUME SpendInv
    PROVE  /\ instant \in Clocks /\ posts \subseteq Posting /\ budgetFaults \in 0 .. MaxBudgetFaults
           /\ flow \in [Turns -> Flow] /\ spend \in [Keys -> [Dollars -> Clocks \cup {Unspent}]]
           /\ peak \in [Keys -> 0 .. Cardinality(Turns)]
           /\ \A k \in Keys : peak[k] \in Nat /\ Afforded(k)
           /\ PostsOK /\ FlowOK /\ Org \in Keys /\ Principals \subseteq Keys
<1>1. peak \in [Keys -> 0 .. Cardinality(Turns)] => \A k \in Keys : peak[k] \in Nat
  BY DollarsFinite
<1>2. QED  BY <1>1 DEF SpendInv, BudgetTypeOK, Flow, Keys

\* Nothing but the clock or the turns under way changes for a key, and no turn is added.
LEMMA SameHeld ==
    ASSUME SpendInv, spend' = spend, instant' = instant, peak' = peak, NEW k \in Keys, UnderWay(k)' \subseteq UnderWay(k)
    PROVE  Afforded(k)'
<1>1. Held(k)' = Held(k)
  BY DEF Held, Dollars
<1>2. QED  BY <1>1, SpendTypes, ShrinkKeeps

\* The clock runs: dollars only leave the window.
LEMMA TicksKeeps == ASSUME SpendInv, ClockTicks PROVE SpendInv'
<1>1. instant' = instant + 1 /\ instant < MaxClock /\ UNCHANGED flow /\ UNCHANGED posts /\ UNCHANGED spend
      /\ UNCHANGED peak /\ UNCHANGED budgetFaults
  BY DEF ClockTicks
<1>2. BudgetTypeOK'
  BY <1>1, BudgetBounds DEF SpendInv, BudgetTypeOK, Clocks
<1>3. PostsOK' /\ FlowOK'
  BY <1>1 DEF SpendInv, PostsOK, FlowOK
<1>4. ASSUME NEW k \in Keys PROVE Afforded(k)'
  <2>1. UnderWay(k)' = UnderWay(k)
    BY <1>1 DEF UnderWay
  <2>2. spend[k] \in [Dollars -> Clocks \cup {Unspent}] /\ instant \in Int
    BY <1>4, SpendTypes DEF Clocks
  <2>3. Held(k)' \subseteq Held(k)
    <3>1. SUFFICES ASSUME NEW d \in Held(k)' PROVE d \in Held(k)
      OBVIOUS
    <3>2. d \in Dollars /\ spend'[k][d] # Unspent /\ spend'[k][d] >= instant' - BudgetWindow
      BY <3>1 DEF Held, Dollars, Unspent
    <3>3. spend' = spend /\ instant' = instant + 1
      BY <1>1
    <3>4. spend[k][d] # Unspent /\ spend[k][d] >= instant' - BudgetWindow
      BY <3>2, <3>3, Zenon
    <3>5. spend[k][d] \in Int
      BY <2>2, <3>2, <3>4 DEF Clocks
    <3>6. spend[k][d] >= instant - BudgetWindow
      BY <2>2, <3>3, <3>4, <3>5, BudgetBounds
    <3>7. QED  BY <3>2, <3>4, <3>6 DEF Held
  <2>4. QED  BY <1>1, <1>4, <2>1, <2>3, SpendTypes, ShrinkKeeps
<1>5. QED  BY <1>2, <1>3, <1>4 DEF SpendInv

\* A turn that has not arrived is not under way.
LEMMA NotYetUnderWay ==
    ASSUME SpendInv, NEW u \in Turns, NEW k \in Keys,
           flow[u].at = "none" \/ (flow[u].at = "checked" /\ k = Org)
    PROVE  u \notin UnderWay(k)
  BY SpendTypes DEF UnderWay, PostsOK

\* A turn ends.
LEMMA EndsKeeps ==
    ASSUME SpendInv, NEW u \in Turns, NEW f \in Flow, f.at = "over", f.who = flow[u].who,
           flow' = [flow EXCEPT ![u] = f], peak' = peak, UNCHANGED <<instant, posts, spend, budgetFaults>>
    PROVE  SpendInv'
<1>1. UNCHANGED instant /\ UNCHANGED posts /\ UNCHANGED spend /\ UNCHANGED budgetFaults
      /\ flow'[u] = f /\ \A w \in Turns : w # u => flow'[w] = flow[w]
  BY SpendTypes
<1>2. BudgetTypeOK'
  <2>1. flow' \in [Turns -> Flow]
    BY SpendTypes
  <2>2. QED  BY <1>1, <2>1, SpendTypes DEF BudgetTypeOK, Flow
<1>3. \A q \in posts : q.turn \in Turns
  BY SpendTypes DEF Posting
<1>4. PostsOK' /\ FlowOK'
  BY <1>1, <1>3, SpendTypes DEF PostsOK, FlowOK
<1>5. ASSUME NEW k \in Keys PROVE Afforded(k)'
  <2>1. UnderWay(k)' \subseteq UnderWay(k)
    BY <1>1 DEF UnderWay
  <2>2. QED  BY <1>1, <1>5, <2>1, SameHeld
<1>6. QED  BY <1>2, <1>4, <1>5 DEF SpendInv

\* A turn is let in when its principal has spent less than the limit.
LEMMA ChecksOwnKeeps == ASSUME SpendInv, NEW u \in Turns, NEW p \in Principals, ChecksOwn(u, p) PROVE SpendInv'
<1>0. p \in Keys /\ p # Org /\ flow[u] \in Flow
  BY BudgetBounds, SpendTypes
<1>1. flow[u].at = "none" /\ UNCHANGED instant /\ UNCHANGED posts /\ UNCHANGED spend /\ UNCHANGED budgetFaults
  BY DEF ChecksOwn
<1>2. \A k \in Keys : u \notin UnderWay(k)
  BY <1>1, NotYetUnderWay
<1>3. \A q \in posts : q.turn # u /\ q.turn \in Turns
  BY <1>1, SpendTypes DEF PostsOK, Posting
<1>4. \A k \in Keys : Held(k)' = Held(k)
  BY <1>1 DEF Held, Dollars
<1>5. CASE Within(p)
  <2>. DEFINE f == [flow[u] EXCEPT !.at = "checked", !.who = p]
  <2>1. flow' = [flow EXCEPT ![u] = f] /\ peak' = [peak EXCEPT ![p] = Grown(p)]
    BY <1>5 DEF ChecksOwn
  <2>2. f \in Flow /\ f.at = "checked" /\ f.who = p
    BY <1>0 DEF Flow
  <2>. HIDE DEF f
  <2>3. flow'[u] = f /\ \A w \in Turns : w # u => flow'[w] = flow[w]
    BY <2>1, SpendTypes
  <2>4. Grown(p) \in 0 .. Cardinality(Turns) /\ Grown(p) >= Cardinality(UnderWay(p)) + 1
    BY <1>0, <1>2, GrownIs DEF SpendInv
  <2>5. peak' \in [Keys -> 0 .. Cardinality(Turns)] /\ peak'[p] = Grown(p)
        /\ \A k \in Keys : k # p => peak'[k] = peak[k]
    BY <1>0, <2>1, <2>4, SpendTypes
  <2>6. BudgetTypeOK'
    <3>1. flow' \in [Turns -> Flow]
      BY <2>1, <2>2, SpendTypes
    <3>2. QED  BY <1>1, <2>5, <3>1, SpendTypes DEF BudgetTypeOK, Flow
  <2>7. PostsOK' /\ FlowOK'
    BY <1>0, <1>1, <1>3, <2>2, <2>3, SpendTypes DEF PostsOK, FlowOK
  <2>8. \A k \in Keys : UnderWay(k)' \subseteq UnderWay(k) \cup IF k = p THEN {u} ELSE {}
    <3>1. SUFFICES ASSUME NEW k \in Keys, NEW w \in UnderWay(k)', w \notin UnderWay(k)
                   PROVE  k = p /\ w = u
      OBVIOUS
    <3>2. w \in Turns /\ w = u
      BY <1>1, <2>3, <3>1 DEF UnderWay
    <3>3. k = p
      BY <1>1, <1>3, <2>2, <2>3, <3>1, <3>2 DEF UnderWay
    <3>4. QED  BY <3>2, <3>3
  <2>9. ASSUME NEW k \in Keys PROVE Afforded(k)'
    <3>1. CASE k = p
      <4>1. UnderWay(p)' \subseteq UnderWay(p) \cup {u}
        BY <1>0, <2>8
      <4>2. peak'[p] \in Nat /\ peak'[p] >= Cardinality(UnderWay(p)) + 1
        BY <2>4, <2>5, DollarsFinite
      <4>3. QED  BY <1>0, <1>4, <1>5, <3>1, <4>1, <4>2, CheckKeeps
    <3>2. CASE k # p
      <4>1. UnderWay(k)' \subseteq UnderWay(k) /\ Held(k)' \subseteq Held(k) /\ Could(k)' \subseteq Could(k)
        BY <1>4, <2>8, <2>9, <3>2 DEF Could, Dollars
      <4>2. peak'[k] = peak[k] /\ Afforded(k) /\ peak[k] \in Nat
        BY <2>5, <2>9, <3>2, SpendTypes
      <4>3. QED  BY <2>9, <4>1, <4>2, ShrinkKeeps
    <3>3. QED  BY <3>1, <3>2
  <2>10. QED  BY <2>6, <2>7, <2>9 DEF SpendInv
<1>6. CASE ~Within(p)
  <2>. DEFINE f == [flow[u] EXCEPT !.at = "over"]
  <2>1. flow' = [flow EXCEPT ![u] = f] /\ peak' = peak
    BY <1>6 DEF ChecksOwn
  <2>2. f \in Flow /\ f.at = "over" /\ f.who = flow[u].who
    BY <1>0 DEF Flow
  <2>. HIDE DEF f
  <2>3. QED  BY <1>1, <1>3, <2>1, <2>2, EndsKeeps
<1>7. QED  BY <1>5, <1>6

\* The same for everybody's spend.
LEMMA ChecksOrgKeeps == ASSUME SpendInv, NEW u \in Turns, ChecksOrg(u) PROVE SpendInv'
<1>0. Org \in Keys /\ flow[u] \in Flow
  BY SpendTypes
<1>1. flow[u].at = "checked" /\ UNCHANGED instant /\ UNCHANGED posts /\ UNCHANGED spend /\ UNCHANGED budgetFaults
  BY DEF ChecksOrg
<1>2. u \notin UnderWay(Org) /\ flow[u].who # Org
  BY <1>0, <1>1, NotYetUnderWay, SpendTypes DEF FlowOK
<1>3. \A q \in posts : q.turn # u /\ q.turn \in Turns
  BY <1>1, SpendTypes DEF PostsOK, Posting
<1>4. \A k \in Keys : Held(k)' = Held(k)
  BY <1>1 DEF Held, Dollars
<1>5. CASE Within(Org)
  <2>. DEFINE f == [flow[u] EXCEPT !.at = "running"]
  <2>1. flow' = [flow EXCEPT ![u] = f] /\ peak' = [peak EXCEPT ![Org] = Grown(Org)]
    BY <1>5 DEF ChecksOrg
  <2>2. f \in Flow /\ f.at = "running" /\ f.who = flow[u].who
    BY <1>0 DEF Flow
  <2>. HIDE DEF f
  <2>3. flow'[u] = f /\ \A w \in Turns : w # u => flow'[w] = flow[w]
    BY <2>1, SpendTypes
  <2>4. Grown(Org) \in 0 .. Cardinality(Turns) /\ Grown(Org) >= Cardinality(UnderWay(Org)) + 1
    BY <1>0, <1>2, GrownIs DEF SpendInv
  <2>5. peak' \in [Keys -> 0 .. Cardinality(Turns)] /\ peak'[Org] = Grown(Org)
        /\ \A k \in Keys : k # Org => peak'[k] = peak[k]
    BY <1>0, <2>1, <2>4, SpendTypes
  <2>6. BudgetTypeOK'
    <3>1. flow' \in [Turns -> Flow]
      BY <2>1, <2>2, SpendTypes
    <3>2. QED  BY <1>1, <2>5, <3>1, SpendTypes DEF BudgetTypeOK, Flow
  <2>7. PostsOK' /\ FlowOK'
    BY <1>0, <1>1, <1>3, <2>2, <2>3, SpendTypes DEF PostsOK, FlowOK
  <2>8. \A k \in Keys : UnderWay(k)' \subseteq UnderWay(k) \cup IF k = Org THEN {u} ELSE {}
    <3>1. SUFFICES ASSUME NEW k \in Keys, NEW w \in UnderWay(k)', w \notin UnderWay(k)
                   PROVE  k = Org /\ w = u
      OBVIOUS
    <3>2. w \in Turns /\ w = u
      BY <1>1, <2>3, <3>1 DEF UnderWay
    <3>3. k = Org
      BY <1>1, <1>3, <2>2, <2>3, <3>1, <3>2 DEF UnderWay
    <3>4. QED  BY <3>2, <3>3
  <2>9. ASSUME NEW k \in Keys PROVE Afforded(k)'
    <3>1. CASE k = Org
      <4>1. UnderWay(Org)' \subseteq UnderWay(Org) \cup {u}
        BY <1>0, <2>8
      <4>2. peak'[Org] \in Nat /\ peak'[Org] >= Cardinality(UnderWay(Org)) + 1
        BY <2>4, <2>5, DollarsFinite
      <4>3. QED  BY <1>0, <1>4, <1>5, <3>1, <4>1, <4>2, CheckKeeps
    <3>2. CASE k # Org
      <4>1. UnderWay(k)' \subseteq UnderWay(k) /\ Held(k)' \subseteq Held(k)
        BY <1>4, <2>8, <2>9, <3>2
      <4>2. peak'[k] = peak[k] /\ Afforded(k) /\ peak[k] \in Nat
        BY <2>5, <2>9, <3>2, SpendTypes
      <4>3. QED  BY <2>9, <4>1, <4>2, ShrinkKeeps
    <3>3. QED  BY <3>1, <3>2
  <2>10. QED  BY <2>6, <2>7, <2>9 DEF SpendInv
<1>6. CASE ~Within(Org)
  <2>. DEFINE f == [flow[u] EXCEPT !.at = "over"]
  <2>1. flow' = [flow EXCEPT ![u] = f] /\ peak' = peak
    BY <1>6 DEF ChecksOrg
  <2>2. f \in Flow /\ f.at = "over" /\ f.who = flow[u].who
    BY <1>0 DEF Flow
  <2>. HIDE DEF f
  <2>3. QED  BY <1>1, <2>1, <2>2, EndsKeeps
<1>7. QED  BY <1>5, <1>6

\* A turn that ends may still have spend on its way.
LEMMA OverKeepsFlow == ASSUME SpendInv, NEW u \in Turns, TurnOver(u) PROVE SpendInv'
<1>. DEFINE f == [flow[u] EXCEPT !.at = "over"]
<1>1. flow' = [flow EXCEPT ![u] = f] /\ peak' = peak /\ UNCHANGED <<instant, posts, spend, budgetFaults>>
  BY DEF TurnOver
<1>2. flow[u] \in Flow
  BY SpendTypes
<1>3. f \in Flow /\ f.at = "over" /\ f.who = flow[u].who
  BY <1>2 DEF Flow
<1>. HIDE DEF f
<1>4. QED  BY <1>1, <1>3, EndsKeeps

\* Metered spend belongs to a turn that is under way.
LEMMA MetersKeeps == ASSUME SpendInv, NEW u \in Turns, NEW usd \in 1 .. MaxCost, Meters(u, usd) PROVE SpendInv'
<1>0. flow[u] \in Flow /\ flow[u].cost \in 0 .. MaxCost /\ flow[u].who \in Keys
  BY SpendTypes DEF Flow
<1>. DEFINE c == flow[u].cost + usd
            f == [flow[u] EXCEPT !.cost = c]
            q == [turn |-> u, upto |-> c, usd |-> usd, at |-> instant, key |-> flow[u].who]
<1>1. flow[u].at = "running" /\ c <= MaxCost /\ flow' = [flow EXCEPT ![u] = f]
      /\ UNCHANGED instant /\ UNCHANGED spend /\ UNCHANGED peak /\ UNCHANGED budgetFaults
  BY DEF Meters
<1>2. c \in 1 .. MaxCost /\ c \in 0 .. MaxCost
  BY <1>0, <1>1, BudgetBounds
<1>. HIDE DEF c
<1>3. f \in Flow /\ f.at = "running" /\ f.who = flow[u].who /\ f.cost = c
  BY <1>0, <1>1, <1>2 DEF Flow
<1>4. flow'[u] = f /\ flow' \in [Turns -> Flow] /\ \A w \in Turns : w # u => flow'[w] = flow[w]
  BY <1>1, <1>3, SpendTypes
<1>. HIDE DEF f
<1>5. posts' = posts \cup {q}
  BY <1>3, <1>4 DEF Meters
<1>6. q \in Posting /\ q.turn = u /\ q.key = flow[u].who
  BY <1>0, <1>2, SpendTypes DEF Posting
<1>. HIDE DEF q
<1>7. BudgetTypeOK'
  BY <1>1, <1>4, <1>5, <1>6, SpendTypes DEF BudgetTypeOK, Flow
<1>8. \A p \in posts : p.turn \in Turns
  BY SpendTypes DEF Posting
<1>9. PostsOK' /\ FlowOK'
  BY <1>1, <1>3, <1>4, <1>5, <1>6, <1>8, SpendTypes DEF PostsOK, FlowOK
<1>10. ASSUME NEW k \in Keys PROVE Afforded(k)'
  <2>1. UnderWay(k)' \subseteq UnderWay(k)
    BY <1>1, <1>3, <1>4, <1>5, <1>6 DEF UnderWay
  <2>2. QED  BY <1>1, <1>10, <2>1, SameHeld
<1>11. QED  BY <1>7, <1>9, <1>10 DEF SpendInv

\* Spend that is not recorded is never held.
LEMMA RecordFailsKeeps == ASSUME SpendInv, NEW q \in posts, RecordFails(q) PROVE SpendInv'
<1>1. posts' = posts \ {q} /\ budgetFaults' = budgetFaults + 1 /\ budgetFaults < MaxBudgetFaults
      /\ UNCHANGED instant /\ UNCHANGED flow /\ UNCHANGED spend /\ UNCHANGED peak
  BY DEF RecordFails
<1>2. BudgetTypeOK'
  BY <1>1, BudgetBounds DEF SpendInv, BudgetTypeOK
<1>3. PostsOK' /\ FlowOK'
  BY <1>1 DEF SpendInv, PostsOK, FlowOK
<1>4. ASSUME NEW k \in Keys PROVE Afforded(k)'
  <2>1. UnderWay(k)' \subseteq UnderWay(k)
    BY <1>1 DEF UnderWay
  <2>2. QED  BY <1>1, <1>4, <2>1, SameHeld
<1>5. QED  BY <1>2, <1>3, <1>4 DEF SpendInv

\* Recorded dollars are dollars that the turn could come to.
LEMMA RecordsKeeps == ASSUME SpendInv, NEW q \in posts, Records(q) PROVE SpendInv'
<1>. DEFINE r == [q EXCEPT !.key = Org]
            paid == [d \in Dollars |-> IF d \in Paid(q) THEN q.at ELSE spend[q.key][d]]
<1>1. q \in Posting /\ q.turn \in Turns /\ q.key \in Keys /\ q.at \in Clocks /\ Org \in Keys
      /\ flow[q.turn].at \in {"running", "over"} /\ q.key \in {flow[q.turn].who, Org}
  BY SpendTypes DEF Posting, PostsOK
<1>2. posts' \subseteq (posts \ {q}) \cup {r} /\ UNCHANGED instant /\ UNCHANGED flow /\ UNCHANGED peak
      /\ UNCHANGED budgetFaults
  BY DEF Records
<1>3. r \in Posting /\ r.turn = q.turn /\ r.key = Org
  BY <1>1 DEF Posting
<1>. HIDE DEF r
<1>4. spend' = [spend EXCEPT ![q.key] = paid]
  BY <1>1, SpendTypes DEF Records, Added
<1>5. paid \in [Dollars -> Clocks \cup {Unspent}]
  BY <1>1, SpendTypes
<1>6. \A d \in Dollars : paid[d] # spend[q.key][d] => d[1] = q.turn
  BY DEF Paid
<1>. HIDE DEF paid
<1>7. spend' \in [Keys -> [Dollars -> Clocks \cup {Unspent}]] /\ spend'[q.key] = paid
      /\ \A k \in Keys : k # q.key => spend'[k] = spend[k]
  BY <1>1, <1>4, <1>5, SpendTypes
<1>8. BudgetTypeOK'
  BY <1>2, <1>3, <1>7, SpendTypes DEF BudgetTypeOK, Flow
<1>9. PostsOK' /\ FlowOK'
  BY <1>1, <1>2, <1>3, SpendTypes DEF PostsOK, FlowOK
<1>10. ASSUME NEW k \in Keys PROVE Afforded(k)'
  <2>1. UnderWay(k)' \subseteq UnderWay(k)
    BY <1>1, <1>2, <1>3 DEF UnderWay
  <2>2. Held(k)' \subseteq Held(k) \cup Could(k)
    <3>1. CASE k # q.key
      <4>1. spend'[k] = spend[k]
        BY <1>7, <1>10, <3>1
      <4>2. QED  BY <1>2, <4>1 DEF Held, Dollars
    <3>2. CASE k = q.key
      <4>1. q.turn \in UnderWay(k)
        BY <1>1, <3>2 DEF UnderWay
      <4>2. ASSUME NEW d \in Dollars, d \notin Could(k) PROVE spend'[k][d] = spend[k][d]
        <5>1. d[1] # q.turn
          BY <4>1, <4>2 DEF Could
        <5>2. QED  BY <1>6, <1>7, <3>2, <4>2, <5>1
      <4>3. Held(k)' = {d \in Dollars : spend'[k][d] # Unspent /\ spend'[k][d] >= instant - BudgetWindow}
        BY <1>2 DEF Held, Dollars
      <4>4. QED  BY <4>2, <4>3 DEF Held
    <3>3. QED  BY <3>1, <3>2
  <2>3. QED  BY <1>2, <1>10, <2>1, <2>2, SpendTypes, ShrinkKeeps
<1>11. QED  BY <1>8, <1>9, <1>10 DEF SpendInv

\* The invariant holds in every reachable state.
LEMMA SpendAlways == BudgetSpec => []SpendInv
<1>1. SpendInv /\ [BudgetNext]_budgetVars => SpendInv'
  <2>1. SUFFICES ASSUME SpendInv, [BudgetNext]_budgetVars PROVE SpendInv'
    OBVIOUS
  <2>2. CASE UNCHANGED budgetVars
    <3>1. UNCHANGED instant /\ UNCHANGED flow /\ UNCHANGED posts /\ UNCHANGED spend /\ UNCHANGED peak
          /\ UNCHANGED budgetFaults
      BY <2>2 DEF budgetVars
    <3>2. BudgetTypeOK' /\ PostsOK' /\ FlowOK'
      BY <2>1, <3>1 DEF SpendInv, BudgetTypeOK, PostsOK, FlowOK
    <3>3. ASSUME NEW k \in Keys PROVE Afforded(k)'
      <4>1. UnderWay(k)' \subseteq UnderWay(k)
        BY <3>1 DEF UnderWay
      <4>2. QED  BY <2>1, <3>1, <3>3, <4>1, SameHeld
    <3>4. QED  BY <3>2, <3>3 DEF SpendInv
  <2>3. CASE BudgetNext
    BY <2>1, <2>3, TicksKeeps, ChecksOrgKeeps, OverKeepsFlow, ChecksOwnKeeps, MetersKeeps, RecordsKeeps,
       RecordFailsKeeps DEF BudgetNext
  <2>4. QED  BY <2>1, <2>2, <2>3
<1>2. QED  BY <1>1, SpendInvInit, PTL DEF BudgetSpec

\* Every reachable state of the budget, its turns and the spend on its way is well typed.
THEOREM BudgetTypeCorrect == BudgetSpec => []BudgetTypeOK
<1>1. SpendInv => BudgetTypeOK
  BY DEF SpendInv
<1>2. QED  BY <1>1, SpendAlways, PTL

\* Turns that are under way together pass the budget by no more than what the most that
\* ever were so at once may cost, for any number of turns, principals, costs and failures.
THEOREM OverrunStaysBounded == BudgetSpec => []OverrunBounded
<1>1. SpendInv => OverrunBounded
  <2>1. SUFFICES ASSUME SpendInv, NEW k \in Keys PROVE Spent(k) = 0 \/ Spent(k) < Limit(k) + MaxCost * peak[k]
    BY DEF OverrunBounded
  <2>. DEFINE A == Held(k) \cup Could(k)
              n == Limit(k) + MaxCost * peak[k]
  <2>2. A \in SUBSET Dollars /\ Held(k) \in SUBSET A
    BY HeldAndCould
  <2>3. n \in Nat
    <3>1. peak[k] \in Nat
      BY <2>1, SpendTypes
    <3>2. Limit(k) \in Nat /\ MaxCost \in Nat
      BY LimitNat, BudgetBounds
    <3>3. MaxCost * peak[k] \in Nat
      BY <3>1, <3>2
    <3>4. QED  BY <3>2, <3>3
  <2>4. A = {} \/ Cardinality(A) < n
    BY <2>1 DEF SpendInv, Afforded
  <2>. HIDE DEF A, n
  <2>5. Held(k) = {} \/ Cardinality(Held(k)) < n
    BY <2>2, <2>3, <2>4, StaysBelow
  <2>6. QED  BY <2>5, FS_EmptySet DEF Spent, n
<1>2. QED  BY <1>1, SpendAlways, PTL
=============================================================================
