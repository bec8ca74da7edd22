---------------------------- MODULE SignalProofs ----------------------------
(***************************************************************************)
(* Theorems about the signals of a run (RunSignals): no signal is heard    *)
(* twice, and a poll that was stopped stays quiet.                         *)
(*                                                                         *)
(* A signal that was not heard yet is in at most one of the lists it can   *)
(* be in: the rows of its run, the batch of one poll, or the list that one *)
(* sender or sweep took out to replay.  HeardInv says so of all the lists  *)
(* together (Lane); each step moves a list, appends one signal that is in  *)
(* none, or takes the first signal of one away.                            *)
(***************************************************************************)
EXTENDS RunSignals, TLAPS

-----------------------------------------------------------------------------
PollRow == [run : SigRuns \cup {Nobody}, drain : {"no", "asked", "busy"}, again : BOOLEAN,
            at : {"none", "open", "stopping", "closed", "dead"}, batch : Seq(Signals)]

SenderRow == [at : {"idle", "chosen", "sent", "replay", "accepted", "refused", "done"},
              run : SigRuns \cup {Nobody}]

RunRow == [at : {"pending", "running", "terminal"}, owner : Polls \cup {Nobody}]

Fates == {"none", "heard", "fresh", "skipped", "dropped", "refused", "lost"}

LEMMA PollChanges ==
    ASSUME NEW q \in PollRow
    PROVE  /\ \A at \in {"open", "stopping", "closed"} : [q EXCEPT !.at = at] \in PollRow
           /\ Ask(q) \in PollRow
           /\ \A b \in Seq(Signals) : [q EXCEPT !.batch = b] \in PollRow
           /\ \A b \in Seq(Signals) : [q EXCEPT !.drain = "busy", !.batch = b] \in PollRow
           /\ \A d \in {"no", "asked"} : [q EXCEPT !.drain = d, !.again = FALSE] \in PollRow
<1>1. \A at \in {"open", "stopping", "closed"} : [q EXCEPT !.at = at] \in PollRow
  BY DEF PollRow
<1>2. [q EXCEPT !.drain = "asked"] \in PollRow
  BY DEF PollRow
<1>3. [q EXCEPT !.again = TRUE] \in PollRow
  BY DEF PollRow
<1>4. Ask(q) \in PollRow
  BY <1>2, <1>3 DEF Ask
<1>5. \A b \in Seq(Signals) : [q EXCEPT !.batch = b] \in PollRow
  BY DEF PollRow
<1>6. \A b \in Seq(Signals) : [q EXCEPT !.drain = "busy", !.batch = b] \in PollRow
  BY DEF PollRow
<1>7. \A d \in {"no", "asked"} : [q EXCEPT !.drain = d, !.again = FALSE] \in PollRow
  BY DEF PollRow
<1>8. QED  BY <1>1, <1>4, <1>5, <1>6, <1>7

LEMMA FreshPolls ==
    \A r \in SigRuns \cup {Nobody}, at \in {"open", "dead"} :
        /\ [NoPoll EXCEPT !.run = r, !.at = at] \in PollRow
        /\ [NoPoll EXCEPT !.run = r, !.at = at].run = r
        /\ [NoPoll EXCEPT !.run = r, !.at = at].at = at
        /\ [NoPoll EXCEPT !.run = r, !.at = at].drain = "no"
        /\ [NoPoll EXCEPT !.run = r, !.at = at].batch = <<>>
<1>. SUFFICES ASSUME NEW r \in SigRuns \cup {Nobody}, NEW at \in {"open", "dead"}
              PROVE  /\ [NoPoll EXCEPT !.run = r, !.at = at] \in PollRow
                     /\ [NoPoll EXCEPT !.run = r, !.at = at].run = r
                     /\ [NoPoll EXCEPT !.run = r, !.at = at].at = at
                     /\ [NoPoll EXCEPT !.run = r, !.at = at].drain = "no"
                     /\ [NoPoll EXCEPT !.run = r, !.at = at].batch = <<>>
  OBVIOUS
<1>1. NoPoll \in PollRow /\ NoPoll.drain = "no" /\ NoPoll.batch = <<>>
  BY DEF NoPoll, PollRow
<1>2. \A q \in PollRow : /\ [q EXCEPT !.run = r, !.at = at] \in PollRow
                          /\ [q EXCEPT !.run = r, !.at = at].run = r
                          /\ [q EXCEPT !.run = r, !.at = at].at = at
                          /\ [q EXCEPT !.run = r, !.at = at].drain = q.drain
                          /\ [q EXCEPT !.run = r, !.at = at].batch = q.batch
  BY DEF PollRow
<1>3. QED  BY <1>1, <1>2

\* What an action makes of a poll.
LEMMA PollAction ==
    ASSUME poll \in [Polls -> PollRow], rows \in [SigRuns -> Seq(Signals)], NEW p \in Polls
    PROVE  /\ \A r \in SigRuns : Starts(p, r) =>
                /\ poll' = [poll EXCEPT ![p] = [NoPoll EXCEPT !.run = r, !.at = "open"]]
                /\ poll[p].at = "none"
           /\ PollAsks(p) => poll' = [poll EXCEPT ![p] = Ask(poll[p])] /\ poll[p].at = "open"
           /\ PollTakes(p) => poll' = [poll EXCEPT ![p] =
                                 [poll[p] EXCEPT !.drain = "busy", !.batch = Taken(poll[p].run)]]
           /\ PollHandles(p) => poll' = [poll EXCEPT ![p] = [poll[p] EXCEPT !.batch = Tail(poll[p].batch)]]
           /\ PollThrows(p) => poll' = [poll EXCEPT ![p] = [poll[p] EXCEPT !.batch = <<>>]]
           /\ PollDrained(p) => \E d \in {"no", "asked"} :
                /\ poll' = [poll EXCEPT ![p] = [poll[p] EXCEPT !.drain = d, !.again = FALSE]]
                /\ d = "asked" => poll[p].at = "open"
           /\ PollStops(p) => \/ poll' = [poll EXCEPT ![p] = Ask([poll[p] EXCEPT !.at = "stopping"])]
                              \/ poll' = [poll EXCEPT ![p] = [poll[p] EXCEPT !.at = "stopping"]]
           /\ PollStopped(p) => /\ poll' = [poll EXCEPT ![p] = [poll[p] EXCEPT !.at = "closed"]]
                                /\ poll[p].drain = "no"
           /\ PollDies(p) => poll' = [poll EXCEPT ![p] = [NoPoll EXCEPT !.run = poll[p].run, !.at = "dead"]]
<1>1. \A r \in SigRuns : Starts(p, r) =>
         /\ poll' = [poll EXCEPT ![p] = [NoPoll EXCEPT !.run = r, !.at = "open"]]
         /\ poll[p].at = "none"
  BY DEF Starts
<1>2. PollAsks(p) => poll' = [poll EXCEPT ![p] = Ask(poll[p])] /\ poll[p].at = "open"
  BY DEF PollAsks
<1>3. PollTakes(p) => poll' = [poll EXCEPT ![p] =
                         [poll[p] EXCEPT !.drain = "busy", !.batch = Taken(poll[p].run)]]
  BY DEF PollTakes
<1>4. PollHandles(p) => poll' = [poll EXCEPT ![p] = [poll[p] EXCEPT !.batch = Tail(poll[p].batch)]]
  BY DEF PollHandles
<1>5. PollThrows(p) => poll' = [poll EXCEPT ![p] = [poll[p] EXCEPT !.batch = <<>>]]
  BY DEF PollThrows
<1>6. PollDrained(p) => \E d \in {"no", "asked"} :
         /\ poll' = [poll EXCEPT ![p] = [poll[p] EXCEPT !.drain = d, !.again = FALSE]]
         /\ d = "asked" => poll[p].at = "open"
  BY DEF PollDrained
<1>7. PollStops(p) => \/ poll' = [poll EXCEPT ![p] = Ask([poll[p] EXCEPT !.at = "stopping"])]
                      \/ poll' = [poll EXCEPT ![p] = [poll[p] EXCEPT !.at = "stopping"]]
  BY DEF PollStops
<1>8. PollStopped(p) => /\ poll' = [poll EXCEPT ![p] = [poll[p] EXCEPT !.at = "closed"]]
                        /\ poll[p].drain = "no"
  BY DEF PollStopped, Quiet
<1>9. PollDies(p) => poll' = [poll EXCEPT ![p] = [NoPoll EXCEPT !.run = poll[p].run, !.at = "dead"]]
  BY DEF PollDies
<1>10. QED  BY <1>1, <1>2, <1>3, <1>4, <1>5, <1>6, <1>7, <1>8, <1>9

\* The polls and the table keep their shape, and stop() finds no handler of its poll:
\* what the actions below do to one poll leaves the others alone.
PollsInv == /\ poll \in [Polls -> PollRow]
            /\ \A p \in Polls :
                 /\ poll[p].drain # "busy" => poll[p].batch = <<>>
                 /\ poll[p].at \in {"none", "closed", "dead"} => poll[p].drain = "no"
                 /\ poll[p].at # "none" => poll[p].run \in SigRuns

LEMMA PollsKept ==
    ASSUME PollsInv, rows \in [SigRuns -> Seq(Signals)], NEW p \in Polls, NEW q \in PollRow,
           poll' = [poll EXCEPT ![p] = q],
           q.drain # "busy" => q.batch = <<>>,
           q.at \in {"none", "closed", "dead"} => q.drain = "no", q.run \in SigRuns
    PROVE  PollsInv'
<1>1. poll' \in [Polls -> PollRow] /\ poll'[p] = q /\ \A o \in Polls : o # p => poll'[o] = poll[o]
  BY DEF PollsInv
<1>2. QED  BY <1>1 DEF PollsInv

LEMMA PollsStep ==
    ASSUME PollsInv, rows \in [SigRuns -> Seq(Signals)], SigNext
    PROVE  PollsInv'
<1>. poll \in [Polls -> PollRow]
  BY DEF PollsInv
<1>1. ASSUME NEW p \in Polls, NEW r \in SigRuns, Starts(p, r) PROVE PollsInv'
  <2>. DEFINE q == [NoPoll EXCEPT !.run = r, !.at = "open"]
  <2>1. q \in PollRow /\ q.run \in SigRuns /\ q.at = "open" /\ q.drain = "no" /\ q.batch = <<>>
    <3>1. r \in SigRuns \cup {Nobody}
      OBVIOUS
    <3>2. QED  BY <3>1, FreshPolls
  <2>2. poll' = [poll EXCEPT ![p] = q]
    BY <1>1, PollAction
  <2>. HIDE DEF q
  <2>3. QED  BY <2>1, <2>2, PollsKept
<1>2. ASSUME NEW p \in Polls, PollDies(p) PROVE PollsInv'
  <2>. DEFINE q == [NoPoll EXCEPT !.run = poll[p].run, !.at = "dead"]
  <2>1. poll[p].run \in SigRuns
    BY <1>2 DEF PollDies, PollsInv
  <2>2. q \in PollRow /\ q.run \in SigRuns /\ q.at = "dead" /\ q.drain = "no" /\ q.batch = <<>>
    BY <2>1, FreshPolls
  <2>3. poll' = [poll EXCEPT ![p] = q]
    BY <1>2, PollAction
  <2>. HIDE DEF q
  <2>4. QED  BY <2>2, <2>3, PollsKept
<1>3. ASSUME NEW p \in Polls, PollAsks(p) \/ PollStops(p) PROVE PollsInv'
  <2>0. poll[p].run \in SigRuns
    BY <1>3 DEF PollAsks, PollStops, PollsInv
  <2>1. PICK o \in PollRow : /\ o.at \in {"open", "stopping"} /\ o.batch = poll[p].batch
                             /\ o.run \in SigRuns /\ o.drain = poll[p].drain
                             /\ poll' = [poll EXCEPT ![p] = Ask(o)] \/ poll' = [poll EXCEPT ![p] = o]
    <3>1. CASE PollAsks(p)
      BY <3>1, <2>0, PollAction
    <3>2. CASE PollStops(p)
      <4>. DEFINE o == [poll[p] EXCEPT !.at = "stopping"]
      <4>1. o \in PollRow
        BY PollChanges
      <4>2. o.at = "stopping" /\ o.run = poll[p].run /\ o.batch = poll[p].batch /\ o.drain = poll[p].drain
        BY DEF PollRow
      <4>3. poll' = [poll EXCEPT ![p] = Ask(o)] \/ poll' = [poll EXCEPT ![p] = o]
        BY <3>2, PollAction
      <4>. HIDE DEF o
      <4>4. QED  BY <4>1, <4>2, <4>3, <2>0
    <3>3. QED  BY <1>3, <3>1, <3>2
  <2>2. Ask(o) \in PollRow
    BY PollChanges
  <2>3. Ask(o).at = o.at /\ Ask(o).run = o.run /\ Ask(o).batch = o.batch /\ (Ask(o).drain = "busy" <=> o.drain = "busy")
    BY DEF Ask, PollRow
  <2>4. o.drain # "busy" => o.batch = <<>>
    BY <2>1 DEF PollsInv
  <2>5. CASE poll' = [poll EXCEPT ![p] = Ask(o)]
    <3>. PICK q \in PollRow : q = Ask(o)
      BY <2>2
    <3>1. QED  BY <2>1, <2>3, <2>4, <2>5, PollsKept
  <2>6. CASE poll' = [poll EXCEPT ![p] = o]
    BY <2>1, <2>4, <2>6, PollsKept
  <2>7. QED  BY <2>1, <2>5, <2>6
<1>4. ASSUME NEW p \in Polls, PollTakes(p) PROVE PollsInv'
  <2>1. poll[p].drain = "asked" /\ poll[p].at \notin {"none", "closed", "dead"}
    BY <1>4 DEF PollTakes, PollsInv
  <2>. DEFINE q == [poll[p] EXCEPT !.drain = "busy", !.batch = Taken(poll[p].run)]
  <2>2. poll[p].run \in SigRuns
    BY <2>1 DEF PollsInv
  <2>3. q \in PollRow
    BY <2>2, PollChanges DEF Taken
  <2>4. q.at = poll[p].at /\ q.run = poll[p].run /\ q.drain = "busy"
    BY DEF PollRow
  <2>5. poll' = [poll EXCEPT ![p] = q]
    BY <1>4, PollAction
  <2>. HIDE DEF q
  <2>6. QED  BY <2>1, <2>2, <2>3, <2>4, <2>5, PollsKept
<1>5. ASSUME NEW p \in Polls, PollHandles(p) \/ PollThrows(p) PROVE PollsInv'
  <2>1. poll[p].drain = "busy" /\ poll[p].batch # <<>> /\ poll[p].batch \in Seq(Signals)
    BY <1>5 DEF PollHandles, PollThrows, PollRow
  <2>2. PICK b \in Seq(Signals) : poll' = [poll EXCEPT ![p] = [poll[p] EXCEPT !.batch = b]]
    <3>1. Tail(poll[p].batch) \in Seq(Signals) /\ <<>> \in Seq(Signals)
      BY <2>1
    <3>2. QED  BY <1>5, <3>1, PollAction
  <2>. DEFINE q == [poll[p] EXCEPT !.batch = b]
  <2>3. q \in PollRow
    BY PollChanges
  <2>4. q.at = poll[p].at /\ q.run = poll[p].run /\ q.drain = "busy"
    BY <2>1 DEF PollRow
  <2>5. poll' = [poll EXCEPT ![p] = q]
    BY <2>2
  <2>6. poll[p].at \notin {"none", "closed", "dead"} /\ poll[p].run \in SigRuns
    BY <2>1 DEF PollsInv
  <2>. HIDE DEF q
  <2>7. QED  BY <2>3, <2>4, <2>5, <2>6, PollsKept
<1>6. ASSUME NEW p \in Polls, PollDrained(p) PROVE PollsInv'
  <2>1. PICK d \in {"no", "asked"} :
           /\ poll' = [poll EXCEPT ![p] = [poll[p] EXCEPT !.drain = d, !.again = FALSE]]
           /\ d = "asked" => poll[p].at = "open"
    BY <1>6, PollAction
  <2>. DEFINE q == [poll[p] EXCEPT !.drain = d, !.again = FALSE]
  <2>2. q \in PollRow
    BY PollChanges
  <2>3. q.at = poll[p].at /\ q.run = poll[p].run /\ q.drain = d /\ q.batch = poll[p].batch
    BY DEF PollRow
  <2>4. poll[p].batch = <<>> /\ poll[p].run \in SigRuns
    BY <1>6 DEF PollDrained, PollsInv
  <2>5. poll' = [poll EXCEPT ![p] = q]
    BY <2>1
  <2>. HIDE DEF q
  <2>6. QED  BY <2>1, <2>2, <2>3, <2>4, <2>5, PollsKept, ZenonT(60)
<1>7. ASSUME NEW p \in Polls, PollStopped(p) PROVE PollsInv'
  <2>. DEFINE q == [poll[p] EXCEPT !.at = "closed"]
  <2>1. q \in PollRow
    BY PollChanges
  <2>2. poll[p].drain = "no"
    BY <1>7, PollAction
  <2>3. q.drain = "no" /\ q.batch = poll[p].batch /\ q.run = poll[p].run
    BY <2>2 DEF PollRow
  <2>4. poll' = [poll EXCEPT ![p] = q]
    BY <1>7, PollAction
  <2>5. poll[p].batch = <<>> /\ poll[p].run \in SigRuns
    BY <1>7, <2>2 DEF PollStopped, PollsInv
  <2>. HIDE DEF q
  <2>6. QED  BY <2>1, <2>3, <2>4, <2>5, PollsKept
<1>8. poll' = poll => PollsInv'
  BY DEF PollsInv
<1>9. QED
  BY <1>1, <1>2, <1>3, <1>4, <1>5, <1>6, <1>7, <1>8
  DEF SigNext, PollSteps, SenderSteps, Lapses, Parks, Completes, Chooses, Sends, Rechecks, Answers, Sweep,
      ReplayStep, ReplayThrows, ReplayDies

-----------------------------------------------------------------------------
(* The lists that signals wait in.                                         *)

Lanes == ({"rows"} \X SigRuns) \cup ({"batch"} \X Polls) \cup ({"replay"} \X Replayers)

\* The rows of a run, the batch of a poll and what a replayer has taken.
LanesOf(R, P, X) == [l \in Lanes |-> IF l[1] = "rows" THEN R[l[2]]
                                     ELSE IF l[1] = "batch" THEN P[l[2]].batch ELSE X[l[2]]]

Lane == LanesOf(rows, poll, replay)

Lists == [Lanes -> Seq(Signals)]

InLane(L, s) == \E l \in Lanes : \E i \in 1 .. Len(L[l]) : L[l][i] = s

OnceOnly(L) ==
    \A l, m \in Lanes : \A i \in 1 .. Len(L[l]), j \in 1 .. Len(L[m]) :
        L[l][i] = L[m][j] => l = m /\ i = j

LEMMA SamePlace ==
    ASSUME NEW L, OnceOnly(L), NEW l \in Lanes, NEW m \in Lanes,
           NEW u \in 1 .. Len(L[l]), NEW v \in 1 .. Len(L[m]), L[l][u] = L[m][v]
    PROVE  l = m /\ u = v
BY DEF OnceOnly

\* A list is emptied, perhaps into another one that is empty.
LEMMA LaneTaken ==
    ASSUME NEW L \in Lists, OnceOnly(L), NEW a \in Lanes, NEW b \in Lanes, L[b] = <<>>, a # b,
           NEW M \in Lists, M[a] = <<>>, M[b] = L[a] \/ M[b] = <<>>,
           \A l \in Lanes : l # a /\ l # b => M[l] = L[l]
    PROVE  OnceOnly(M) /\ \A s : InLane(M, s) => InLane(L, s)
<1>1. \A l \in Lanes : \A i \in 1 .. Len(M[l]) :
          \E k \in Lanes : /\ i \in 1 .. Len(L[k]) /\ L[k][i] = M[l][i]
                           /\ k = IF l = b THEN a ELSE l
  <2>1. TAKE l \in Lanes
  <2>2. TAKE i \in 1 .. Len(M[l])
  <2>3. CASE l = b
    BY <2>2, <2>3
  <2>4. CASE l = a
    BY <2>2, <2>4
  <2>5. CASE l # a /\ l # b
    BY <2>2, <2>5
  <2>6. QED  BY <2>3, <2>4, <2>5
<1>2. OnceOnly(M)
  <2>. SUFFICES ASSUME NEW l \in Lanes, NEW m \in Lanes, NEW i \in 1 .. Len(M[l]), NEW j \in 1 .. Len(M[m]),
                       M[l][i] = M[m][j]
                PROVE  l = m /\ i = j
    BY DEF OnceOnly
  <2>1. l # a /\ m # a
    OBVIOUS
  <2>2. PICK k \in Lanes : /\ i \in 1 .. Len(L[k]) /\ L[k][i] = M[l][i] /\ k = IF l = b THEN a ELSE l
    BY <1>1
  <2>3. PICK n \in Lanes : /\ j \in 1 .. Len(L[n]) /\ L[n][j] = M[m][j] /\ n = IF m = b THEN a ELSE m
    BY <1>1
  <2>4. k = n /\ i = j
    BY <2>2, <2>3 DEF OnceOnly
  <2>5. QED  BY <2>1, <2>2, <2>3, <2>4
<1>3. ASSUME NEW s, InLane(M, s) PROVE InLane(L, s)
  BY <1>1, <1>3 DEF InLane
<1>4. QED  BY <1>2, <1>3

\* A list loses its first signal, or all of them.
LEMMA LanePopped ==
    ASSUME NEW L \in Lists, OnceOnly(L), NEW a \in Lanes, L[a] # <<>>,
           NEW M \in Lists, M[a] = Tail(L[a]) \/ M[a] = <<>>,
           \A l \in Lanes : l # a => M[l] = L[l]
    PROVE  /\ OnceOnly(M) /\ \A s : InLane(M, s) => InLane(L, s)
           /\ InLane(L, Head(L[a])) /\ ~InLane(M, Head(L[a]))
<1>. L[a] \in Seq(Signals) /\ M[a] \in Seq(Signals)
  BY DEF Lists
<1>. Len(L[a]) \in Nat /\ Len(L[a]) # 0
  OBVIOUS
<1>1. \A l \in Lanes : \A i \in 1 .. Len(M[l]) :
          LET k == IF l = a THEN i + 1 ELSE i IN k \in 1 .. Len(L[l]) /\ M[l][i] = L[l][k]
  <2>1. TAKE l \in Lanes
  <2>2. TAKE i \in 1 .. Len(M[l])
  <2>3. CASE l = a
    <3>1. M[a] = Tail(L[a])
      BY <2>2, <2>3
    <3>2. Len(M[a]) = Len(L[a]) - 1
      BY <3>1
    <3>3. i \in 1 .. Len(Tail(L[a]))
      BY <3>1, <2>2, <2>3
    <3>4. Tail(L[a])[i] = L[a][i + 1] /\ i + 1 \in 1 .. Len(L[a])
      BY <3>2, <3>1, <3>3
    <3>5. QED  BY <3>1, <3>4, <2>3
  <2>4. CASE l # a
    BY <2>2, <2>4
  <2>5. QED  BY <2>3, <2>4
<1>2. OnceOnly(M)
  <2>. SUFFICES ASSUME NEW l \in Lanes, NEW m \in Lanes, NEW i \in 1 .. Len(M[l]), NEW j \in 1 .. Len(M[m]),
                       M[l][i] = M[m][j]
                PROVE  l = m /\ i = j
    BY DEF OnceOnly
  <2>1. PICK u \in 1 .. Len(L[l]) : u = (IF l = a THEN i + 1 ELSE i) /\ M[l][i] = L[l][u]
    BY <1>1
  <2>2. PICK v \in 1 .. Len(L[m]) : v = (IF m = a THEN j + 1 ELSE j) /\ M[m][j] = L[m][v]
    BY <1>1
  <2>3. L[l][u] = L[m][v]
    BY <2>1, <2>2
  <2>4. l = m /\ u = v
    BY <2>3, SamePlace
  <2>5. i \in Nat /\ j \in Nat
    OBVIOUS
  <2>6. i = j
    BY <2>1, <2>2, <2>4, <2>5
  <2>7. QED  BY <2>4, <2>6
<1>3. ASSUME NEW s, InLane(M, s) PROVE InLane(L, s)
  BY <1>1, <1>3 DEF InLane
<1>4. 1 \in 1 .. Len(L[a]) /\ Head(L[a]) = L[a][1]
  OBVIOUS
<1>5. InLane(L, Head(L[a]))
  BY <1>4 DEF InLane
<1>6. ASSUME InLane(M, Head(L[a])) PROVE FALSE
  <2>1. PICK l \in Lanes : \E i \in 1 .. Len(M[l]) : M[l][i] = L[a][1]
    BY <1>6, <1>4 DEF InLane
  <2>2. PICK i \in 1 .. Len(M[l]) : M[l][i] = L[a][1]
    BY <2>1
  <2>3. PICK u \in 1 .. Len(L[l]) : u = (IF l = a THEN i + 1 ELSE i) /\ L[l][u] = L[a][1]
    BY <1>1, <2>2
  <2>4. l = a /\ u = 1
    BY <2>3, <1>4, SamePlace
  <2>5. QED  BY <2>3, <2>4
<1>7. QED  BY <1>2, <1>3, <1>5, <1>6

\* A signal that is in no list is appended to one.
Pushed(L, a, t, M) == M[a] = Append(L[a], t) /\ \A l \in Lanes : l # a => M[l] = L[l]

LEMMA LanePut ==
    ASSUME NEW L \in Lists, OnceOnly(L), NEW a \in Lanes, NEW t \in Signals, ~InLane(L, t),
           NEW M \in Lists, Pushed(L, a, t, M)
    PROVE  OnceOnly(M) /\ \A s : InLane(M, s) => InLane(L, s) \/ s = t
<1>. M[a] = Append(L[a], t) /\ \A l \in Lanes : l # a => M[l] = L[l]
  BY DEF Pushed
<1>. L[a] \in Seq(Signals)
  BY DEF Lists
<1>. Len(L[a]) \in Nat
  OBVIOUS
<1>1. \A l \in Lanes : \A i \in 1 .. Len(M[l]) :
          \/ i \in 1 .. Len(L[l]) /\ M[l][i] = L[l][i]
          \/ l = a /\ i = Len(L[a]) + 1 /\ M[l][i] = t
  <2>1. TAKE l \in Lanes
  <2>2. TAKE i \in 1 .. Len(M[l])
  <2>3. CASE l = a
    <3>1. Len(M[a]) = Len(L[a]) + 1
      OBVIOUS
    <3>2. CASE i = Len(L[a]) + 1
      BY <3>2, <2>3
    <3>3. CASE i # Len(L[a]) + 1
      <4>1. i \in 1 .. Len(L[a])
        BY <3>1, <3>3, <2>2, <2>3
      <4>2. M[a][i] = L[a][i]
        BY <4>1
      <4>3. QED  BY <4>1, <4>2, <2>3
    <3>4. QED  BY <3>2, <3>3
  <2>4. CASE l # a
    BY <2>2, <2>4
  <2>5. QED  BY <2>3, <2>4
<1>2. \A l \in Lanes : \A i \in 1 .. Len(L[l]) : L[l][i] # t
  BY DEF InLane
<1>3. OnceOnly(M)
  BY <1>1, <1>2 DEF OnceOnly
<1>4. ASSUME NEW s, InLane(M, s) PROVE InLane(L, s) \/ s = t
  BY <1>1, <1>4 DEF InLane
<1>5. QED  BY <1>3, <1>4

-----------------------------------------------------------------------------
(* What an action makes of the lists.                                      *)

LEMMA FunctionInto ==
    ASSUME NEW S, NEW T, NEW f, f = [x \in S |-> f[x]], \A x \in S : f[x] \in T
    PROVE  f \in [S -> T]
OBVIOUS

Shape(R, P, X) == /\ R \in [SigRuns -> Seq(Signals)] /\ P \in [Polls -> PollRow]
                  /\ X \in [Replayers -> Seq(Signals)]

Shaped == Shape(rows, poll, replay)

LEMMA LaneType ==
    ASSUME NEW R, NEW P, NEW X, Shape(R, P, X), NEW L, L = LanesOf(R, P, X)
    PROVE  /\ L \in Lists
           /\ \A r \in SigRuns : <<"rows", r>> \in Lanes /\ L[<<"rows", r>>] = R[r]
           /\ \A p \in Polls : <<"batch", p>> \in Lanes /\ L[<<"batch", p>>] = P[p].batch
           /\ \A x \in Replayers : <<"replay", x>> \in Lanes /\ L[<<"replay", x>>] = X[x]
           /\ \A l \in Lanes :
                 \/ \E r \in SigRuns : l = <<"rows", r>>
                 \/ \E p \in Polls : l = <<"batch", p>>
                 \/ \E x \in Replayers : l = <<"replay", x>>
<1>. R \in [SigRuns -> Seq(Signals)] /\ P \in [Polls -> PollRow] /\ X \in [Replayers -> Seq(Signals)]
  BY DEF Shape
<1>1. /\ \A r \in SigRuns : <<"rows", r>> \in Lanes /\ L[<<"rows", r>>] = R[r]
      /\ \A p \in Polls : <<"batch", p>> \in Lanes /\ L[<<"batch", p>>] = P[p].batch
      /\ \A x \in Replayers : <<"replay", x>> \in Lanes /\ L[<<"replay", x>>] = X[x]
  BY DEF LanesOf, Lanes
<1>2. \A l \in Lanes :
         \/ \E r \in SigRuns : l = <<"rows", r>>
         \/ \E p \in Polls : l = <<"batch", p>>
         \/ \E x \in Replayers : l = <<"replay", x>>
  BY DEF Lanes
<1>3. L \in Lists
  <2>1. \A l \in Lanes : L[l] \in Seq(Signals)
    BY <1>1, <1>2 DEF PollRow
  <2>2. L = [l \in Lanes |-> L[l]]
    BY DEF LanesOf
  <2>3. L \in [Lanes -> Seq(Signals)]
    BY ONLY <2>1, <2>2, FunctionInto
  <2>4. QED  BY <2>3 DEF Lists
<1>4. QED  BY <1>1, <1>2, <1>3

\* The signals keep to these tables, and each of them is in one list at most, where it
\* has not reached a model yet; before it is sent it is in none.
Unsent(s) == sender[s].at \in {"idle", "chosen"}

SigTables ==
    /\ sigRun \in [SigRuns -> RunRow]
    /\ rows \in [SigRuns -> Seq(Signals)]
    /\ sender \in [Signals -> SenderRow]
    /\ replay \in [Replayers -> Seq(Signals)]
    /\ fate \in [Signals -> Fates]
    /\ served \in [Signals -> Nat] /\ sigFaults \in 0 .. MaxSigFaults
    /\ \A s \in Signals : sender[s].at \in {"chosen", "sent"} => sender[s].run \in SigRuns

HeardInv ==
    /\ OnceOnly(Lane)
    /\ \A s \in Signals :
         /\ served[s] <= 1
         /\ InLane(Lane, s) => served[s] = 0
         /\ Unsent(s) => served[s] = 0 /\ ~InLane(Lane, s)
         /\ sender[s].at \in {"idle", "chosen", "sent"} => replay[s] = <<>>

SigInv == SigTables /\ PollsInv /\ HeardInv

\* The tables keep their shape.
LEMMA TablesStep == ASSUME SigTables, PollsInv, SigNext PROVE SigTables'
<1>. /\ sigRun \in [SigRuns -> RunRow] /\ rows \in [SigRuns -> Seq(Signals)]
     /\ sender \in [Signals -> SenderRow] /\ replay \in [Replayers -> Seq(Signals)]
     /\ fate \in [Signals -> Fates] /\ served \in [Signals -> Nat]
     /\ sigFaults \in 0 .. MaxSigFaults /\ Signals \subseteq Replayers /\ Sweeps \subseteq Replayers
  BY DEF SigTables, Replayers
<1>1. ASSUME SigFault PROVE sigFaults' \in 0 .. MaxSigFaults
  BY <1>1, SignalsAssumption DEF SigFault
<1>2. sigFaults' \in 0 .. MaxSigFaults
  BY <1>1
  DEF SigNext, PollSteps, SenderSteps, Lapses, Parks, Completes, Chooses, Sends, Rechecks, Answers, Sweep,
      ReplayStep, ReplayThrows, ReplayDies, Starts, PollAsks, PollTakes, PollHandles, PollThrows,
      PollDrained, PollStops, PollStopped, PollDies
<1>3. /\ \A S : \A f \in Fates : SettleFate(S, f) => fate' \in [Signals -> Fates]
      /\ \A s \in Signals : [served EXCEPT ![s] = @ + 1] \in [Signals -> Nat]
  <2>1. ASSUME NEW S, NEW f \in Fates, SettleFate(S, f) PROVE fate' \in [Signals -> Fates]
    BY <2>1 DEF SettleFate
  <2>2. \A s \in Signals : [served EXCEPT ![s] = @ + 1] \in [Signals -> Nat]
    OBVIOUS
  <2>3. QED  BY <2>1, <2>2
<1>4. fate' \in [Signals -> Fates] /\ served' \in [Signals -> Nat]
  <2>1. "heard" \in Fates /\ "lost" \in Fates /\ "fresh" \in Fates /\ "skipped" \in Fates
        /\ "dropped" \in Fates /\ "refused" \in Fates
    BY DEF Fates
  <2>2. ASSUME NEW p \in Polls, PollHandles(p) PROVE fate' \in [Signals -> Fates] /\ served' \in [Signals -> Nat]
    <3>1. Head(poll[p].batch) \in Signals
      BY <2>2 DEF PollHandles, PollsInv, PollRow
    <3>2. QED  BY <2>2, <3>1, <2>1, <1>3 DEF PollHandles, Reaches
  <2>3. ASSUME NEW s \in Signals, Chooses(s) PROVE fate' \in [Signals -> Fates] /\ served' \in [Signals -> Nat]
    BY <2>3, <2>1, <1>3 DEF Chooses, Reaches
  <2>4. ASSUME NEW x \in Replayers, ReplayStep(x)
        PROVE  fate' \in [Signals -> Fates] /\ served' \in [Signals -> Nat]
    <3>1. Head(replay[x]) \in Signals
      BY <2>4 DEF ReplayStep
    <3>2. QED  BY <2>4, <3>1, <2>1, <1>3 DEF ReplayStep, Reaches
  <2>5. QED
    BY <2>1, <2>2, <2>3, <2>4, <1>3
    DEF SigNext, PollSteps, SenderSteps, Lapses, Parks, Completes, Sends, Rechecks, Answers, Sweep,
        ReplayThrows, ReplayDies, Starts, PollAsks, PollTakes, PollThrows,
        PollDrained, PollStops, PollStopped, PollDies
<1>5. sigRun' \in [SigRuns -> RunRow]
  <2>1. ASSUME NEW p \in Polls, NEW r \in SigRuns, Starts(p, r) PROVE sigRun' \in [SigRuns -> RunRow]
    BY <2>1 DEF Starts, RunRow
  <2>2. ASSUME NEW p \in Polls, Completes(p) PROVE sigRun' \in [SigRuns -> RunRow]
    BY <2>2 DEF Completes, RunRow
  <2>3. ASSUME NEW r \in SigRuns, Lapses(r) \/ Parks(r) PROVE sigRun' \in [SigRuns -> RunRow]
    <3>1. CASE Lapses(r)
      BY <3>1 DEF Lapses, RunRow
    <3>2. CASE Parks(r)
      BY <3>2 DEF Parks, RunRow
    <3>3. QED  BY <2>3, <3>1, <3>2
  <2>4. QED
    BY <2>1, <2>2, <2>3
    DEF SigNext, PollSteps, SenderSteps, Chooses, Sends, Rechecks, Answers, Sweep,
        ReplayStep, ReplayThrows, ReplayDies, PollAsks, PollTakes, PollHandles, PollThrows,
        PollDrained, PollStops, PollStopped, PollDies
<1>6. /\ sender' \in [Signals -> SenderRow]
      /\ \A t \in Signals : sender'[t].at \in {"chosen", "sent"} => sender'[t].run \in SigRuns
  <2>. DEFINE T == /\ sender' \in [Signals -> SenderRow]
                   /\ \A t \in Signals : sender'[t].at \in {"chosen", "sent"} => sender'[t].run \in SigRuns
  <2>1. ASSUME NEW s \in Signals, NEW at \in {"sent", "replay", "accepted", "done", "refused"},
               sender' = [sender EXCEPT ![s].at = at], at = "sent" => sender[s].at = "chosen"
        PROVE  T
    <3>1. sender' \in [Signals -> SenderRow]
      BY <2>1 DEF SenderRow
    <3>2. \A t \in Signals : /\ sender'[t].run = sender[t].run
                             /\ sender'[t].at = (IF t = s THEN at ELSE sender[t].at)
      BY <2>1 DEF SenderRow
    <3>3. QED  BY <3>1, <3>2, <2>1 DEF SigTables
  <2>2. ASSUME NEW s \in Signals, NEW r \in SigRuns,
               sender' = [sender EXCEPT ![s] = [at |-> "chosen", run |-> r]]
        PROVE  T
    <3>1. [at |-> "chosen", run |-> r] \in SenderRow
      BY DEF SenderRow
    <3>2. sender' \in [Signals -> SenderRow]
      BY <2>2, <3>1
    <3>3. QED  BY <3>2, <2>2 DEF SigTables
  <2>3. sender' = sender => T
    BY DEF SigTables
  <2>4. ASSUME NEW s \in Signals, Chooses(s) PROVE T
    <3>1. \/ \E r \in SigRuns : sender' = [sender EXCEPT ![s] = [at |-> "chosen", run |-> r]]
          \/ \E at \in {"done", "refused"} : sender' = [sender EXCEPT ![s].at = at]
      BY <2>4 DEF Chooses
    <3>2. QED  BY <3>1, <2>1, <2>2
  <2>5. ASSUME NEW s \in Signals, SenderSteps(s) PROVE T
    <3>1. \E at \in {"sent", "replay", "accepted", "done", "refused"} :
             /\ sender' = [sender EXCEPT ![s].at = at]
             /\ at = "sent" => sender[s].at = "chosen"
      BY <2>5 DEF SenderSteps, Sends, Rechecks, Answers
    <3>2. QED  BY <3>1, <2>1
  <2>6. QED
    BY <2>3, <2>4, <2>5
    DEF SigNext, PollSteps, Lapses, Parks, Completes, Sweep, ReplayStep, ReplayThrows, ReplayDies, Starts,
        PollAsks, PollTakes, PollHandles, PollThrows, PollDrained, PollStops, PollStopped, PollDies
<1>7. /\ \A r : OtherRows(r) \in [SigRuns -> Seq(Signals)]
      /\ \A s \in Signals, r \in SigRuns : Stored(s, r) \in [SigRuns -> Seq(Signals)]
      /\ \A r \in SigRuns, x \in Replayers : [replay EXCEPT ![x] = Taken(r)] \in [Replayers -> Seq(Signals)]
  <2>1. <<>> \in Seq(Signals)
    OBVIOUS
  <2>2. \A r : OtherRows(r) \in [SigRuns -> Seq(Signals)]
    BY <2>1 DEF OtherRows
  <2>3. \A s \in Signals, r \in SigRuns : Append(rows[r], s) \in Seq(Signals)
    OBVIOUS
  <2>4. \A s \in Signals, r \in SigRuns : Stored(s, r) \in [SigRuns -> Seq(Signals)]
    BY <2>3 DEF Stored
  <2>5. \A r \in SigRuns, x \in Replayers : [replay EXCEPT ![x] = Taken(r)] \in [Replayers -> Seq(Signals)]
    BY DEF Taken
  <2>6. QED  BY <2>2, <2>4, <2>5
<1>8. rows' \in [SigRuns -> Seq(Signals)] /\ replay' \in [Replayers -> Seq(Signals)]
  <2>. DEFINE T == rows' \in [SigRuns -> Seq(Signals)] /\ replay' \in [Replayers -> Seq(Signals)]
  <2>1. ASSUME NEW x \in Replayers, NEW r \in SigRuns, Replays(x, r) PROVE T
    BY <2>1, <1>7 DEF Replays
  <2>2. ASSUME NEW s \in Signals, Sends(s) \/ Rechecks(s) PROVE T
    <3>1. PICK r \in SigRuns : r = sender[s].run
      BY <2>2 DEF Sends, Rechecks, SigTables
    <3>2. CASE Sends(s)
      BY <3>1, <3>2, <1>7 DEF Sends
    <3>3. CASE Rechecks(s)
      BY <3>1, <3>3, <2>1 DEF Rechecks
    <3>4. QED  BY <2>2, <3>2, <3>3
  <2>3. ASSUME NEW x \in Replayers, ReplayStep(x) \/ ReplayThrows(x) \/ ReplayDies(x) PROVE T
    <3>1. replay[x] \in Seq(Signals)
      OBVIOUS
    <3>2. replay' = [replay EXCEPT ![x] = Tail(replay[x])] \/ replay' = [replay EXCEPT ![x] = <<>>]
      BY <2>3 DEF ReplayStep, ReplayThrows, ReplayDies
    <3>3. Tail(replay[x]) \in Seq(Signals) /\ <<>> \in Seq(Signals)
      <4>1. replay[x] # <<>>
        BY <2>3 DEF ReplayStep, ReplayThrows, ReplayDies
      <4>2. QED  BY <3>1, <4>1
    <3>4. replay' \in [Replayers -> Seq(Signals)]
      BY <3>2, <3>3
    <3>5. rows' = rows \/ \E s \in Steers, r \in SigRuns : rows' = Stored(s, r)
      <4>1. CASE ReplayStep(x)
        <5>1. rows' = rows \/ (Head(replay[x]) \in Steers /\ \E r \in SigRuns : rows' = Stored(Head(replay[x]), r))
          BY <4>1 DEF ReplayStep
        <5>2. QED  BY <5>1
      <4>2. QED  BY <2>3, <4>1 DEF ReplayThrows, ReplayDies
    <3>6. Steers \subseteq Signals
      BY DEF Signals
    <3>7. QED  BY <3>4, <3>5, <3>6, <1>7
  <2>4. ASSUME NEW p \in Polls, PollTakes(p) PROVE T
    BY <2>4, <1>7 DEF PollTakes
  <2>5. ASSUME NEW x \in Sweeps, NEW r \in SigRuns, Sweep(x, r) PROVE T
    BY <2>5, <2>1 DEF Sweep
  <2>6. ASSUME NEW s \in Signals, Answers(s) PROVE T
    BY <2>6 DEF Answers
  <2>7. QED
    BY <2>2, <2>3, <2>4, <2>5, <2>6
    DEF SigNext, PollSteps, SenderSteps, Lapses, Parks, Completes, Chooses, Starts, PollAsks, PollHandles,
        PollThrows, PollDrained, PollStops, PollStopped, PollDies
<1>9. QED  BY <1>2, <1>4, <1>5, <1>6, <1>8 DEF SigTables

\* What a step does to one signal: it stays where it is, goes from list to list or is
\* lost; it is sent; or it reaches a model.
SignalStep(s) ==
    /\ Unsent(s)' => Unsent(s)
    /\ \/ served'[s] = served[s] /\ (InLane(Lane, s)' => InLane(Lane, s))
       \/ served'[s] = served[s] /\ Unsent(s) /\ ~Unsent(s)'
       \/ /\ served'[s] = served[s] + 1 /\ ~InLane(Lane, s)' /\ ~Unsent(s)'
          /\ InLane(Lane, s) \/ Unsent(s)

LaneStep == OnceOnly(Lane)' /\ \A s \in Signals : SignalStep(s)

\* The lists before and after a step.
LEMMA LanesNow ==
    ASSUME Shaped
    PROVE  /\ Lane \in Lists
           /\ \A r \in SigRuns : <<"rows", r>> \in Lanes /\ Lane[<<"rows", r>>] = rows[r]
           /\ \A p \in Polls : <<"batch", p>> \in Lanes /\ Lane[<<"batch", p>>] = poll[p].batch
           /\ \A x \in Replayers : <<"replay", x>> \in Lanes /\ Lane[<<"replay", x>>] = replay[x]
           /\ \A l \in Lanes :
                 \/ \E r \in SigRuns : l = <<"rows", r>>
                 \/ \E p \in Polls : l = <<"batch", p>>
                 \/ \E x \in Replayers : l = <<"replay", x>>
BY LaneType DEF Shaped, Lane

LEMMA LanesThen ==
    ASSUME Shaped'
    PROVE  /\ Lane' \in Lists
           /\ \A r \in SigRuns : Lane'[<<"rows", r>>] = rows'[r]
           /\ \A p \in Polls : Lane'[<<"batch", p>>] = poll'[p].batch
           /\ \A x \in Replayers : Lane'[<<"replay", x>>] = replay'[x]
<1>1. Shape(rows', poll', replay')
  BY DEF Shaped
<1>2. Lane' = LanesOf(rows', poll', replay')
  BY DEF Lane
<1>3. QED  BY <1>1, <1>2, LaneType

\* A step that leaves the lists alone.
LEMMA LanesStand ==
    ASSUME Shaped, Shaped', OnceOnly(Lane), rows' = rows, replay' = replay,
           \A p \in Polls : poll'[p].batch = poll[p].batch
    PROVE  OnceOnly(Lane)' /\ \A s : InLane(Lane, s)' => InLane(Lane, s)
<1>1. PICK L \in Lists : L = Lane
  BY LanesNow
<1>2. PICK M \in Lists : M = Lane'
  BY LanesThen
<1>3. \A l \in Lanes : M[l] = L[l]
  BY <1>1, <1>2, LanesNow, LanesThen
<1>4. M = L
  BY <1>3 DEF Lists
<1>5. QED  BY <1>1, <1>2, <1>4 DEF OnceOnly, InLane

\* The rows of a run are taken into a list that is empty.
LEMMA LanesTake ==
    ASSUME Shaped, Shaped', OnceOnly(Lane), NEW r \in SigRuns, rows' = OtherRows(r),
           NEW l \in Lanes, Lane[l] = <<>>, Lane'[l] = rows[r], l[1] # "rows",
           \A p \in Polls : l # <<"batch", p>> => poll'[p].batch = poll[p].batch,
           \A x \in Replayers : l # <<"replay", x>> => replay'[x] = replay[x]
    PROVE  OnceOnly(Lane)' /\ \A s : InLane(Lane, s)' => InLane(Lane, s)
<1>1. PICK L \in Lists : L = Lane
  BY LanesNow
<1>2. PICK M \in Lists : M = Lane'
  BY LanesThen
<1>3. PICK a \in Lanes : a = <<"rows", r>> /\ a # l
  <2>1. <<"rows", r>> \in Lanes
    BY LanesNow
  <2>2. <<"rows", r>>[1] = "rows"
    OBVIOUS
  <2>3. <<"rows", r>> # l
    BY <2>2
  <2>4. QED  BY <2>1, <2>3
<1>4. L[a] = rows[r] /\ M[a] = <<>>
  BY <1>1, <1>2, <1>3, LanesNow, LanesThen DEF OtherRows, Shaped, Shape
<1>5. L[l] = <<>> /\ M[l] = L[a]
  BY <1>1, <1>2, <1>4
<1>6. ASSUME NEW k \in Lanes, k # a, k # l PROVE M[k] = L[k]
  <2>1. CASE \E q \in SigRuns : k = <<"rows", q>>
    <3>1. PICK q \in SigRuns : k = <<"rows", q>>
      BY <2>1
    <3>2. q # r
      BY <1>6, <1>3, <3>1
    <3>3. rows'[q] = rows[q]
      BY <3>2 DEF OtherRows, Shaped, Shape
    <3>4. QED  BY <3>1, <3>3, <1>1, <1>2, LanesNow, LanesThen
  <2>2. CASE \E p \in Polls : k = <<"batch", p>>
    BY <2>2, <1>6, <1>1, <1>2, LanesNow, LanesThen
  <2>3. CASE \E x \in Replayers : k = <<"replay", x>>
    BY <2>3, <1>6, <1>1, <1>2, LanesNow, LanesThen
  <2>4. QED  BY <2>1, <2>2, <2>3, LanesNow
<1>7. OnceOnly(L)
  BY <1>1
<1>8. OnceOnly(M) /\ \A s : InLane(M, s) => InLane(L, s)
  BY <1>3, <1>4, <1>5, <1>6, <1>7, LaneTaken
<1>9. QED  BY <1>1, <1>2, <1>8 DEF OnceOnly, InLane

\* A batch or a replay loses its first signal, or all of them.
LEMMA LanesPop ==
    ASSUME Shaped, Shaped', OnceOnly(Lane), rows' = rows,
           NEW l \in Lanes, Lane[l] # <<>>, Lane'[l] = Tail(Lane[l]) \/ Lane'[l] = <<>>, l[1] # "rows",
           NEW t, t = Head(Lane[l]),
           \A p \in Polls : l # <<"batch", p>> => poll'[p].batch = poll[p].batch,
           \A x \in Replayers : l # <<"replay", x>> => replay'[x] = replay[x]
    PROVE  /\ OnceOnly(Lane)' /\ \A s : InLane(Lane, s)' => InLane(Lane, s)
           /\ InLane(Lane, t) /\ ~InLane(Lane, t)'
<1>1. PICK L \in Lists : L = Lane
  BY LanesNow
<1>2. PICK M \in Lists : M = Lane'
  BY LanesThen
<1>3. ASSUME NEW k \in Lanes, k # l PROVE M[k] = L[k]
  <2>1. CASE \E q \in SigRuns : k = <<"rows", q>>
    BY <2>1, <1>1, <1>2, LanesNow, LanesThen
  <2>2. CASE \E p \in Polls : k = <<"batch", p>>
    BY <2>2, <1>3, <1>1, <1>2, LanesNow, LanesThen
  <2>3. CASE \E x \in Replayers : k = <<"replay", x>>
    BY <2>3, <1>3, <1>1, <1>2, LanesNow, LanesThen
  <2>4. QED  BY <2>1, <2>2, <2>3, LanesNow
<1>4. OnceOnly(L) /\ L[l] # <<>> /\ (M[l] = Tail(L[l]) \/ M[l] = <<>>)
  BY <1>1, <1>2
<1>5. t = Head(L[l])
  BY <1>1
<1>6. /\ OnceOnly(M) /\ \A s : InLane(M, s) => InLane(L, s)
      /\ InLane(L, t) /\ ~InLane(M, t)
  BY <1>3, <1>4, <1>5, LanePopped
<1>7. OnceOnly(Lane)' /\ \A s : InLane(Lane, s)' => InLane(Lane, s)
  BY <1>1, <1>2, <1>6 DEF OnceOnly, InLane
<1>8. InLane(Lane, t) /\ ~InLane(Lane, t)'
  BY <1>1, <1>2, <1>6 DEF InLane
<1>9. QED  BY <1>7, <1>8

\* A signal that is in no list gets a row.
LEMMA LanesPut ==
    ASSUME Shaped, Shaped', OnceOnly(Lane), NEW r \in SigRuns, NEW t \in Signals, ~InLane(Lane, t),
           rows' = Stored(t, r), replay' = replay, \A p \in Polls : poll'[p].batch = poll[p].batch
    PROVE  OnceOnly(Lane)' /\ \A s : InLane(Lane, s)' => InLane(Lane, s) \/ s = t
<1>1. PICK L \in Lists : L = Lane
  BY LanesNow
<1>2. PICK M \in Lists : M = Lane'
  BY LanesThen
<1>3. PICK a \in Lanes : a = <<"rows", r>>
  BY LanesNow
<1>4. M[a] = Append(L[a], t)
  BY <1>1, <1>2, <1>3, LanesNow, LanesThen DEF Stored, Shaped, Shape
<1>5. ASSUME NEW k \in Lanes, k # a PROVE M[k] = L[k]
  <2>1. CASE \E q \in SigRuns : k = <<"rows", q>>
    <3>1. PICK q \in SigRuns : k = <<"rows", q>>
      BY <2>1
    <3>2. q # r
      BY <1>5, <1>3, <3>1
    <3>3. rows'[q] = rows[q]
      BY <3>2 DEF Stored, Shaped, Shape
    <3>4. QED  BY <3>1, <3>3, <1>1, <1>2, LanesNow, LanesThen
  <2>2. CASE \E p \in Polls : k = <<"batch", p>>
    BY <2>2, <1>1, <1>2, LanesNow, LanesThen
  <2>3. CASE \E x \in Replayers : k = <<"replay", x>>
    BY <2>3, <1>1, <1>2, LanesNow, LanesThen
  <2>4. QED  BY <2>1, <2>2, <2>3, LanesNow
<1>6. OnceOnly(L) /\ ~InLane(L, t) /\ Pushed(L, a, t, M)
  BY <1>1, <1>4, <1>5 DEF Pushed
<1>7. OnceOnly(M) /\ \A s : InLane(M, s) => InLane(L, s) \/ s = t
  BY <1>6, LanePut
<1>8. OnceOnly(Lane)'
  BY <1>2, <1>7 DEF OnceOnly
<1>9. \A s : (InLane(Lane, s)' <=> InLane(M, s)) /\ (InLane(Lane, s) <=> InLane(L, s))
  BY <1>1, <1>2 DEF InLane
<1>10. QED  BY <1>7, <1>8, <1>9

\* A replayed request gets a row of another run.
LEMMA LanesRequeue ==
    ASSUME Shaped, Shaped', OnceOnly(Lane), NEW x \in Replayers, replay[x] # <<>>,
           NEW t \in Signals, t = Head(replay[x]), NEW r \in SigRuns,
           replay' = [replay EXCEPT ![x] = Tail(replay[x])], rows' = Stored(t, r), poll' = poll
    PROVE  OnceOnly(Lane)' /\ \A s : InLane(Lane, s)' => InLane(Lane, s)
<1>1. PICK L \in Lists : L = Lane
  BY LanesNow
<1>2. PICK M \in Lists : M = Lane'
  BY LanesThen
<1>3. PICK a \in Lanes, b \in Lanes : a = <<"rows", r>> /\ b = <<"replay", x>> /\ a # b
  BY LanesNow
<1>4. L[b] = replay[x] /\ M[b] = Tail(L[b]) /\ t = Head(L[b]) /\ M[a] = Append(L[a], t)
  BY <1>1, <1>2, <1>3, LanesNow, LanesThen DEF Stored, Shaped, Shape
<1>5. ASSUME NEW k \in Lanes, k # a, k # b PROVE M[k] = L[k]
  <2>1. CASE \E q \in SigRuns : k = <<"rows", q>>
    <3>1. PICK q \in SigRuns : k = <<"rows", q>>
      BY <2>1
    <3>2. q # r
      BY <1>5, <1>3, <3>1
    <3>3. rows'[q] = rows[q]
      BY <3>2 DEF Stored, Shaped, Shape
    <3>4. QED  BY <3>1, <3>3, <1>1, <1>2, LanesNow, LanesThen
  <2>2. CASE \E p \in Polls : k = <<"batch", p>>
    BY <2>2, <1>1, <1>2, LanesNow, LanesThen
  <2>3. CASE \E y \in Replayers : k = <<"replay", y>>
    <3>1. PICK y \in Replayers : k = <<"replay", y>>
      BY <2>3
    <3>2. y # x
      BY <1>5, <1>3, <3>1
    <3>3. replay'[y] = replay[y]
      BY <3>2 DEF Shaped, Shape
    <3>4. QED  BY <3>1, <3>3, <1>1, <1>2, LanesNow, LanesThen
  <2>4. QED  BY <2>1, <2>2, <2>3, LanesNow
<1>. DEFINE N == [L EXCEPT ![b] = Tail(L[b])]
<1>6. OnceOnly(L) /\ L[b] # <<>> /\ L[b] \in Seq(Signals)
  BY <1>1, <1>4 DEF Lists
<1>7. Tail(L[b]) \in Seq(Signals)
  BY <1>6
<1>8. N \in Lists /\ N[b] = Tail(L[b]) /\ \A l \in Lanes : l # b => N[l] = L[l]
  BY <1>7 DEF Lists
<1>. HIDE DEF N
<1>9. OnceOnly(N) /\ (\A s : InLane(N, s) => InLane(L, s)) /\ InLane(L, t) /\ ~InLane(N, t)
  BY <1>4, <1>6, <1>8, LanePopped
<1>10. Pushed(N, a, t, M)
  BY <1>3, <1>4, <1>5, <1>8 DEF Pushed
<1>11. OnceOnly(M) /\ \A s : InLane(M, s) => InLane(N, s) \/ s = t
  BY <1>8, <1>9, <1>10, LanePut
<1>12. OnceOnly(M) /\ \A s : InLane(M, s) => InLane(L, s)
  BY <1>9, <1>11
<1>13. QED  BY <1>1, <1>2, <1>12 DEF OnceOnly, InLane

\* A step that neither sends a signal nor brings it to a model.
LEMMA LanesQuiet ==
    ASSUME OnceOnly(Lane)', \A s : InLane(Lane, s)' => InLane(Lane, s), served' = served,
           \A s \in Signals : Unsent(s)' => Unsent(s)
    PROVE  LaneStep
BY DEF LaneStep, SignalStep

LEMMA SteppedLanes == ASSUME SigTables, PollsInv, HeardInv, SigNext, Shaped' PROVE LaneStep
<1>. /\ Shaped /\ OnceOnly(Lane)
     /\ sender \in [Signals -> SenderRow] /\ served \in [Signals -> Nat] /\ poll \in [Polls -> PollRow]
     /\ replay \in [Replayers -> Seq(Signals)] /\ Signals \subseteq Replayers /\ Sweeps \subseteq Replayers
     /\ poll' \in [Polls -> PollRow]
  BY DEF SigTables, PollsInv, HeardInv, Shaped, Shape, Replayers
<1>a. ASSUME sender' = sender PROVE \A s \in Signals : Unsent(s)' => Unsent(s)
  BY <1>a DEF Unsent
<1>b. ASSUME NEW p \in Polls, PollHandles(p) PROVE LaneStep
  <2>. PICK l \in Lanes : l = <<"batch", p>> /\ Lane[l] = poll[p].batch
    BY LanesNow
  <2>1. PICK t \in Signals : t = Head(Lane[l])
    BY <1>b DEF PollHandles, PollRow
  <2>2. /\ poll'[p].batch = Tail(poll[p].batch) /\ poll[p].batch # <<>> /\ rows' = rows /\ replay' = replay
        /\ \A q \in Polls : q # p => poll'[q] = poll[q]
        /\ served' = [served EXCEPT ![t] = served[t] + 1] /\ sender' = sender
    BY <1>b, <2>1 DEF PollHandles, Reaches, PollRow
  <2>3. Lane'[l] = Tail(Lane[l]) /\ l[1] # "rows"
    BY <2>2, LanesThen
  <2>4. /\ OnceOnly(Lane)' /\ \A s : InLane(Lane, s)' => InLane(Lane, s)
        /\ InLane(Lane, t) /\ ~InLane(Lane, t)'
    BY <2>1, <2>2, <2>3, LanesPop
  <2>5. ~Unsent(t)
    BY <2>4 DEF HeardInv
  <2>6. QED  BY <2>2, <2>4, <2>5, <1>a DEF LaneStep, SignalStep
<1>c. ASSUME NEW p \in Polls, PollTakes(p) PROVE LaneStep
  <2>. PICK l \in Lanes : l = <<"batch", p>> /\ Lane[l] = poll[p].batch
    BY LanesNow
  <2>1. PICK r \in SigRuns : r = poll[p].run
    BY <1>c DEF PollTakes, PollsInv
  <2>2. /\ poll'[p].batch = rows[r] /\ rows' = OtherRows(r) /\ replay' = replay
        /\ \A q \in Polls : q # p => poll'[q] = poll[q]
        /\ served' = served /\ sender' = sender
    BY <1>c, <2>1 DEF PollTakes, PollRow, Taken
  <2>3. Lane'[l] = rows[r] /\ l[1] # "rows" /\ Lane[l] = <<>>
    BY <2>2, <1>c, LanesThen DEF PollTakes, PollsInv
  <2>4. OnceOnly(Lane)' /\ \A s : InLane(Lane, s)' => InLane(Lane, s)
    BY <2>2, <2>3, LanesTake
  <2>5. QED  BY <2>2, <2>4, <1>a, LanesQuiet
<1>d. ASSUME NEW p \in Polls, PollThrows(p) \/ PollDies(p) PROVE LaneStep
  <2>. PICK l \in Lanes : l = <<"batch", p>> /\ Lane[l] = poll[p].batch
    BY LanesNow
  <2>2. /\ poll'[p].batch = <<>> /\ rows' = rows /\ replay' = replay
        /\ \A q \in Polls : q # p => poll'[q] = poll[q]
        /\ served' = served /\ sender' = sender
    <3>1. CASE PollThrows(p)
      BY <3>1 DEF PollThrows, PollRow
    <3>2. CASE PollDies(p)
      <4>1. poll' = [poll EXCEPT ![p] = [NoPoll EXCEPT !.run = poll[p].run, !.at = "dead"]]
        BY <3>2 DEF PollDies
      <4>2. [NoPoll EXCEPT !.run = poll[p].run, !.at = "dead"].batch = <<>>
        <5>1. poll[p].run \in SigRuns \cup {Nobody}
          BY DEF PollRow
        <5>2. QED  BY <5>1, FreshPolls
      <4>3. poll'[p].batch = <<>> /\ \A q \in Polls : q # p => poll'[q] = poll[q]
        BY <4>1, <4>2
      <4>4. QED  BY <3>2, <4>3 DEF PollDies
    <3>3. QED  BY <1>d, <3>1, <3>2
  <2>3. Lane'[l] = <<>> /\ l[1] # "rows"
    BY <2>2, LanesThen
  <2>4. OnceOnly(Lane)' /\ \A s : InLane(Lane, s)' => InLane(Lane, s)
    <3>1. CASE poll[p].batch = <<>>
      <4>1. \A q \in Polls : poll'[q].batch = poll[q].batch
        BY <3>1, <2>2
      <4>2. QED  BY <4>1, <2>2, LanesStand
    <3>2. CASE poll[p].batch # <<>>
      <4>1. PICK t : t = Head(Lane[l])
        OBVIOUS
      <4>2. Lane[l] # <<>>
        BY <3>2
      <4>3. QED  BY <4>1, <4>2, <2>2, <2>3, LanesPop
    <3>3. QED  BY <3>1, <3>2
  <2>5. QED  BY <2>2, <2>4, <1>a, LanesQuiet
<1>e. ASSUME rows' = rows, replay' = replay, served' = served, \A s \in Signals : Unsent(s)' => Unsent(s),
             \A p \in Polls : poll'[p].batch = poll[p].batch
      PROVE  LaneStep
  BY <1>e, LanesStand, LanesQuiet
<1>f. ASSUME NEW p \in Polls, \/ PollAsks(p) \/ PollDrained(p) \/ PollStops(p) \/ PollStopped(p)
                              \/ \E r \in SigRuns : Starts(p, r)
      PROVE  LaneStep
  <2>1. rows' = rows /\ replay' = replay /\ served' = served /\ sender' = sender
    BY <1>f DEF PollAsks, PollDrained, PollStops, PollStopped, Starts
  <2>2. poll'[p].batch = poll[p].batch /\ \A q \in Polls : q # p => poll'[q] = poll[q]
    <3>1. CASE PollAsks(p)
      BY <3>1 DEF PollAsks, Ask, PollRow
    <3>2. CASE PollDrained(p)
      BY <3>2 DEF PollDrained, PollRow
    <3>3. CASE PollStops(p)
      <4>. PICK o : o = [poll[p] EXCEPT !.at = "stopping"]
        OBVIOUS
      <4>1. o.batch = poll[p].batch /\ o \in PollRow
        BY DEF PollRow
      <4>2. Ask(o).batch = o.batch
        BY <4>1 DEF Ask, PollRow
      <4>3. poll' = [poll EXCEPT ![p] = Ask(o)] \/ poll' = [poll EXCEPT ![p] = o]
        BY <3>3 DEF PollStops
      <4>4. QED  BY <4>1, <4>2, <4>3
    <3>4. CASE PollStopped(p)
      BY <3>4 DEF PollStopped, PollRow
    <3>5. ASSUME NEW r \in SigRuns, Starts(p, r)
          PROVE  poll'[p].batch = poll[p].batch /\ \A q \in Polls : q # p => poll'[q] = poll[q]
      <4>1. poll' = [poll EXCEPT ![p] = [NoPoll EXCEPT !.run = r, !.at = "open"]] /\ poll[p].at = "none"
        BY <3>5 DEF Starts
      <4>2. [NoPoll EXCEPT !.run = r, !.at = "open"].batch = <<>>
        <5>1. r \in SigRuns \cup {Nobody}
          OBVIOUS
        <5>2. QED  BY <5>1, FreshPolls
      <4>3. poll[p].batch = <<>>
        BY <4>1 DEF PollsInv
      <4>4. QED  BY <4>1, <4>2, <4>3
    <3>6. QED  BY <1>f, <3>1, <3>2, <3>3, <3>4, <3>5
  <2>3. \A q \in Polls : poll'[q].batch = poll[q].batch
    BY <2>2
  <2>4. QED  BY <2>1, <2>3, <1>a, <1>e
<1>g. ASSUME \/ \E r \in SigRuns : Lapses(r) \/ Parks(r)
             \/ \E p \in Polls : Completes(p)
      PROVE  LaneStep
  BY <1>g, <1>a, <1>e DEF Lapses, Parks, Completes
<1>h. ASSUME NEW s \in Signals, Answers(s) PROVE LaneStep
  <2>1. \A u \in Signals : Unsent(u)' => Unsent(u)
    BY <1>h DEF Answers, Unsent, SenderRow
  <2>2. QED  BY <1>h, <2>1, <1>e DEF Answers
<1>i. ASSUME NEW s \in Signals, Chooses(s) PROVE LaneStep
  <2>1. rows' = rows /\ replay' = replay /\ poll' = poll /\ sender[s].at = "idle"
    BY <1>i DEF Chooses
  <2>2. OnceOnly(Lane)' /\ \A u : InLane(Lane, u)' => InLane(Lane, u)
    BY <2>1, LanesStand
  <2>3. \A u \in Signals : u # s => (Unsent(u)' <=> Unsent(u))
    BY <1>i DEF Chooses, Unsent
  <2>4. Unsent(s)
    BY <2>1 DEF Unsent
  <2>5. \/ served' = served
        \/ served' = [served EXCEPT ![s] = served[s] + 1] /\ ~Unsent(s)'
    BY <1>i DEF Chooses, Reaches, Unsent, SenderRow
  <2>6. ~InLane(Lane, s)
    BY <2>4 DEF HeardInv
  <2>7. CASE served' = served
    BY <2>2, <2>3, <2>4, <2>7 DEF LaneStep, SignalStep
  <2>8. CASE served' = [served EXCEPT ![s] = served[s] + 1] /\ ~Unsent(s)'
    BY <2>2, <2>3, <2>4, <2>6, <2>8 DEF LaneStep, SignalStep
  <2>9. QED  BY <2>5, <2>7, <2>8
<1>j. ASSUME NEW s \in Signals, Sends(s) PROVE LaneStep
  <2>1. PICK r \in SigRuns : r = sender[s].run
    BY <1>j DEF Sends, SigTables
  <2>2. /\ rows' = Stored(s, r) /\ replay' = replay /\ poll' = poll /\ served' = served
        /\ Unsent(s) /\ ~Unsent(s)' /\ \A u \in Signals : u # s => (Unsent(u)' <=> Unsent(u))
    BY <1>j, <2>1 DEF Sends, Unsent, SenderRow
  <2>3. ~InLane(Lane, s)
    BY <2>2 DEF HeardInv
  <2>4. OnceOnly(Lane)' /\ \A u : InLane(Lane, u)' => InLane(Lane, u) \/ u = s
    BY <2>2, <2>3, LanesPut
  <2>5. QED  BY <2>2, <2>4 DEF LaneStep, SignalStep
<1>k. ASSUME NEW x \in Replayers, NEW r \in SigRuns, Replays(x, r), replay[x] = <<>>,
             poll' = poll, served' = served, \A u \in Signals : Unsent(u)' => Unsent(u)
      PROVE  LaneStep
  <2>. PICK l \in Lanes : l = <<"replay", x>> /\ Lane[l] = replay[x]
    BY LanesNow
  <2>1. rows' = OtherRows(r) /\ replay'[x] = rows[r] /\ \A y \in Replayers : y # x => replay'[y] = replay[y]
    BY <1>k DEF Replays, Taken
  <2>2. Lane'[l] = rows[r] /\ Lane[l] = <<>> /\ l[1] # "rows"
    BY <1>k, <2>1, LanesThen
  <2>3. OnceOnly(Lane)' /\ \A s : InLane(Lane, s)' => InLane(Lane, s)
    BY <1>k, <2>1, <2>2, LanesTake
  <2>4. QED  BY <1>k, <2>3, LanesQuiet
<1>l. ASSUME NEW s \in Signals, Rechecks(s) PROVE LaneStep
  <2>1. PICK r \in SigRuns : r = sender[s].run
    BY <1>l DEF Rechecks, SigTables
  <2>2. /\ Replays(s, r) \/ (rows' = rows /\ replay' = replay)
        /\ poll' = poll /\ served' = served
    BY <1>l, <2>1 DEF Rechecks
  <2>3. \A u \in Signals : Unsent(u)' => Unsent(u)
    BY <1>l DEF Rechecks, Unsent, SenderRow
  <2>4. replay[s] = <<>>
    BY <1>l DEF Rechecks, HeardInv
  <2>5. QED  BY <2>2, <2>3, <2>4, <1>e, <1>k
<1>m. ASSUME NEW x \in Sweeps, NEW r \in SigRuns, Sweep(x, r) PROVE LaneStep
  <2>1. Replays(x, r) /\ replay[x] = <<>> /\ poll' = poll /\ served' = served /\ sender' = sender
    BY <1>m DEF Sweep
  <2>2. QED  BY <2>1, <1>a, <1>k
<1>n. ASSUME NEW x \in Replayers, ReplayStep(x) \/ ReplayThrows(x) \/ ReplayDies(x) PROVE LaneStep
  <2>. PICK l \in Lanes : l = <<"replay", x>> /\ Lane[l] = replay[x]
    BY LanesNow
  <2>1. /\ replay[x] # <<>> /\ poll' = poll /\ sender' = sender
        /\ replay' = [replay EXCEPT ![x] = Tail(replay[x])] \/ replay' = [replay EXCEPT ![x] = <<>>]
    BY <1>n DEF ReplayStep, ReplayThrows, ReplayDies
  <2>2. PICK t \in Signals : t = Head(replay[x])
    BY <2>1
  <2>3. /\ Lane[l] # <<>> /\ t = Head(Lane[l]) /\ l[1] # "rows"
        /\ Lane'[l] = Tail(Lane[l]) \/ Lane'[l] = <<>>
        /\ \A y \in Replayers : l # <<"replay", y>> => replay'[y] = replay[y]
    BY <2>1, <2>2, LanesThen
  <2>4. CASE rows' = rows /\ served' = served
    <3>1. OnceOnly(Lane)' /\ \A s : InLane(Lane, s)' => InLane(Lane, s)
      BY <2>1, <2>3, <2>4, LanesPop
    <3>2. QED  BY <3>1, <2>1, <2>4, <1>a, LanesQuiet
  <2>5. CASE rows' = rows /\ Reaches(t, "fresh")
    <3>1. /\ OnceOnly(Lane)' /\ \A s : InLane(Lane, s)' => InLane(Lane, s)
          /\ InLane(Lane, t) /\ ~InLane(Lane, t)'
      BY <2>1, <2>3, <2>5, LanesPop
    <3>2. ~Unsent(t)
      BY <3>1 DEF HeardInv
    <3>3. served' = [served EXCEPT ![t] = served[t] + 1]
      BY <2>5 DEF Reaches
    <3>4. QED  BY <3>1, <3>2, <3>3, <2>1, <1>a DEF LaneStep, SignalStep
  <2>6. ASSUME NEW r \in SigRuns, rows' = Stored(t, r), served' = served,
               replay' = [replay EXCEPT ![x] = Tail(replay[x])]
        PROVE  LaneStep
    <3>1. OnceOnly(Lane)' /\ \A s : InLane(Lane, s)' => InLane(Lane, s)
      BY <2>1, <2>2, <2>6, LanesRequeue
    <3>2. QED  BY <3>1, <2>1, <2>6, <1>a, LanesQuiet
  <2>7. \/ rows' = rows /\ served' = served
        \/ rows' = rows /\ Reaches(t, "fresh")
        \/ \E r \in SigRuns : /\ rows' = Stored(t, r) /\ served' = served
                              /\ replay' = [replay EXCEPT ![x] = Tail(replay[x])]
    BY <1>n, <2>2 DEF ReplayStep, ReplayThrows, ReplayDies
  <2>8. QED  BY <2>4, <2>5, <2>6, <2>7
<1>o. QED
  BY <1>b, <1>c, <1>d, <1>f, <1>g, <1>h, <1>i, <1>j, <1>l, <1>m, <1>n
  DEF SigNext, PollSteps, SenderSteps

\* A replayer that is a sender takes nothing before its own recheck.
LEMMA ReplaysKept ==
    ASSUME SigTables, HeardInv, SigNext
    PROVE  \A s \in Signals : sender'[s].at \in {"idle", "chosen", "sent"} => replay'[s] = <<>>
<1>. /\ sender \in [Signals -> SenderRow] /\ replay \in [Replayers -> Seq(Signals)]
     /\ Signals \subseteq Replayers /\ \A x \in Sweeps : x \notin Signals
  BY SignalsAssumption DEF SigTables, Replayers
<1>. SUFFICES ASSUME NEW s \in Signals, sender'[s].at \in {"idle", "chosen", "sent"} PROVE replay'[s] = <<>>
  OBVIOUS
<1>1. sender[s].at \in {"idle", "chosen", "sent"} /\ ~Rechecks(s)
  <2>1. ASSUME NEW u \in Signals, Chooses(u) \/ Sends(u) \/ Answers(u)
        PROVE  sender[s].at \in {"idle", "chosen", "sent"}
    BY <2>1 DEF Chooses, Sends, Answers, SenderRow
  <2>2. ASSUME NEW u \in Signals, Rechecks(u)
        PROVE  sender[s].at \in {"idle", "chosen", "sent"}
    BY <2>2 DEF Rechecks, SenderRow
  <2>3. ~Rechecks(s)
    BY DEF Rechecks, SenderRow
  <2>4. sender' = sender => sender[s].at \in {"idle", "chosen", "sent"}
    OBVIOUS
  <2>5. QED
    BY <2>1, <2>2, <2>3, <2>4
    DEF SigNext, PollSteps, SenderSteps, Lapses, Parks, Completes, Sweep, ReplayStep, ReplayThrows, ReplayDies,
        Starts, PollAsks, PollTakes, PollHandles, PollThrows, PollDrained, PollStops, PollStopped, PollDies
<1>2. replay[s] = <<>>
  BY <1>1 DEF HeardInv
<1>3. ASSUME NEW u \in Signals, Rechecks(u) PROVE replay'[s] = replay[s]
  BY <1>3, <1>1 DEF Rechecks, Replays
<1>4. ASSUME NEW x \in Sweeps, NEW r \in SigRuns, Sweep(x, r) PROVE replay'[s] = replay[s]
  BY <1>4 DEF Sweep, Replays
<1>5. ASSUME NEW x \in Replayers, ReplayStep(x) \/ ReplayThrows(x) \/ ReplayDies(x) PROVE replay'[s] = replay[s]
  <2>1. x # s
    BY <1>5, <1>2 DEF ReplayStep, ReplayThrows, ReplayDies
  <2>2. QED  BY <1>5, <2>1 DEF ReplayStep, ReplayThrows, ReplayDies
<1>6. replay' = replay => replay'[s] = replay[s]
  OBVIOUS
<1>7. QED
  BY <1>2, <1>3, <1>4, <1>5, <1>6
  DEF SigNext, PollSteps, SenderSteps, Lapses, Parks, Completes, Chooses, Sends, Answers,
      Starts, PollAsks, PollTakes, PollHandles, PollThrows, PollDrained, PollStops, PollStopped, PollDies

LEMMA HeardStep ==
    ASSUME SigTables, PollsInv, HeardInv, SigNext, Shaped', SigTables'
    PROVE  HeardInv'
<1>1. LaneStep
  BY SteppedLanes
<1>2. served \in [Signals -> Nat]
  BY DEF SigTables
<1>3. ASSUME NEW s \in Signals
      PROVE  /\ served'[s] <= 1
             /\ InLane(Lane, s)' => served'[s] = 0
             /\ Unsent(s)' => served'[s] = 0 /\ ~InLane(Lane, s)'
  <2>1. SignalStep(s)
    BY <1>1 DEF LaneStep
  <2>2. /\ served[s] <= 1 /\ served[s] \in Nat
        /\ InLane(Lane, s) => served[s] = 0
        /\ Unsent(s) => served[s] = 0 /\ ~InLane(Lane, s)
    BY <1>2 DEF HeardInv
  <2>3. QED  BY <2>1, <2>2 DEF SignalStep
<1>4. QED  BY <1>1, <1>3, ReplaysKept DEF HeardInv, LaneStep

LEMMA SigStep == SigInv /\ [SigNext]_sigVars => SigInv'
<1>1. ASSUME SigInv, SigNext PROVE SigInv'
  <2>1. SigTables' /\ PollsInv'
    BY <1>1, TablesStep, PollsStep DEF SigInv, SigTables
  <2>2. Shaped'
    BY <2>1 DEF SigTables, PollsInv, Shaped, Shape
  <2>3. QED  BY <1>1, <2>1, <2>2, HeardStep DEF SigInv
<1>2. ASSUME SigInv, UNCHANGED sigVars PROVE SigInv'
  BY <1>2 DEF sigVars, SigInv, SigTables, PollsInv, HeardInv, Lane, OnceOnly, InLane, Unsent
<1>3. QED  BY <1>1, <1>2

LEMMA SigStart == SigInit => SigInv
<1>. SUFFICES ASSUME SigInit PROVE SigInv
  OBVIOUS
<1>1. PICK S \in SUBSET Signals, R \in SUBSET SigRuns :
        /\ sender = [s \in Signals |-> [at |-> IF s \in S THEN "idle" ELSE "done", run |-> Nobody]]
        /\ sigRun = [r \in SigRuns |-> [at |-> IF r \in R THEN "pending" ELSE "terminal", owner |-> Nobody]]
  BY DEF SigInit
<1>2. sender \in [Signals -> SenderRow] /\ \A s \in Signals : sender[s].at \in {"idle", "done"}
  BY <1>1 DEF SenderRow
<1>3. sigRun \in [SigRuns -> RunRow]
  BY <1>1 DEF RunRow
<1>4. rows \in [SigRuns -> Seq(Signals)] /\ replay \in [Replayers -> Seq(Signals)]
  <2>1. <<>> \in Seq(Signals)
    OBVIOUS
  <2>2. QED  BY <2>1 DEF SigInit
<1>5. fate \in [Signals -> Fates] /\ served \in [Signals -> {0}] /\ sigFaults \in 0 .. MaxSigFaults
  BY SignalsAssumption DEF SigInit, Fates
<1>6. SigTables
  <2>1. served \in [Signals -> Nat]
    BY <1>5
  <2>2. \A s \in Signals : sender[s].at \notin {"chosen", "sent"}
    BY <1>2
  <2>3. QED  BY <1>2, <1>3, <1>4, <1>5, <2>1, <2>2 DEF SigTables
<1>7. PollsInv
  <2>1. NoPoll \in PollRow /\ NoPoll.at = "none" /\ NoPoll.drain = "no" /\ NoPoll.batch = <<>>
    BY DEF NoPoll, PollRow
  <2>2. poll \in [Polls -> PollRow] /\ \A p \in Polls : poll[p] = NoPoll
    BY <2>1 DEF SigInit
  <2>3. QED  BY <2>1, <2>2 DEF PollsInv
<1>8. HeardInv
  <2>1. Shaped
    BY <1>4, <1>7 DEF Shaped, Shape, PollsInv
  <2>2. \A p \in Polls : poll[p].batch = <<>>
    BY DEF SigInit, NoPoll
  <2>3. \A l \in Lanes : Lane[l] = <<>>
    BY <2>1, <2>2, LanesNow DEF SigInit
  <2>4. OnceOnly(Lane) /\ \A s : ~InLane(Lane, s)
    BY <2>3 DEF OnceOnly, InLane
  <2>5. \A s \in Signals : served[s] = 0 /\ served[s] <= 1 /\ replay[s] = <<>>
    BY <1>5 DEF SigInit, Replayers
  <2>6. QED  BY <2>4, <2>5 DEF HeardInv
<1>9. QED  BY <1>6, <1>7, <1>8 DEF SigInv

\* The runs, rows, polls and replays keep their shape.
THEOREM SigTypeCorrect == SigSpec => []SigTypeOK
<1>1. SigInv => SigTypeOK
  BY DEF SigInv, SigTables, PollsInv, SigTypeOK, RunRow, PollRow, SenderRow, Fates
<1>2. QED  BY <1>1, SigStart, SigStep, PTL DEF SigSpec

\* takePending consumes what it reads: whoever gets to a row first, the poll of an attempt
\* (a zombie's as well), the sender, the listener or a sweep, the message reaches a
\* model once.
THEOREM SignalsHeardOnce == SigSpec => []HeardOnce
<1>1. SigInv => HeardOnce
  BY DEF SigInv, HeardInv, HeardOnce
<1>2. QED  BY <1>1, SigStart, SigStep, PTL DEF SigSpec

\* stop() waits for the drain that is running and for the one that was asked for
\* meanwhile: a poll that is closed has no handler.
THEOREM PollsStopQuietly == SigSpec => []StoppedIsQuiet
<1>1. SigInv => StoppedIsQuiet
  BY DEF SigInv, PollsInv, StoppedIsQuiet
<1>2. QED  BY <1>1, SigStart, SigStep, PTL DEF SigSpec
=============================================================================
