---------------------------- MODULE OutboxProofs ----------------------------
(***************************************************************************)
(* Theorems about the outbox (DeliveryOutbox).                             *)
(***************************************************************************)
EXTENDS DeliveryOutbox, Integers, SequenceTheorems, TLAPS

-----------------------------------------------------------------------------
(* The maps of a tracker.                                                  *)

Lists == Seq(Deliveries)

LEMMA PutFacts ==
    ASSUME NEW s \in Lists, NEW d \in Deliveries
    PROVE  /\ Put(s, d) \in Lists /\ Contains(Put(s, d), d)
           /\ Len(Put(s, d)) <= Len(s) + 1
           /\ \A e : Contains(s, e) => Contains(Put(s, d), e)
           /\ \A e : Contains(Put(s, d), e) => e = d \/ Contains(s, e)
<1>1. CASE Contains(s, d)
  BY <1>1 DEF Put, Lists
<1>2. CASE ~Contains(s, d)
  <2>. DEFINE u == Append(s, d)
  <2>1. Put(s, d) = u
    BY <1>2 DEF Put
  <2>2. /\ u \in Lists /\ Len(u) = Len(s) + 1 /\ u[Len(s) + 1] = d
        /\ \A i \in 1 .. Len(s) : u[i] = s[i]
    BY DEF Lists
  <2>. HIDE DEF u
  <2>3. Len(s) \in Nat
    BY DEF Lists
  <2>4. Contains(u, d)
    BY <2>2, <2>3 DEF Contains
  <2>5. \A e : Contains(s, e) => Contains(u, e)
    BY <2>2, <2>3 DEF Contains
  <2>6. \A e : Contains(u, e) => e = d \/ Contains(s, e)
    BY <2>2, <2>3 DEF Contains
  <2>7. QED  BY <2>1, <2>2, <2>3, <2>4, <2>5, <2>6
<1>3. QED  BY <1>1, <1>2

LEMMA WithoutFacts ==
    ASSUME NEW s \in Lists, NEW d
    PROVE  /\ Without(s, d) \in Lists
           /\ \A e : Contains(Without(s, d), e) => Contains(s, e)
           /\ \A e : e # d /\ Contains(s, e) => Contains(Without(s, d), e)
<1>1. CASE ~Contains(s, d)
  BY <1>1 DEF Without
<1>2. CASE Contains(s, d)
  <2>1. DOMAIN s = 1 .. Len(s) /\ Len(s) \in Nat
    BY DEF Lists
  <2>2. \E i \in DOMAIN s : s[i] = d
    BY <1>2, <2>1 DEF Contains
  <2>. DEFINE k == CHOOSE i \in DOMAIN s : s[i] = d
              u == RemoveAt(s, k)
  <2>3. k \in 1 .. Len(s) /\ s[k] = d
    BY <2>1, <2>2
  <2>4. Without(s, d) = u
    BY <1>2 DEF Without
  <2>. HIDE DEF k
  <2>5. /\ u \in Lists /\ Len(u) = Len(s) - 1
        /\ \A i \in 1 .. Len(s) - 1 : u[i] = IF i < k THEN s[i] ELSE s[i + 1]
    <3>. DEFINE a == SubSeq(s, 1, k - 1)
                b == SubSeq(s, k + 1, Len(s))
    <3>1. /\ a \in Lists /\ Len(a) = k - 1
          /\ \A i \in 1 .. k - 1 : a[i] = s[i]
      BY <2>1, <2>3 DEF Lists
    <3>2. /\ b \in Lists /\ Len(b) = Len(s) - k
          /\ \A i \in 1 .. Len(s) - k : b[i] = s[k + i]
      <4>1. k + 1 \in Int /\ Len(s) \in Int /\ \A i \in k + 1 .. Len(s) : s[i] \in Deliveries
        BY <2>1, <2>3 DEF Lists
      <4>2. /\ b \in Seq(Deliveries)
            /\ Len(b) = IF k + 1 <= Len(s) THEN Len(s) - (k + 1) + 1 ELSE 0
            /\ \A i \in 1 .. Len(s) - (k + 1) + 1 : b[i] = s[k + 1 + i - 1]
        BY <4>1, SubSeqProperties
      <4>. HIDE DEF b
      <4>3. Len(b) = Len(s) - k
        <5>. DEFINE l == Len(s)
        <5>1. l \in Nat /\ k \in 1 .. l
          BY <2>1, <2>3
        <5>2. Len(b) = IF k + 1 <= l THEN l - (k + 1) + 1 ELSE 0
          BY <4>2
        <5>. HIDE DEF l
        <5>3. CASE k + 1 <= l
          <6>1. Len(b) = l - (k + 1) + 1
            BY <5>2, <5>3
          <6>2. l - (k + 1) + 1 = l - k
            BY <5>1
          <6>3. QED  BY <6>1, <6>2 DEF l
        <5>4. CASE ~(k + 1 <= l)
          <6>1. Len(b) = 0
            BY <5>2, <5>4
          <6>2. l - k = 0
            BY <5>1, <5>4
          <6>3. QED  BY <6>1, <6>2 DEF l
        <5>5. QED  BY <5>3, <5>4
      <4>4. ASSUME NEW i \in 1 .. Len(s) - k PROVE b[i] = s[k + i]
        <5>1. i \in 1 .. Len(s) - (k + 1) + 1 /\ k + 1 + i - 1 = k + i
          BY <2>1, <2>3
        <5>2. QED  BY <4>2, <5>1
      <4>5. QED  BY <4>2, <4>3, <4>4 DEF Lists
    <3>3. u = a \o b
      BY DEF RemoveAt
    <3>. HIDE DEF a, b, u
    <3>4. /\ a \o b \in Lists /\ Len(a \o b) = Len(a) + Len(b)
          /\ \A i \in 1 .. Len(a) + Len(b) :
               (a \o b)[i] = IF i <= Len(a) THEN a[i] ELSE b[i - Len(a)]
      BY <3>1, <3>2, ConcatProperties DEF Lists
    <3>5. ASSUME NEW i \in 1 .. Len(s) - 1
          PROVE  u[i] = IF i < k THEN s[i] ELSE s[i + 1]
      <4>1. i \in 1 .. Len(a) + Len(b) /\ i \in Int
        BY <2>1, <2>3, <3>1, <3>2
      <4>2. CASE i < k
        BY <2>1, <2>3, <3>1, <3>3, <3>4, <4>1, <4>2
      <4>3. CASE ~(i < k)
        <5>1. i - (k - 1) \in 1 .. Len(s) - k /\ k + (i - (k - 1)) = i + 1
          BY <2>1, <2>3, <4>3
        <5>2. b[i - (k - 1)] = s[i + 1]
          BY <3>2, <5>1
        <5>3. u[i] = b[i - (k - 1)]
          BY <2>3, <3>1, <3>3, <3>4, <4>1, <4>3
        <5>4. QED  BY <4>3, <5>2, <5>3
      <4>4. QED  BY <4>2, <4>3
    <3>6. u \in Lists /\ Len(u) = Len(s) - 1
      BY <2>1, <2>3, <3>1, <3>2, <3>3, <3>4
    <3>7. QED  BY <3>5, <3>6
  <2>. HIDE DEF u
  <2>6. \A e : Contains(u, e) => Contains(s, e)
    BY <2>1, <2>3, <2>5 DEF Contains
  <2>7. ASSUME NEW e, e # d, Contains(s, e) PROVE Contains(u, e)
    <3>1. PICK i \in 1 .. Len(s) : s[i] = e
      BY <2>7 DEF Contains
    <3>2. CASE i < k
      <4>1. i \in 1 .. Len(s) - 1 /\ u[i] = e
        BY <2>1, <2>3, <2>5, <3>1, <3>2
      <4>2. QED  BY <2>5, <4>1 DEF Contains
    <3>3. CASE i > k
      <4>1. i - 1 \in 1 .. Len(s) - 1 /\ u[i - 1] = e
        BY <2>1, <2>3, <2>5, <3>1, <3>3
      <4>2. QED  BY <2>5, <4>1 DEF Contains
    <3>4. QED  BY <2>1, <2>3, <2>7, <3>1, <3>2, <3>3
  <2>8. QED  BY <2>4, <2>5, <2>6, <2>7
<1>3. QED  BY <1>1, <1>2

LEMMA CapFacts ==
    ASSUME NEW s \in Lists
    PROVE  /\ CapMap(s) \in Lists
           /\ Len(s) <= MaxTracked => CapMap(s) = s
<1>1. Len(s) \in Nat /\ MaxTracked \in Nat
  BY BoundsAssumption DEF Lists
<1>2. Len(s) > MaxTracked => SubSeq(s, Len(s) - MaxTracked + 1, Len(s)) \in Lists
  BY <1>1 DEF Lists
<1>3. QED  BY <1>1, <1>2 DEF CapMap

-----------------------------------------------------------------------------
(* The operations on a tracker.  What a process knows of a delivery is that *)
(* it posted it or that it gave up on it.                                   *)

Knows(t, e) == Contains(t.posted, e) \/ Contains(t.dead, e)

LEMMA ForgetFacts ==
    ASSUME NEW t \in Tracker, NEW d \in Deliveries
    PROVE  /\ Forget(t, d) \in Tracker
           /\ Forget(t, d).posted = t.posted /\ Forget(t, d).dead = t.dead
<1>1. t.failing \in Lists /\ t.count \in [Deliveries -> 0 .. MaxAttempts - 1]
  BY DEF Tracker, Lists
<1>2. PICK f \in Lists : f = Without(t.failing, d)
  BY <1>1, WithoutFacts
<1>3. PICK c \in [Deliveries -> 0 .. MaxAttempts - 1] : c = [t.count EXCEPT ![d] = 0]
  <2>1. 0 \in 0 .. MaxAttempts - 1
    BY BoundsAssumption
  <2>2. [t.count EXCEPT ![d] = 0] \in [Deliveries -> 0 .. MaxAttempts - 1]
    BY <1>1, <2>1
  <2>3. QED  BY <2>2
<1>4. Forget(t, d) = [t EXCEPT !.failing = f, !.count = c]
  BY <1>2, <1>3 DEF Forget, Tracker
<1>5. QED  BY <1>2, <1>3, <1>4 DEF Tracker, Lists

LEMMA BuryFacts ==
    ASSUME NEW t \in Tracker, NEW d \in Deliveries
    PROVE  /\ Bury(t, d) \in Tracker
           /\ \A e : Contains(Bury(t, d).posted, e) => Contains(t.posted, e)
           /\ \A e : Len(t.dead) < MaxTracked /\ Knows(t, e) => Knows(Bury(t, d), e)
           /\ Len(t.dead) < MaxTracked => Contains(Bury(t, d).dead, d)
<1>1. PICK u \in Tracker : u = Forget(t, d)
  BY ForgetFacts
<1>2. u.posted = t.posted /\ u.dead = t.dead /\ t.posted \in Lists /\ t.dead \in Lists
  BY <1>1, ForgetFacts DEF Tracker, Lists
<1>3. PICK q \in Lists : q = Without(t.posted, d)
  BY <1>2, WithoutFacts
<1>4. PICK r \in Lists : r = Put(t.dead, d)
  BY <1>2, PutFacts
<1>5. PICK x \in Lists : x = CapMap(r)
  BY CapFacts
<1>6. Bury(t, d) = [u EXCEPT !.posted = q, !.dead = x]
  BY <1>1, <1>2, <1>3, <1>4, <1>5 DEF Bury, Tracker
<1>7. Bury(t, d) \in Tracker /\ Bury(t, d).posted = q /\ Bury(t, d).dead = x
  BY <1>6 DEF Tracker, Lists
<1>8. \A e : /\ Contains(q, e) => Contains(t.posted, e)
             /\ e # d /\ Contains(t.posted, e) => Contains(q, e)
             /\ Contains(t.dead, e) => Contains(r, e)
  BY <1>2, <1>3, <1>4, WithoutFacts, PutFacts
<1>9. Contains(r, d)
  BY <1>2, <1>4, PutFacts
<1>10. ASSUME Len(t.dead) < MaxTracked PROVE x = r
  <2>1. Len(r) <= Len(t.dead) + 1 /\ Len(r) \in Nat /\ Len(t.dead) \in Nat
    <3>1. Len(r) <= Len(t.dead) + 1
      BY <1>2, <1>4, PutFacts
    <3>2. QED  BY <1>2, <3>1 DEF Lists
  <2>2. Len(r) <= MaxTracked
    BY <1>10, <2>1, BoundsAssumption
  <2>3. QED  BY <1>5, <2>2, CapFacts
<1>11. QED  BY <1>7, <1>8, <1>9, <1>10 DEF Knows

LEMMA MarkPostedFacts ==
    ASSUME NEW t \in Tracker, NEW d \in Deliveries
    PROVE  /\ MarkPosted(t, d) \in Tracker
           /\ \A e : Contains(MarkPosted(t, d).posted, e) => e = d \/ Contains(t.posted, e)
           /\ \A e : Len(t.dead) < MaxTracked /\ (e = d \/ Knows(t, e)) => Knows(MarkPosted(t, d), e)
<1>1. t.posted \in Lists
  BY DEF Tracker, Lists
<1>2. PICK q \in Lists : q = Put(t.posted, d)
  BY <1>1, PutFacts
<1>3. PICK u \in Tracker : u = [t EXCEPT !.posted = q]
  BY DEF Tracker, Lists
<1>4. u.posted = q /\ u.dead = t.dead
  BY <1>3 DEF Tracker
<1>5. MarkPosted(t, d) = IF Len(q) > MaxTracked THEN Bury(u, Head(q)) ELSE u
  BY <1>2, <1>3, <1>4 DEF MarkPosted
<1>6. \A e : /\ Contains(q, e) => e = d \/ Contains(t.posted, e)
             /\ e = d \/ Contains(t.posted, e) => Contains(q, e)
  BY <1>1, <1>2, PutFacts
<1>7. /\ \A e : Contains(u.posted, e) => e = d \/ Contains(t.posted, e)
      /\ \A e : e = d \/ Knows(t, e) => Knows(u, e)
  BY <1>4, <1>6 DEF Knows
<1>8. CASE ~(Len(q) > MaxTracked)
  BY <1>5, <1>7, <1>8
<1>9. CASE Len(q) > MaxTracked
  <2>1. Head(q) \in Deliveries
    BY <1>9, BoundsAssumption DEF Lists
  <2>2. MarkPosted(t, d) = Bury(u, Head(q))
    BY <1>5, <1>9
  <2>3. QED  BY <1>4, <1>7, <2>1, <2>2, BuryFacts
<1>10. QED  BY <1>8, <1>9

LEMMA RecordFailureFacts ==
    ASSUME NEW t \in Tracker, NEW d \in Deliveries
    PROVE  /\ RecordFailure(t, d) \in Tracker
           /\ \A e : Contains(RecordFailure(t, d).posted, e) => Contains(t.posted, e)
           /\ \A e : Len(t.dead) < MaxTracked /\ Knows(t, e) => Knows(RecordFailure(t, d), e)
<1>1. t.failing \in Lists /\ t.count \in [Deliveries -> 0 .. MaxAttempts - 1]
  BY DEF Tracker, Lists
<1>2. CASE t.count[d] + 1 >= MaxAttempts
  BY <1>2, BuryFacts DEF RecordFailure
<1>3. CASE ~(t.count[d] + 1 >= MaxAttempts)
  <2>1. PICK f \in Lists : f = Put(t.failing, d)
    BY <1>1, PutFacts
  <2>2. t.count[d] + 1 \in 0 .. MaxAttempts - 1
    BY <1>1, <1>3, BoundsAssumption
  <2>3. PICK c \in [Deliveries -> 0 .. MaxAttempts - 1] :
          c = [t.count EXCEPT ![d] = t.count[d] + 1]
    BY <1>1, <2>2
  <2>4. PICK u \in Tracker : u = [t EXCEPT !.failing = f, !.count = c]
    BY DEF Tracker, Lists
  <2>5. u.posted = t.posted /\ u.dead = t.dead /\ u.failing = f
    BY <2>4 DEF Tracker
  <2>6. u = [t EXCEPT !.failing = Put(@, d), !.count[d] = t.count[d] + 1]
    BY <2>1, <2>3, <2>4 DEF Tracker
  <2>7. RecordFailure(t, d) = IF Len(f) > MaxTracked THEN Forget(u, Head(f)) ELSE u
    BY <1>3, <2>5, <2>6 DEF RecordFailure
  <2>8. CASE ~(Len(f) > MaxTracked)
    BY <2>5, <2>7, <2>8 DEF Knows
  <2>9. CASE Len(f) > MaxTracked
    <3>1. Head(f) \in Deliveries
      BY <2>9, BoundsAssumption DEF Lists
    <3>2. PICK w \in Tracker : w = Forget(u, Head(f))
      BY <3>1, ForgetFacts
    <3>3. w.posted = t.posted /\ w.dead = t.dead
      BY <2>5, <3>1, <3>2, ForgetFacts
    <3>4. RecordFailure(t, d) = w
      BY <2>7, <2>9, <3>2
    <3>5. QED  BY <3>3, <3>4 DEF Knows
  <2>10. QED  BY <2>8, <2>9
<1>4. QED  BY <1>2, <1>3

LEMMA ClearFacts ==
    ASSUME NEW t \in Tracker, NEW d \in Deliveries
    PROVE  /\ Clear(t, d) \in Tracker
           /\ \A e : Contains(Clear(t, d).posted, e) => Contains(t.posted, e)
           /\ \A e : e # d /\ Knows(t, e) => Knows(Clear(t, d), e)
<1>1. PICK u \in Tracker : u = Forget(t, d)
  BY ForgetFacts
<1>2. u.posted = t.posted /\ u.dead = t.dead /\ t.posted \in Lists
  BY <1>1, ForgetFacts DEF Tracker, Lists
<1>3. PICK q \in Lists : q = Without(t.posted, d)
  BY <1>2, WithoutFacts
<1>4. Clear(t, d) = [u EXCEPT !.posted = q]
  BY <1>1, <1>2, <1>3 DEF Clear, Tracker
<1>5. Clear(t, d) \in Tracker /\ Clear(t, d).posted = q /\ Clear(t, d).dead = t.dead
  BY <1>2, <1>4 DEF Tracker, Lists
<1>6. \A e : /\ Contains(q, e) => Contains(t.posted, e)
             /\ e # d /\ Contains(t.posted, e) => Contains(q, e)
  BY <1>2, <1>3, WithoutFacts
<1>7. QED  BY <1>5, <1>6 DEF Knows

-----------------------------------------------------------------------------
(* Rows and jobs.                                                          *)

\* What one step may do to a row r that becomes s.
Grows(r, s) ==
    /\ r.st = "delivered" => s.st = "delivered"
    /\ r.st # "none" => s.st # "none"
    /\ r.st # "none" /\ ~r.fresh => ~s.fresh

LEMMA RowFacts ==
    ASSUME NEW r \in Row
    PROVE  /\ Grows(r, r)
           /\ EnqueueRow(r) \in Row /\ Grows(r, EnqueueRow(r))
           /\ AckRow(r) \in Row /\ Grows(r, AckRow(r)) /\ AckRow(r).st # "pending"
           /\ AckKeyRow(r) \in Row /\ Grows(r, AckKeyRow(r)) /\ AckKeyRow(r).st = "delivered"
           /\ \A b \in BOOLEAN : [r EXCEPT !.claimed = b] \in Row /\ Grows(r, [r EXCEPT !.claimed = b])
           /\ [r EXCEPT !.fresh = FALSE] \in Row /\ Grows(r, [r EXCEPT !.fresh = FALSE])
           /\ [r EXCEPT !.claimed = TRUE].st = r.st
           /\ AckRow(r).st = "delivered" => r.st # "none"
<1>1. r.st \in {"none", "pending", "delivered"} /\ r.claimed \in BOOLEAN /\ r.fresh \in BOOLEAN
  BY DEF Row
<1>2. EnqueueRow(r) \in Row /\ Grows(r, EnqueueRow(r))
  BY <1>1 DEF EnqueueRow, Grows, Row
<1>3. AckRow(r) \in Row /\ Grows(r, AckRow(r)) /\ AckRow(r).st # "pending"
  BY <1>1 DEF AckRow, Grows, Row
<1>4. AckKeyRow(r) \in Row /\ Grows(r, AckKeyRow(r)) /\ AckKeyRow(r).st = "delivered"
  BY <1>1 DEF AckKeyRow, Grows, Row
<1>5. \A b \in BOOLEAN : [r EXCEPT !.claimed = b] \in Row /\ Grows(r, [r EXCEPT !.claimed = b])
  BY <1>1 DEF Grows, Row
<1>6. [r EXCEPT !.fresh = FALSE] \in Row /\ Grows(r, [r EXCEPT !.fresh = FALSE])
  BY <1>1 DEF Grows, Row
<1>7. [r EXCEPT !.claimed = TRUE].st = r.st
  BY DEF Row
<1>8. AckRow(r).st = "delivered" => r.st # "none"
  BY <1>1 DEF AckRow, Row
<1>9. Grows(r, r)
  BY DEF Grows
<1>10. QED  BY <1>2, <1>3, <1>4, <1>5, <1>6, <1>7, <1>8, <1>9

Busy == {"verify", "post", "scan", "ack"}

\* A job that holds a delivery, and a post that has attempts left.
Sound(j) == /\ j.at \in Busy => j.cur \in Deliveries
            /\ j.at = "post" => j.tries < PostTries

LEMMA JobFacts ==
    ASSUME NEW j \in Job, Sound(j)
    PROVE  /\ \A b \in SUBSET Deliveries :
                LET n == [NoJob EXCEPT !.at = "next", !.batch = b]
                IN  n \in Job /\ Sound(n) /\ n.at = "next" /\ n.batch = b
           /\ NoJob \in Job /\ Sound(NoJob) /\ NoJob.at = "idle" /\ NoJob.batch = {}
           /\ \A d \in Deliveries, a \in {"ack", "verify", "post"} :
                LET n == [at |-> a, batch |-> j.batch \ {d}, cur |-> d, tries |-> 0]
                IN  n \in Job /\ Sound(n)
           /\ j.at \in Busy =>
                LET n == [j EXCEPT !.at = "ack"]
                IN  n \in Job /\ Sound(n) /\ n.at = "ack" /\ n.cur = j.cur /\ n.batch = j.batch
           /\ j.at \in {"verify", "scan"} /\ j.tries < PostTries =>
                LET n == [j EXCEPT !.at = "post"]
                IN  n \in Job /\ Sound(n) /\ n.at = "post" /\ n.cur = j.cur /\ n.batch = j.batch
           /\ j.at = "post" /\ j.tries + 1 < PostTries =>
                LET n == [j EXCEPT !.tries = @ + 1]
                IN  n \in Job /\ Sound(n) /\ n.at = "post" /\ n.cur = j.cur /\ n.batch = j.batch
           /\ j.at = "post" =>
                LET n == [j EXCEPT !.at = "scan", !.tries = @ + 1]
                IN  n \in Job /\ Sound(n) /\ n.at = "scan" /\ n.cur = j.cur /\ n.batch = j.batch
<1>1. /\ j.at \in {"idle", "next", "verify", "post", "scan", "ack"}
      /\ j.batch \in SUBSET Deliveries /\ j.cur \in Deliveries \cup {None}
      /\ j.tries \in 0 .. PostTries
      /\ j.at \in Busy => j.cur \in Deliveries
      /\ j.at = "post" => j.tries < PostTries
  BY DEF Job, Sound
<1>2. 0 \in 0 .. PostTries /\ PostTries \in Nat /\ 0 < PostTries
  BY BoundsAssumption
<1>3. \A b \in SUBSET Deliveries :
        LET n == [NoJob EXCEPT !.at = "next", !.batch = b]
        IN  n \in Job /\ Sound(n) /\ n.at = "next" /\ n.batch = b
  BY <1>2 DEF NoJob, Job, Sound, Busy
<1>4. NoJob \in Job /\ Sound(NoJob) /\ NoJob.at = "idle" /\ NoJob.batch = {}
  BY <1>2 DEF NoJob, Job, Sound, Busy
<1>6. \A d \in Deliveries, a \in {"ack", "verify", "post"} :
        LET n == [at |-> a, batch |-> j.batch \ {d}, cur |-> d, tries |-> 0]
        IN  n \in Job /\ Sound(n)
  BY <1>1, <1>2 DEF Job, Sound
<1>7. j.at \in Busy =>
        LET n == [j EXCEPT !.at = "ack"]
        IN  n \in Job /\ Sound(n) /\ n.at = "ack" /\ n.cur = j.cur /\ n.batch = j.batch
  BY <1>1 DEF Job, Sound, Busy
<1>8. j.at \in {"verify", "scan"} /\ j.tries < PostTries =>
        LET n == [j EXCEPT !.at = "post"]
        IN  n \in Job /\ Sound(n) /\ n.at = "post" /\ n.cur = j.cur /\ n.batch = j.batch
  BY <1>1 DEF Job, Sound, Busy
<1>9. ASSUME j.at = "post", j.tries + 1 < PostTries
      PROVE  LET n == [j EXCEPT !.tries = @ + 1]
             IN  n \in Job /\ Sound(n) /\ n.at = "post" /\ n.cur = j.cur /\ n.batch = j.batch
  <2>1. PICK k \in 0 .. PostTries : k = j.tries + 1 /\ k < PostTries
    BY <1>1, <1>2, <1>9
  <2>2. [j EXCEPT !.tries = @ + 1] = [j EXCEPT !.tries = k]
    BY <2>1
  <2>3. QED  BY <1>1, <1>9, <2>1, <2>2 DEF Job, Sound, Busy
<1>10. ASSUME j.at = "post"
       PROVE  LET n == [j EXCEPT !.at = "scan", !.tries = @ + 1]
              IN  n \in Job /\ Sound(n) /\ n.at = "scan" /\ n.cur = j.cur /\ n.batch = j.batch
  <2>1. PICK k \in 0 .. PostTries : k = j.tries + 1
    BY <1>1, <1>2, <1>10
  <2>2. [j EXCEPT !.at = "scan", !.tries = @ + 1] = [j EXCEPT !.at = "scan", !.tries = k]
    BY <2>1
  <2>3. QED  BY <1>1, <1>10, <2>1, <2>2 DEF Job, Sound, Busy
<1>11. QED  BY <1>3, <1>4, <1>6, <1>7, <1>8, <1>9, <1>10

-----------------------------------------------------------------------------
(* Types.  Each group of actions touches some of the variables only.       *)

Tables  == row \in [Deliveries -> Row] /\ shown \in [Deliveries -> SUBSET {"keyed", "bare"}]
Memory  == tracker \in [Pollers -> Tracker] /\ wrote \in [Pollers -> SUBSET Deliveries]
Drains  == job \in [Pollers -> Job] /\ \A p \in Pollers : Sound(job[p])
Handled == /\ live \in [Runs -> Live]
           /\ result \in [Runs -> {"running", "settled", "listened"}]

Typed == Tables /\ Memory /\ Drains /\ Handled /\ faults \in 0 .. MaxFaults

LEMMA InitTyped == Init => Typed
<1>. SUFFICES ASSUME Init PROVE Typed
  OBVIOUS
<1>1. Absent \in Row
  BY DEF Absent, Row
<1>2. NewTracker \in Tracker
  <2>1. <<>> \in Seq(Deliveries)
    OBVIOUS
  <2>2. 0 \in 0 .. MaxAttempts - 1
    BY BoundsAssumption
  <2>3. QED  BY <2>1, <2>2 DEF NewTracker, Tracker
<1>3. NoJob \in Job /\ Sound(NoJob)
  BY BoundsAssumption DEF NoJob, Job, Sound, Busy
<1>4. Tables /\ Memory /\ Drains
  BY <1>1, <1>2, <1>3 DEF Init, Tables, Memory, Drains
<1>5. Handled
  BY DEF Init, Handled, Live
<1>6. faults \in 0 .. MaxFaults
  BY BoundsAssumption DEF Init
<1>7. QED  BY <1>4, <1>5, <1>6 DEF Typed

LEMMA FaultTyped == Typed /\ Fault => faults' \in 0 .. MaxFaults
BY BoundsAssumption DEF Typed, Fault

RowsGrow == \A d \in Deliveries : Grows(row[d], row'[d])

\* One row is written by one of the table's operations.
LEMMA OneRow ==
    ASSUME Typed, NEW d \in Deliveries, NEW r \in Row, Grows(row[d], r),
           row' = [row EXCEPT ![d] = r]
    PROVE  row' \in [Deliveries -> Row] /\ RowsGrow /\ row'[d] = r
           /\ \A e \in Deliveries \ {d} : row'[e] = row[e]
<1>1. row \in [Deliveries -> Row]
  BY DEF Typed, Tables
<1>2. row' \in [Deliveries -> Row] /\ row'[d] = r /\ \A e \in Deliveries \ {d} : row'[e] = row[e]
  BY <1>1
<1>3. RowsGrow
  BY <1>1, <1>2, RowFacts DEF RowsGrow
<1>4. QED  BY <1>2, <1>3

LEMMA SameRows == Typed /\ row' = row => RowsGrow
BY RowFacts DEF Typed, Tables, RowsGrow

\* One handler moves.
LEMMA OneHandler ==
    ASSUME Typed, NEW d \in Runs
    PROVE  /\ \A a \in {"off", "waiting", "post", "done"}, k \in {"no", "trying", "over"} :
                live' = [live EXCEPT ![d].at = a, ![d].ack = k] =>
                  /\ live' \in [Runs -> Live]
                  /\ live'[d].at = a /\ live'[d].ack = k /\ live'[d].on = live[d].on
                  /\ \A e \in Runs \ {d} : live'[e] = live[e]
           /\ \A a \in {"off", "waiting", "post", "done"} :
                live' = [live EXCEPT ![d].at = a] =>
                  /\ live' \in [Runs -> Live]
                  /\ live'[d].at = a /\ live'[d].ack = live[d].ack /\ live'[d].on = live[d].on
                  /\ \A e \in Runs \ {d} : live'[e] = live[e]
           /\ live' = [live EXCEPT ![d].ack = "over"] =>
                  /\ live' \in [Runs -> Live]
                  /\ live'[d].at = live[d].at /\ live'[d].ack = "over" /\ live'[d].on = live[d].on
                  /\ \A e \in Runs \ {d} : live'[e] = live[e]
           /\ \A p \in Pollers :
                live' = [live EXCEPT ![d].at = "waiting", ![d].on = p] =>
                  /\ live' \in [Runs -> Live]
                  /\ live'[d].at = "waiting" /\ live'[d].ack = live[d].ack /\ live'[d].on = p
                  /\ \A e \in Runs \ {d} : live'[e] = live[e]
<1>1. live \in [Runs -> Live]
  BY DEF Typed, Handled
<1>2. live[d] \in Live
  BY <1>1
<1>. DEFINE Moved(l) == live' \in [Runs -> Live] /\ live'[d] = l /\ \A e \in Runs \ {d} : live'[e] = live[e]
<1>3. \A l \in Live : live' = [live EXCEPT ![d] = l] => Moved(l)
  BY <1>1
<1>4. \A a \in {"off", "waiting", "post", "done"}, k \in {"no", "trying", "over"}, o \in Pollers \cup {None} :
        [live[d] EXCEPT !.at = a, !.ack = k] \in Live /\ [live[d] EXCEPT !.at = a, !.on = o] \in Live
        /\ [live[d] EXCEPT !.at = a] \in Live /\ [live[d] EXCEPT !.ack = k] \in Live
  BY <1>2 DEF Live
<1>. HIDE DEF Moved
<1>5. ASSUME NEW a \in {"off", "waiting", "post", "done"}, NEW k \in {"no", "trying", "over"},
             live' = [live EXCEPT ![d].at = a, ![d].ack = k]
      PROVE  Moved([live[d] EXCEPT !.at = a, !.ack = k])
  <2>1. live' = [live EXCEPT ![d] = [live[d] EXCEPT !.at = a, !.ack = k]]
    BY <1>1, <1>2, <1>5 DEF Live
  <2>2. QED  BY <1>3, <1>4, <2>1
<1>6. ASSUME NEW a \in {"off", "waiting", "post", "done"}, live' = [live EXCEPT ![d].at = a]
      PROVE  Moved([live[d] EXCEPT !.at = a])
  <2>1. live' = [live EXCEPT ![d] = [live[d] EXCEPT !.at = a]]
    BY <1>1, <1>2, <1>6 DEF Live
  <2>2. QED  BY <1>3, <1>4, <2>1
<1>7. ASSUME live' = [live EXCEPT ![d].ack = "over"]
      PROVE  Moved([live[d] EXCEPT !.ack = "over"])
  <2>1. live' = [live EXCEPT ![d] = [live[d] EXCEPT !.ack = "over"]]
    BY <1>1, <1>2, <1>7 DEF Live
  <2>2. QED  BY <1>3, <1>4, <2>1
<1>8. ASSUME NEW p \in Pollers, live' = [live EXCEPT ![d].at = "waiting", ![d].on = p]
      PROVE  Moved([live[d] EXCEPT !.at = "waiting", !.on = p])
  <2>1. live' = [live EXCEPT ![d] = [live[d] EXCEPT !.at = "waiting", !.on = p]]
    BY <1>1, <1>2, <1>8 DEF Live
  <2>2. QED  BY <1>3, <1>4, <2>1
<1>9. ASSUME NEW a \in {"off", "waiting", "post", "done"}, NEW k \in {"no", "trying", "over"},
              live' = [live EXCEPT ![d].at = a, ![d].ack = k]
       PROVE  /\ live' \in [Runs -> Live]
              /\ live'[d].at = a /\ live'[d].ack = k /\ live'[d].on = live[d].on
              /\ \A e \in Runs \ {d} : live'[e] = live[e]
  <2>1. live' \in [Runs -> Live] /\ live'[d] = [live[d] EXCEPT !.at = a, !.ack = k] /\ \A e \in Runs \ {d} : live'[e] = live[e]
    BY <1>9, <1>5 DEF Moved
  <2>2. QED  BY <1>2, <2>1 DEF Live
<1>10. ASSUME NEW a \in {"off", "waiting", "post", "done"}, live' = [live EXCEPT ![d].at = a]
       PROVE  /\ live' \in [Runs -> Live]
              /\ live'[d].at = a /\ live'[d].ack = live[d].ack /\ live'[d].on = live[d].on
              /\ \A e \in Runs \ {d} : live'[e] = live[e]
  <2>1. live' \in [Runs -> Live] /\ live'[d] = [live[d] EXCEPT !.at = a] /\ \A e \in Runs \ {d} : live'[e] = live[e]
    BY <1>10, <1>6 DEF Moved
  <2>2. QED  BY <1>2, <2>1 DEF Live
<1>11. ASSUME live' = [live EXCEPT ![d].ack = "over"]
       PROVE  /\ live' \in [Runs -> Live]
              /\ live'[d].at = live[d].at /\ live'[d].ack = "over" /\ live'[d].on = live[d].on
              /\ \A e \in Runs \ {d} : live'[e] = live[e]
  <2>1. live' \in [Runs -> Live] /\ live'[d] = [live[d] EXCEPT !.ack = "over"] /\ \A e \in Runs \ {d} : live'[e] = live[e]
    BY <1>11, <1>7 DEF Moved
  <2>2. QED  BY <1>2, <2>1 DEF Live
<1>12. ASSUME NEW p \in Pollers, live' = [live EXCEPT ![d].at = "waiting", ![d].on = p]
       PROVE  /\ live' \in [Runs -> Live]
              /\ live'[d].at = "waiting" /\ live'[d].ack = live[d].ack /\ live'[d].on = p
              /\ \A e \in Runs \ {d} : live'[e] = live[e]
  <2>1. live' \in [Runs -> Live] /\ live'[d] = [live[d] EXCEPT !.at = "waiting", !.on = p] /\ \A e \in Runs \ {d} : live'[e] = live[e]
    BY <1>12, <1>8 DEF Moved
  <2>2. QED  BY <1>2, <2>1 DEF Live
<1>13. QED  BY <1>9, <1>10, <1>11, <1>12

\* One drain moves on.
LEMMA OneDrain ==
    ASSUME Typed, NEW p \in Pollers, NEW j \in Job, Sound(j), job' = [job EXCEPT ![p] = j]
    PROVE  Drains' /\ job'[p] = j /\ \A q \in Pollers \ {p} : job'[q] = job[q]
<1>1. job \in [Pollers -> Job] /\ \A q \in Pollers : Sound(job[q])
  BY DEF Typed, Drains
<1>2. job' \in [Pollers -> Job] /\ job'[p] = j /\ \A q \in Pollers \ {p} : job'[q] = job[q]
  BY <1>1
<1>3. \A q \in Pollers : Sound(job'[q])
  BY <1>1, <1>2
<1>4. QED  BY <1>2, <1>3 DEF Drains

\* One tracker is written by one of its operations.
LEMMA OneTracker ==
    ASSUME Typed, NEW p \in Pollers, NEW t \in Tracker, tracker' = [tracker EXCEPT ![p] = t]
    PROVE  /\ tracker' \in [Pollers -> Tracker]
           /\ tracker'[p] = t /\ \A q \in Pollers \ {p} : tracker'[q] = tracker[q]
BY DEF Typed, Memory

\* post() has returned: the tracker, the history and the job of one process.
LEMMA PostedFacts ==
    ASSUME Typed, NEW p \in Pollers, job[p].at \in Busy, Posted(p)
    PROVE  /\ Memory' /\ Drains' /\ job[p].cur \in Deliveries
           /\ tracker'[p] = MarkPosted(tracker[p], job[p].cur)
           /\ wrote'[p] = wrote[p] \cup {job[p].cur}
           /\ job'[p].at = "ack" /\ job'[p].cur = job[p].cur /\ job'[p].batch = job[p].batch
           /\ \A q \in Pollers \ {p} :
                job'[q] = job[q] /\ tracker'[q] = tracker[q] /\ wrote'[q] = wrote[q]
<1>1. job[p] \in Job /\ Sound(job[p]) /\ tracker[p] \in Tracker
      /\ wrote \in [Pollers -> SUBSET Deliveries]
  BY DEF Typed, Drains, Memory
<1>2. PICK d \in Deliveries : d = job[p].cur
  BY <1>1 DEF Sound
<1>3. PICK j \in Job : j = [job[p] EXCEPT !.at = "ack"] /\ Sound(j)
                       /\ j.at = "ack" /\ j.cur = d /\ j.batch = job[p].batch
  <2>. DEFINE n == [job[p] EXCEPT !.at = "ack"]
  <2>1. n \in Job /\ Sound(n) /\ n.at = "ack" /\ n.cur = job[p].cur /\ n.batch = job[p].batch
    BY <1>1, JobFacts
  <2>. HIDE DEF n
  <2>2. n.cur = d
    BY <1>2, <2>1
  <2>3. QED  BY <2>1, <2>2 DEF n
<1>4. job' = [job EXCEPT ![p] = j]
  BY <1>3 DEF Posted, Typed, Drains
<1>5. Drains' /\ job'[p] = j /\ \A q \in Pollers \ {p} : job'[q] = job[q]
  BY <1>3, <1>4, OneDrain
<1>6. PICK t \in Tracker : t = MarkPosted(tracker[p], d)
  BY <1>1, MarkPostedFacts
<1>7. tracker' = [tracker EXCEPT ![p] = t]
  BY <1>2, <1>6 DEF Posted, Typed, Memory
<1>8. /\ tracker' \in [Pollers -> Tracker] /\ tracker'[p] = t
      /\ \A q \in Pollers \ {p} : tracker'[q] = tracker[q]
  BY <1>7, OneTracker
<1>9. wrote' = [wrote EXCEPT ![p] = wrote[p] \cup {d}]
  BY <1>2 DEF Posted
<1>10. /\ wrote' \in [Pollers -> SUBSET Deliveries] /\ wrote'[p] = wrote[p] \cup {d}
       /\ \A q \in Pollers \ {p} : wrote'[q] = wrote[q]
  BY <1>1, <1>9
<1>11. QED  BY <1>2, <1>3, <1>5, <1>6, <1>8, <1>10 DEF Memory

\* post() or ack() has thrown.
LEMMA FailedFacts ==
    ASSUME Typed, NEW p \in Pollers, job[p].at \in Busy, Failed(p)
    PROVE  /\ tracker' \in [Pollers -> Tracker] /\ Drains' /\ job[p].cur \in Deliveries
           /\ tracker'[p] = RecordFailure(tracker[p], job[p].cur)
           /\ job'[p].at = "next" /\ job'[p].batch = job[p].batch
           /\ \A q \in Pollers \ {p} : job'[q] = job[q] /\ tracker'[q] = tracker[q]
<1>1. job[p] \in Job /\ Sound(job[p]) /\ tracker[p] \in Tracker
  BY DEF Typed, Drains, Memory
<1>2. PICK d \in Deliveries : d = job[p].cur
  BY <1>1 DEF Sound
<1>3. job[p].batch \in SUBSET Deliveries
  BY <1>1 DEF Job
<1>4. PICK j \in Job : j = [NoJob EXCEPT !.at = "next", !.batch = job[p].batch] /\ Sound(j)
                       /\ j.at = "next" /\ j.batch = job[p].batch
  <2>. DEFINE n(b) == [NoJob EXCEPT !.at = "next", !.batch = b]
  <2>1. \A b \in SUBSET Deliveries : n(b) \in Job /\ Sound(n(b)) /\ n(b).at = "next" /\ n(b).batch = b
    BY <1>1, JobFacts
  <2>. HIDE DEF n
  <2>2. QED  BY <1>3, <2>1 DEF n
<1>5. job' = [job EXCEPT ![p] = j]
  BY <1>4 DEF Failed
<1>6. Drains' /\ job'[p] = j /\ \A q \in Pollers \ {p} : job'[q] = job[q]
  BY <1>4, <1>5, OneDrain
<1>7. PICK t \in Tracker : t = RecordFailure(tracker[p], d)
  BY <1>1, RecordFailureFacts
<1>8. tracker' = [tracker EXCEPT ![p] = t]
  BY <1>2, <1>7 DEF Failed, Typed, Memory
<1>9. /\ tracker' \in [Pollers -> Tracker] /\ tracker'[p] = t
      /\ \A q \in Pollers \ {p} : tracker'[q] = tracker[q]
  BY <1>8, OneTracker
<1>10. QED  BY <1>2, <1>4, <1>6, <1>7, <1>9

\* The drain goes on with the same delivery.
LEMMA OnwardFacts ==
    ASSUME Typed, NEW p \in Pollers, NEW j \in Job, Sound(j), job' = [job EXCEPT ![p] = j],
           j.cur = job[p].cur, j.batch = job[p].batch
    PROVE  /\ Drains' /\ job'[p].at = j.at /\ job'[p].cur = job[p].cur
           /\ job'[p].batch = job[p].batch
           /\ \A q \in Pollers \ {p} : job'[q] = job[q]
BY OneDrain

\* What the table keeps whoever writes it, and what the others leave alone.
RowActs(d) ==
    \/ d \in Notices /\ Enqueue(d)
    \/ d \in Runs /\ (RunEnds(d) \/ Listen(d) \/ ListenFails(d))
    \/ ClaimLapses(d) \/ GraceEnds(d)

LEMMA RowActFacts ==
    ASSUME Typed, NEW d \in Deliveries, RowActs(d)
    PROVE  /\ Typed' /\ RowsGrow
           /\ UNCHANGED <<tracker, job, live, shown, wrote>>
           /\ \A e \in Deliveries : row'[e].st = "delivered" => row[e].st = "delivered"
<1>1. row[d] \in Row /\ Runs \subseteq Deliveries
  BY DEF Typed, Tables, Deliveries
<1>2. Typed
  OBVIOUS
<1>. DEFINE Same == UNCHANGED <<tracker, job, live, shown, wrote>>
            Kept == \A e \in Deliveries : row'[e].st = "delivered" => row[e].st = "delivered"
<1>3. ASSUME row' \in [Deliveries -> Row], Same, result' \in [Runs -> {"running", "settled", "listened"}],
             faults' \in 0 .. MaxFaults
      PROVE  Typed'
  BY <1>3 DEF Typed, Tables, Memory, Drains, Handled
<1>4. ASSUME row' = row PROVE row' \in [Deliveries -> Row] /\ RowsGrow /\ Kept
  BY <1>4, SameRows DEF Typed, Tables
<1>5. ASSUME row' = [row EXCEPT ![d] = EnqueueRow(@)]
      PROVE  row' \in [Deliveries -> Row] /\ RowsGrow /\ Kept
  <2>1. PICK r \in Row : r = EnqueueRow(row[d]) /\ Grows(row[d], r)
    BY <1>1, RowFacts
  <2>2. row' = [row EXCEPT ![d] = r]
    BY <1>5, <2>1
  <2>3. r.st = "delivered" => row[d].st = "delivered"
    BY <2>1 DEF EnqueueRow
  <2>4. /\ row' \in [Deliveries -> Row] /\ RowsGrow /\ row'[d] = r
        /\ \A e \in Deliveries \ {d} : row'[e] = row[e]
    BY <1>2, <2>1, <2>2, OneRow
  <2>5. QED  BY <2>3, <2>4
<1>6. ASSUME NEW x \in Row, Grows(row[d], x), x.st = row[d].st, row' = [row EXCEPT ![d] = x]
      PROVE  row' \in [Deliveries -> Row] /\ RowsGrow /\ Kept
  <2>1. /\ row' \in [Deliveries -> Row] /\ RowsGrow /\ row'[d] = x
        /\ \A e \in Deliveries \ {d} : row'[e] = row[e]
    BY <1>2, <1>6, OneRow
  <2>2. QED  BY <1>6, <2>1
<1>7. ASSUME NEW x, result' = [result EXCEPT ![d] = x], x \in {"running", "settled", "listened"}
      PROVE  result' \in [Runs -> {"running", "settled", "listened"}]
  BY <1>7 DEF Typed, Handled
<1>8. /\ result' = result => result' \in [Runs -> {"running", "settled", "listened"}]
      /\ faults' = faults => faults' \in 0 .. MaxFaults
  BY DEF Typed, Handled
<1>. HIDE DEF Kept
<1>9. CASE d \in Notices /\ Enqueue(d)
  <2>1. row' = [row EXCEPT ![d] = EnqueueRow(@)] /\ Same /\ result' = result /\ faults' = faults
    BY <1>9 DEF Enqueue
  <2>2. QED  BY <1>3, <1>5, <1>8, <2>1 DEF Kept
<1>10. CASE RunEnds(d)
  <2>1. row' = row /\ Same /\ result' = [result EXCEPT ![d] = "settled"] /\ faults' = faults
    BY <1>10 DEF RunEnds
  <2>2. QED  BY <1>3, <1>4, <1>7, <1>8, <2>1 DEF Kept
<1>11. CASE Listen(d)
  <2>1. /\ row' = [row EXCEPT ![d] = EnqueueRow(@)] /\ Same
        /\ result' = [result EXCEPT ![d] = "listened"] /\ faults' = faults
    BY <1>11 DEF Listen
  <2>2. QED  BY <1>3, <1>5, <1>7, <1>8, <2>1 DEF Kept
<1>12. CASE ListenFails(d)
  <2>1. row' = row /\ Same /\ result' = [result EXCEPT ![d] = "listened"] /\ Fault
    BY <1>12 DEF ListenFails
  <2>2. QED  BY <1>3, <1>4, <1>7, <2>1, FaultTyped DEF Kept
<1>13. CASE ClaimLapses(d)
  <2>1. PICK x \in Row : x = [row[d] EXCEPT !.claimed = FALSE] /\ Grows(row[d], x) /\ x.st = row[d].st
    <3>1. [row[d] EXCEPT !.claimed = FALSE] \in Row /\ Grows(row[d], [row[d] EXCEPT !.claimed = FALSE])
      BY <1>1, RowFacts
    <3>2. [row[d] EXCEPT !.claimed = FALSE].st = row[d].st
      BY <1>1 DEF Row
    <3>3. QED  BY <3>1, <3>2
  <2>2. /\ row' = [row EXCEPT ![d] = x] /\ Same /\ result' = result /\ faults' = faults
    BY <1>13, <2>1 DEF ClaimLapses, Typed, Tables
  <2>3. QED  BY <1>3, <1>6, <1>8, <2>1, <2>2 DEF Kept
<1>14. CASE GraceEnds(d)
  <2>1. PICK x \in Row : x = [row[d] EXCEPT !.fresh = FALSE] /\ Grows(row[d], x) /\ x.st = row[d].st
    <3>1. [row[d] EXCEPT !.fresh = FALSE] \in Row /\ Grows(row[d], [row[d] EXCEPT !.fresh = FALSE])
      BY <1>1, RowFacts
    <3>2. [row[d] EXCEPT !.fresh = FALSE].st = row[d].st
      BY <1>1 DEF Row
    <3>3. QED  BY <3>1, <3>2
  <2>2. /\ row' = [row EXCEPT ![d] = x] /\ Same /\ result' = result /\ faults' = faults
    BY <1>14, <2>1 DEF GraceEnds, Typed, Tables
  <2>3. QED  BY <1>3, <1>6, <1>8, <2>1, <2>2 DEF Kept
<1>15. QED  BY <1>9, <1>10, <1>11, <1>12, <1>13, <1>14 DEF RowActs, Kept

\* The handler of a run.
LiveActs(d) ==
    \/ LiveWaits(d) \/ LiveLetsGo(d) \/ LivePostFails(d) \/ AckByKeyGivesUp(d) \/ LiveSteps(d)

\* Handler state l keeps the drain of p away from d (Pinned, of one handler).
Pins(l, p, d) == /\ l.on = p
                 /\ l.at = "waiting" \/ l.ack = "trying" \/ (l.at = "post" /\ d \in Refusals)

LEMMA LiveActFacts ==
    ASSUME Typed, NEW d \in Runs, LiveActs(d)
    PROVE  /\ Typed' /\ RowsGrow
           /\ UNCHANGED <<tracker, job, wrote>>
           /\ \A e \in Runs \ {d} : live'[e] = live[e]
           /\ \A e \in Deliveries \ {d} : row'[e] = row[e]
           /\ \A e \in Deliveries : shown[e] # {} => shown'[e] # {}
           /\ \A p \in Pollers : Pins(live'[d], p, d) =>
                Pins(live[d], p, d) \/ row[d].st = "none" \/ row[d].fresh
           /\ d \in Refusals /\ live'[d].ack = "trying" => live[d].ack = "trying" \/ shown'[d] # {}
           /\ row'[d].st = "delivered" => row[d].st = "delivered" \/ live[d].ack = "trying"
<1>1. row[d] \in Row /\ d \in Deliveries /\ live[d] \in Live
  BY DEF Typed, Tables, Handled, Deliveries
<1>2. Typed /\ d \in Runs
  OBVIOUS
<1>. DEFINE Same == UNCHANGED <<tracker, job, wrote, result>>
            Others == \A e \in Runs \ {d} : live'[e] = live[e]
            Rows == \A e \in Deliveries \ {d} : row'[e] = row[e]
            Seen == \A e \in Deliveries : shown[e] # {} => shown'[e] # {}
            PinsOld == \A p \in Pollers : Pins(live'[d], p, d) =>
                         Pins(live[d], p, d) \/ row[d].st = "none" \/ row[d].fresh
            Tries == d \in Refusals /\ live'[d].ack = "trying" =>
                       live[d].ack = "trying" \/ shown'[d] # {}
            Delivers == row'[d].st = "delivered" => row[d].st = "delivered" \/ live[d].ack = "trying"
<1>3. ASSUME row' \in [Deliveries -> Row], Same, live' \in [Runs -> Live],
             shown' \in [Deliveries -> SUBSET {"keyed", "bare"}], faults' \in 0 .. MaxFaults
      PROVE  Typed'
  BY <1>3 DEF Typed, Tables, Memory, Drains, Handled
<1>4. ASSUME row' = row PROVE row' \in [Deliveries -> Row] /\ RowsGrow /\ Rows /\ Delivers
  BY <1>4, SameRows DEF Typed, Tables
<1>5. ASSUME shown' = shown PROVE shown' \in [Deliveries -> SUBSET {"keyed", "bare"}] /\ Seen
  BY <1>5 DEF Typed, Tables
<1>6. faults' = faults \/ Fault => faults' \in 0 .. MaxFaults
  BY FaultTyped DEF Typed
<1>. HIDE DEF Rows, Seen, Others
<1>7. CASE LiveWaits(d)
  <2>1. PICK p \in Pollers : live' = [live EXCEPT ![d].at = "waiting", ![d].on = p]
    BY <1>7 DEF LiveWaits
  <2>2. row' = row /\ Same /\ shown' = shown /\ faults' = faults /\ (row[d].st = "none" \/ row[d].fresh)
    BY <1>7 DEF LiveWaits
  <2>3. live' \in [Runs -> Live] /\ live'[d].ack = live[d].ack /\ Others
    BY <2>1, <1>2, OneHandler DEF Others
  <2>4. PinsOld /\ Tries
    BY <2>2, <2>3
  <2>5. QED  BY <1>3, <1>4, <1>5, <1>6, <2>2, <2>3, <2>4 DEF Rows, Seen, Others
<1>8. CASE LiveLetsGo(d)
  <2>1. live' = [live EXCEPT ![d].at = "done"] /\ live[d].at = "waiting"
    BY <1>8 DEF LiveLetsGo
  <2>2. row' = row /\ Same /\ shown' = shown /\ faults' = faults
    BY <1>8 DEF LiveLetsGo
  <2>3. /\ live' \in [Runs -> Live] /\ Others
        /\ live'[d].at = "done" /\ live'[d].ack = live[d].ack /\ live'[d].on = live[d].on
    BY <2>1, <1>2, OneHandler DEF Others
  <2>4. PinsOld /\ Tries
    BY <2>1, <2>3 DEF Pins
  <2>5. QED  BY <1>3, <1>4, <1>5, <1>6, <2>2, <2>3, <2>4 DEF Rows, Seen, Others
<1>9. CASE LivePostFails(d)
  <2>1. live[d].at = "post" /\ row' = row /\ Same /\ shown' = shown /\ Fault
    BY <1>9 DEF LivePostFails
  <2>2. PICK k \in {"no", "trying", "over"} :
          k = (IF d \in Refusals THEN "over" ELSE live[d].ack)
          /\ live' = [live EXCEPT ![d].at = "done", ![d].ack = k]
    BY <1>1, <1>9 DEF LivePostFails, Live, Typed, Handled
  <2>3. /\ live' \in [Runs -> Live] /\ Others
        /\ live'[d].at = "done" /\ live'[d].ack = k /\ live'[d].on = live[d].on
    <3>1. live' = [live EXCEPT ![d].at = "done", ![d].ack = k]
      BY <2>2
    <3>2. /\ live' \in [Runs -> Live]
          /\ live'[d].at = "done" /\ live'[d].ack = k /\ live'[d].on = live[d].on
          /\ \A e \in Runs \ {d} : live'[e] = live[e]
      BY <1>2, <3>1, OneHandler
    <3>3. QED  BY <3>2 DEF Others
  <2>4. PinsOld /\ Tries
    BY <2>1, <2>2, <2>3 DEF Pins
  <2>5. QED  BY <1>3, <1>4, <1>5, <1>6, <2>1, <2>3, <2>4 DEF Rows, Seen, Others
<1>10. CASE AckByKeyGivesUp(d)
  <2>1. live' = [live EXCEPT ![d].ack = "over"] /\ live[d].ack = "trying"
    BY <1>10 DEF AckByKeyGivesUp
  <2>2. row' = row /\ Same /\ shown' = shown /\ Fault
    BY <1>10 DEF AckByKeyGivesUp
  <2>3. /\ live' \in [Runs -> Live] /\ Others
        /\ live'[d].at = live[d].at /\ live'[d].ack = "over" /\ live'[d].on = live[d].on
    BY <2>1, <1>2, OneHandler DEF Others
  <2>4. PinsOld /\ Tries
    BY <2>1, <2>3 DEF Pins
  <2>5. QED  BY <1>3, <1>4, <1>5, <1>6, <2>2, <2>3, <2>4 DEF Rows, Seen, Others
<1>11. CASE LiveAnswered(d)
  <2>1. live[d].at = "waiting" /\ row' = row /\ Same /\ shown' = shown /\ faults' = faults
    BY <1>11 DEF LiveAnswered
  <2>2. PICK k \in {"no", "trying", "over"} :
          k = StartsAck(d) /\ live' = [live EXCEPT ![d].at = "post", ![d].ack = k]
    BY <1>11 DEF LiveAnswered, StartsAck
  <2>3. /\ live' \in [Runs -> Live] /\ Others
        /\ live'[d].at = "post" /\ live'[d].ack = k /\ live'[d].on = live[d].on
    BY <2>2, <1>2, OneHandler DEF Others
  <2>4. d \in Refusals => k = "no"
    BY <2>2, DeliveriesAssumption DEF StartsAck
  <2>5. PinsOld /\ Tries
    BY <2>1, <2>3, <2>4 DEF Pins
  <2>6. QED  BY <1>3, <1>4, <1>5, <1>6, <2>1, <2>3, <2>5 DEF Rows, Seen, Others
<1>12. CASE LivePosts(d)
  <2>1. live[d].at = "post" /\ row' = row /\ Same /\ faults' = faults
    BY <1>12 DEF LivePosts
  <2>2. PICK x \in {"keyed", "bare"} : shown' = [shown EXCEPT ![d] = shown[d] \cup {x}]
    BY <1>1, <1>12 DEF LivePosts, Typed, Tables
  <2>3. shown' \in [Deliveries -> SUBSET {"keyed", "bare"}] /\ shown'[d] # {} /\ Seen
    BY <1>1, <2>2 DEF Typed, Tables, Seen
  <2>4. PICK k \in {"no", "trying", "over"} :
          k = (IF d \in Refusals THEN "trying" ELSE live[d].ack)
          /\ live' = [live EXCEPT ![d].at = "done", ![d].ack = k]
    BY <1>1, <1>12 DEF LivePosts, Live, Typed, Handled
  <2>5. /\ live' \in [Runs -> Live] /\ Others
        /\ live'[d].at = "done" /\ live'[d].ack = k /\ live'[d].on = live[d].on
    <3>1. live' = [live EXCEPT ![d].at = "done", ![d].ack = k]
      BY <2>4
    <3>2. /\ live' \in [Runs -> Live]
          /\ live'[d].at = "done" /\ live'[d].ack = k /\ live'[d].on = live[d].on
          /\ \A e \in Runs \ {d} : live'[e] = live[e]
      BY <1>2, <3>1, OneHandler
    <3>3. QED  BY <3>2 DEF Others
  <2>6. PinsOld /\ Tries
    BY <2>1, <2>3, <2>4, <2>5 DEF Pins
  <2>7. QED  BY <1>3, <1>4, <1>6, <2>1, <2>3, <2>5, <2>6 DEF Rows, Seen, Others
<1>13. CASE AckByKey(d)
  <2>1. live' = [live EXCEPT ![d].ack = "over"] /\ live[d].ack = "trying"
    BY <1>13 DEF AckByKey
  <2>2. Same /\ shown' = shown /\ faults' = faults
    BY <1>13 DEF AckByKey
  <2>3. /\ live' \in [Runs -> Live] /\ Others
        /\ live'[d].at = live[d].at /\ live'[d].ack = "over" /\ live'[d].on = live[d].on
    BY <2>1, <1>2, OneHandler DEF Others
  <2>4. PinsOld /\ Tries
    BY <2>1, <2>3 DEF Pins
  <2>5. PICK r \in Row : r = AckKeyRow(row[d]) /\ Grows(row[d], r)
    BY <1>1, RowFacts
  <2>6. row' = [row EXCEPT ![d] = r]
    BY <1>13, <2>5 DEF AckByKey
  <2>7. row' \in [Deliveries -> Row] /\ RowsGrow /\ Rows
    BY <1>1, <1>2, <2>5, <2>6, OneRow DEF Rows
  <2>8. QED  BY <1>3, <1>5, <1>6, <2>1, <2>2, <2>3, <2>4, <2>7 DEF Rows, Seen, Others
<1>14. QED
  BY <1>7, <1>8, <1>9, <1>10, <1>11, <1>12, <1>13 DEF LiveActs, LiveSteps

-----------------------------------------------------------------------------
(* The drain of a process, described by what its steps do to each thing    *)
(* the invariants speak of.                                                *)

Tries(j, e) == j.cur = e /\ j.at \in {"verify", "post", "scan"}

\* The drain takes deliveries from its batch, and batches from the table.
JobStep(p) ==
    /\ job'[p].batch \subseteq job[p].batch \cup Claimable
    /\ job'[p].at \in Busy => \/ job[p].at \in Busy /\ job'[p].cur = job[p].cur
                              \/ job'[p].cur \in job[p].batch

\* It sets out to post only what it does not pass over and has not posted.
TryStep(p) ==
    \A e \in Deliveries : Tries(job'[p], e) =>
        /\ wrote'[p] = wrote[p]
        /\ \/ Tries(job[p], e)
           \/ e \in job[p].batch /\ ~PassesOver(p, e) /\ ~Contains(tracker[p].posted, e)

\* It acknowledges, and remembers as posted, what shows in Slack.
AckStep(p) ==
    job'[p].at = "ack" =>
        shown'[job'[p].cur] # {} \/ Contains(tracker[p].posted, job'[p].cur)
PostedStep(p) ==
    \A e \in Deliveries : Contains(tracker'[p].posted, e) =>
        Contains(tracker[p].posted, e) \/ shown'[e] # {}

\* What it wrote it knows of, until the row is no longer waiting.
WroteStep(p) ==
    \A e \in Deliveries : e \in wrote'[p] =>
        e \in wrote[p] \/ (job[p].at \in Busy /\ e = job[p].cur)
KnowStep(p) ==
    Len(tracker[p].dead) < MaxTracked =>
        \A e \in Deliveries : e \in wrote'[p] /\ row'[e].st = "pending" =>
            Knows(tracker'[p], e) \/ (e \in wrote[p] /\ ~Knows(tracker[p], e))

\* Every other process is left alone.
AloneStep(p) ==
    \A q \in Pollers \ {p} : job'[q] = job[q] /\ tracker'[q] = tracker[q] /\ wrote'[q] = wrote[q]

OwnStep(p) == /\ JobStep(p) /\ TryStep(p) /\ AckStep(p) /\ PostedStep(p)
              /\ WroteStep(p) /\ KnowStep(p) /\ AloneStep(p)

LEMMA FailedStep ==
    ASSUME Typed, NEW p \in Pollers, job[p].at \in Busy, Failed(p), wrote' = wrote
    PROVE  OwnStep(p) /\ Memory' /\ Drains'
<1>1. /\ tracker' \in [Pollers -> Tracker] /\ Drains' /\ job[p].cur \in Deliveries
      /\ tracker'[p] = RecordFailure(tracker[p], job[p].cur)
      /\ job'[p].at = "next" /\ job'[p].batch = job[p].batch
      /\ \A q \in Pollers \ {p} : job'[q] = job[q] /\ tracker'[q] = tracker[q]
  BY FailedFacts
<1>2. tracker[p] \in Tracker /\ wrote' \in [Pollers -> SUBSET Deliveries]
  BY DEF Typed, Memory
<1>3. /\ \A e : Contains(tracker'[p].posted, e) => Contains(tracker[p].posted, e)
      /\ \A e : Len(tracker[p].dead) < MaxTracked /\ Knows(tracker[p], e) => Knows(tracker'[p], e)
  BY <1>1, <1>2, RecordFailureFacts
<1>4. JobStep(p) /\ TryStep(p) /\ AckStep(p)
  BY <1>1 DEF JobStep, TryStep, AckStep, Busy, Tries
<1>5. PostedStep(p) /\ WroteStep(p) /\ KnowStep(p) /\ AloneStep(p)
  <2>1. PostedStep(p)
    BY <1>1, <1>3 DEF PostedStep
  <2>2. WroteStep(p)
    BY <1>1, <1>3 DEF WroteStep
  <2>3. KnowStep(p)
    BY <1>1, <1>3 DEF KnowStep
  <2>4. AloneStep(p)
    BY <1>1, <1>3 DEF AloneStep
  <2>5. QED  BY <2>1, <2>2, <2>3, <2>4
<1>6. QED  BY <1>1, <1>2, <1>4, <1>5 DEF OwnStep, Memory

LEMMA PostedStepped ==
    ASSUME Typed, NEW p \in Pollers, job[p].at \in Busy, Posted(p), shown'[job[p].cur] # {}
    PROVE  OwnStep(p) /\ Memory' /\ Drains'
<1>1. /\ Memory' /\ Drains' /\ job[p].cur \in Deliveries
      /\ tracker'[p] = MarkPosted(tracker[p], job[p].cur)
      /\ wrote'[p] = wrote[p] \cup {job[p].cur}
      /\ job'[p].at = "ack" /\ job'[p].cur = job[p].cur /\ job'[p].batch = job[p].batch
      /\ \A q \in Pollers \ {p} :
           job'[q] = job[q] /\ tracker'[q] = tracker[q] /\ wrote'[q] = wrote[q]
  BY PostedFacts
<1>2. tracker[p] \in Tracker
  BY DEF Typed, Memory
<1>3. /\ \A e : Contains(tracker'[p].posted, e) => e = job[p].cur \/ Contains(tracker[p].posted, e)
      /\ \A e : Len(tracker[p].dead) < MaxTracked /\ (e = job[p].cur \/ Knows(tracker[p], e)) =>
           Knows(tracker'[p], e)
  BY <1>1, <1>2, MarkPostedFacts, ZenonT(60)
<1>4. JobStep(p) /\ TryStep(p) /\ AckStep(p)
  BY <1>1 DEF JobStep, TryStep, AckStep, Busy, Tries
<1>5. PostedStep(p) /\ WroteStep(p) /\ KnowStep(p) /\ AloneStep(p)
  <2>1. PostedStep(p)
    BY <1>1, <1>3 DEF PostedStep
  <2>2. WroteStep(p)
    BY <1>1, <1>3 DEF WroteStep
  <2>3. KnowStep(p)
    BY <1>1, <1>3 DEF KnowStep
  <2>4. AloneStep(p)
    BY <1>1, <1>3 DEF AloneStep
  <2>5. QED  BY <2>1, <2>2, <2>3, <2>4
<1>6. QED  BY <1>1, <1>4, <1>5 DEF OwnStep

LEMMA OnwardStep ==
    ASSUME Typed, NEW p \in Pollers, NEW j \in Job, Sound(j), job' = [job EXCEPT ![p] = j],
           j.cur = job[p].cur, j.batch = job[p].batch,
           job[p].at \in {"verify", "post", "scan"}, j.at \in {"verify", "post", "scan"},
           tracker' = tracker, wrote' = wrote
    PROVE  OwnStep(p) /\ Memory' /\ Drains'
<1>1. /\ Drains' /\ job'[p].at = j.at /\ job'[p].cur = job[p].cur
      /\ job'[p].batch = job[p].batch
      /\ \A q \in Pollers \ {p} : job'[q] = job[q]
  BY OnwardFacts
<1>2. Memory'
  BY DEF Typed, Memory
<1>3. JobStep(p) /\ TryStep(p) /\ AckStep(p)
  BY <1>1 DEF JobStep, TryStep, AckStep, Busy, Tries
<1>4. PostedStep(p) /\ WroteStep(p) /\ KnowStep(p) /\ AloneStep(p)
  <2>1. PostedStep(p)
    BY <1>1 DEF PostedStep
  <2>2. WroteStep(p)
    BY <1>1 DEF WroteStep
  <2>3. KnowStep(p)
    BY <1>1 DEF KnowStep
  <2>4. AloneStep(p)
    BY <1>1 DEF AloneStep
  <2>5. QED  BY <2>1, <2>2, <2>3, <2>4
<1>5. QED  BY <1>1, <1>2, <1>3, <1>4 DEF OwnStep

\* A step between deliveries: the memory of the process stays.
LEMMA BetweenStep ==
    ASSUME Typed, NEW p \in Pollers, NEW j \in Job, Sound(j), job' = [job EXCEPT ![p] = j],
           j.at \notin Busy, j.batch \subseteq job[p].batch \cup Claimable,
           tracker' = tracker, wrote' = wrote
    PROVE  OwnStep(p) /\ Memory' /\ Drains'
<1>1. Drains' /\ job'[p] = j /\ \A q \in Pollers \ {p} : job'[q] = job[q]
  BY OneDrain
<1>2. Memory'
  BY DEF Typed, Memory
<1>3. JobStep(p) /\ TryStep(p) /\ AckStep(p)
  BY <1>1 DEF JobStep, TryStep, AckStep, Busy, Tries
<1>4. PostedStep(p) /\ WroteStep(p) /\ KnowStep(p) /\ AloneStep(p)
  <2>1. PostedStep(p)
    BY <1>1 DEF PostedStep
  <2>2. WroteStep(p)
    BY <1>1 DEF WroteStep
  <2>3. KnowStep(p)
    BY <1>1 DEF KnowStep
  <2>4. AloneStep(p)
    BY <1>1 DEF AloneStep
  <2>5. QED  BY <2>1, <2>2, <2>3, <2>4
<1>5. QED  BY <1>1, <1>2, <1>3, <1>4 DEF OwnStep

DrainActs(p) ==
    \/ DrainSteps(p) \/ Crash(p)
    \/ ScanFails(p) \/ PostRefused(p) \/ PostLimited(p) \/ PostUnclear(p) \/ AckFails(p)

\* A drain marks delivered what it acknowledges, and never hides a message.
RowStep(p) ==
    \A e \in Deliveries : row'[e].st = "delivered" =>
        row[e].st = "delivered" \/ (job[p].at = "ack" /\ e = job[p].cur)
SeenStep == \A e \in Deliveries : shown[e] # {} => shown'[e] # {}

\* It starts no handler; a crash ends those of its process.
LiveStep ==
    \A d \in Runs : /\ \A q \in Pollers : Pins(live'[d], q, d) => Pins(live[d], q, d)
                    /\ live'[d].ack = "trying" => live[d].ack = "trying"

TableStep(p) == RowsGrow /\ RowStep(p) /\ SeenStep /\ Tables'

LEMMA SameTables ==
    ASSUME Typed, NEW p \in Pollers, row' = row, shown' = shown
    PROVE  TableStep(p)
<1>1. RowsGrow
  BY SameRows
<1>2. RowStep(p) /\ SeenStep /\ Tables'
  BY DEF RowStep, SeenStep, Typed, Tables
<1>3. QED  BY <1>1, <1>2 DEF TableStep

LEMMA ShownMore ==
    ASSUME Typed, NEW p \in Pollers, row' = row, job[p].cur \in Deliveries,
           shown' = [shown EXCEPT ![job[p].cur] = @ \cup {"keyed"}]
    PROVE  TableStep(p) /\ shown'[job[p].cur] # {}
<1>1. RowsGrow
  BY SameRows
<1>2. PICK d \in Deliveries : d = job[p].cur
  OBVIOUS
<1>3. shown' = [shown EXCEPT ![d] = shown[d] \cup {"keyed"}]
  BY <1>2
<1>4. shown \in [Deliveries -> SUBSET {"keyed", "bare"}]
  BY DEF Typed, Tables
<1>5. shown' \in [Deliveries -> SUBSET {"keyed", "bare"}] /\ shown'[d] # {} /\ SeenStep
  BY <1>3, <1>4 DEF SeenStep
<1>6. RowStep(p) /\ Tables'
  BY <1>5 DEF RowStep, Typed, Tables
<1>7. QED  BY <1>1, <1>2, <1>5, <1>6 DEF TableStep

LEMMA AckedRow ==
    ASSUME Typed, NEW p \in Pollers, job[p].at = "ack", job[p].cur \in Deliveries,
           row' = [row EXCEPT ![job[p].cur] = AckRow(@)], shown' = shown
    PROVE  TableStep(p) /\ row'[job[p].cur].st # "pending"
<1>1. PICK d \in Deliveries : d = job[p].cur
  OBVIOUS
<1>2. row[d] \in Row
  BY DEF Typed, Tables
<1>3. PICK r \in Row : r = AckRow(row[d]) /\ Grows(row[d], r) /\ r.st # "pending"
  BY <1>2, RowFacts
<1>4. row' = [row EXCEPT ![d] = r]
  BY <1>1, <1>3
<1>5. /\ row' \in [Deliveries -> Row] /\ RowsGrow /\ row'[d] = r
      /\ \A e \in Deliveries \ {d} : row'[e] = row[e]
  BY <1>3, <1>4, OneRow
<1>6. RowStep(p) /\ SeenStep /\ Tables'
  BY <1>1, <1>5 DEF RowStep, SeenStep, Typed, Tables
<1>7. QED  BY <1>1, <1>3, <1>5, <1>6 DEF TableStep

LEMMA ClaimedRows ==
    ASSUME Typed, NEW p \in Pollers, shown' = shown,
           row' = [d \in Deliveries |-> IF d \in Claimable THEN [row[d] EXCEPT !.claimed = TRUE]
                                                           ELSE row[d]]
    PROVE  TableStep(p)
<1>1. \A d \in Deliveries : row[d] \in Row
  BY DEF Typed, Tables
<1>2. ASSUME NEW d \in Deliveries
      PROVE  row'[d] \in Row /\ Grows(row[d], row'[d]) /\ row'[d].st = row[d].st
  <2>1. CASE d \in Claimable
    <3>1. row'[d] = [row[d] EXCEPT !.claimed = TRUE]
      BY <2>1
    <3>2. \A b \in BOOLEAN : [row[d] EXCEPT !.claimed = b] \in Row
                             /\ Grows(row[d], [row[d] EXCEPT !.claimed = b])
      BY <1>1, RowFacts
    <3>3. [row[d] EXCEPT !.claimed = TRUE].st = row[d].st
      BY <1>1, RowFacts
    <3>4. QED  BY <3>1, <3>2, <3>3
  <2>2. CASE d \notin Claimable
    <3>1. row'[d] = row[d]
      BY <2>2
    <3>2. QED  BY <1>1, <3>1, RowFacts
  <2>3. QED  BY <2>1, <2>2
<1>3. row' \in [Deliveries -> Row]
  BY <1>2
<1>4. RowsGrow
  BY <1>2 DEF RowsGrow
<1>5. RowStep(p) /\ SeenStep /\ Tables'
  BY <1>2, <1>3 DEF RowStep, SeenStep, Typed, Tables
<1>6. QED  BY <1>4, <1>5 DEF TableStep

DrainStep(p) == OwnStep(p) /\ TableStep(p) /\ LiveStep /\ Typed'

\* The steps that leave the handlers alone.
LEMMA QuietStep ==
    ASSUME Typed, NEW p \in Pollers, OwnStep(p), Memory', Drains', TableStep(p),
           UNCHANGED <<live, result>>, faults' = faults \/ Fault
    PROVE  DrainStep(p)
<1>1. faults' \in 0 .. MaxFaults
  BY FaultTyped DEF Typed
<1>2. LiveStep /\ Handled'
  BY DEF LiveStep, Pins, Typed, Handled
<1>3. Tables'
  BY DEF TableStep
<1>4. Typed'
  BY <1>1, <1>2, <1>3 DEF Typed
<1>5. QED  BY <1>2, <1>4 DEF DrainStep

LEMMA BatchSteps ==
    ASSUME Typed, NEW p \in Pollers,
           Drain(p) \/ DrainEnds(p) \/ \E d \in Deliveries : Skip(p, d) \/ Begin(p, d)
    PROVE  DrainStep(p)
<1>1. job[p] \in Job /\ Sound(job[p])
  BY DEF Typed, Drains
<1>2. Typed /\ p \in Pollers
  OBVIOUS
<1>3. CASE Drain(p)
  <2>1. PICK b \in SUBSET Deliveries : b = Claimable
    BY DEF Claimable
  <2>2. PICK j \in Job : j = [NoJob EXCEPT !.at = "next", !.batch = b] /\ Sound(j)
                         /\ j.at = "next" /\ j.batch = b
    <3>. DEFINE n(x) == [NoJob EXCEPT !.at = "next", !.batch = x]
    <3>1. \A x \in SUBSET Deliveries : n(x) \in Job /\ Sound(n(x)) /\ n(x).at = "next" /\ n(x).batch = x
      BY <1>1, JobFacts
    <3>. HIDE DEF n
    <3>2. QED  BY <3>1 DEF n
  <2>3. /\ job' = [job EXCEPT ![p] = j] /\ tracker' = tracker /\ wrote' = wrote /\ shown' = shown
        /\ UNCHANGED <<live, result>> /\ faults' = faults
        /\ row' = [d \in Deliveries |-> IF d \in Claimable THEN [row[d] EXCEPT !.claimed = TRUE]
                                                           ELSE row[d]]
    BY <1>3, <2>1, <2>2 DEF Drain
  <2>4. j.at \notin Busy /\ j.batch \subseteq job[p].batch \cup Claimable
    BY <2>1, <2>2 DEF Busy
  <2>5. OwnStep(p) /\ Memory' /\ Drains'
    BY <1>2, <2>2, <2>3, <2>4, BetweenStep
  <2>6. TableStep(p)
    BY <1>2, <2>3, ClaimedRows
  <2>7. QED  BY <1>2, <2>3, <2>5, <2>6, QuietStep
<1>4. CASE DrainEnds(p)
  <2>1. NoJob \in Job /\ Sound(NoJob) /\ NoJob.at \notin Busy /\ NoJob.batch = {}
    BY <1>1, JobFacts DEF Busy
  <2>2. /\ job' = [job EXCEPT ![p] = NoJob] /\ tracker' = tracker /\ wrote' = wrote /\ shown' = shown
        /\ UNCHANGED <<live, result>> /\ faults' = faults /\ row' = row
    BY <1>4 DEF DrainEnds
  <2>3. NoJob.batch \subseteq job[p].batch \cup Claimable
    BY <2>1
  <2>4. OwnStep(p) /\ Memory' /\ Drains'
    BY <1>2, <2>1, <2>2, <2>3, BetweenStep
  <2>5. TableStep(p)
    BY <1>2, <2>2, SameTables
  <2>6. QED  BY <1>2, <2>2, <2>4, <2>5, QuietStep
<1>5. ASSUME NEW d \in Deliveries, Skip(p, d) PROVE DrainStep(p)
  <2>1. PICK j \in Job : j = [job[p] EXCEPT !.batch = @ \ {d}] /\ Sound(j)
                         /\ j.at = job[p].at /\ j.batch \subseteq job[p].batch
    <3>1. PICK b \in SUBSET Deliveries : b = job[p].batch \ {d}
      BY <1>1 DEF Job
    <3>2. [job[p] EXCEPT !.batch = @ \ {d}] = [job[p] EXCEPT !.batch = b]
      BY <1>1, <3>1 DEF Job
    <3>3. QED  BY <1>1, <3>1, <3>2 DEF Job, Sound
  <2>2. /\ job[p].at = "next" /\ tracker' = tracker /\ wrote' = wrote /\ shown' = shown
        /\ UNCHANGED <<live, result>> /\ faults' = faults /\ row' = row
    BY <1>5 DEF Skip
  <2>3. job' = [job EXCEPT ![p] = j]
    BY <1>1, <1>5, <2>1 DEF Skip, Typed, Drains, Job
  <2>4. j.at \notin Busy /\ j.batch \subseteq job[p].batch \cup Claimable
    BY <2>1, <2>2 DEF Busy
  <2>5. OwnStep(p) /\ Memory' /\ Drains'
    BY <1>2, <2>1, <2>2, <2>3, <2>4, BetweenStep
  <2>6. TableStep(p)
    BY <1>2, <2>2, SameTables
  <2>7. QED  BY <1>2, <2>2, <2>5, <2>6, QuietStep
<1>6. ASSUME NEW d \in Deliveries, Begin(p, d) PROVE DrainStep(p)
  <2>1. PICK a \in {"ack", "verify", "post"} :
          a = FirstStep(p, d) /\ (a = "ack" <=> Contains(tracker[p].posted, d))
    BY DEF FirstStep
  <2>2. PICK j \in Job : j = [at |-> a, batch |-> job[p].batch \ {d}, cur |-> d, tries |-> 0] /\ Sound(j)
    <3>. DEFINE n(x, y) == [at |-> x, batch |-> job[p].batch \ {y}, cur |-> y, tries |-> 0]
    <3>1. \A y \in Deliveries, x \in {"ack", "verify", "post"} : n(x, y) \in Job /\ Sound(n(x, y))
      BY <1>1, JobFacts
    <3>. HIDE DEF n
    <3>2. QED  BY <3>1 DEF n
  <2>3. j.at = a /\ j.cur = d /\ j.batch \subseteq job[p].batch
    BY <2>2
  <2>4. /\ d \in job[p].batch /\ ~PassesOver(p, d) /\ tracker' = tracker /\ wrote' = wrote
        /\ shown' = shown /\ UNCHANGED <<live, result>> /\ faults' = faults /\ row' = row
    BY <1>6 DEF Begin
  <2>5. job' = [job EXCEPT ![p] = j]
    BY <1>6, <2>1, <2>2 DEF Begin, Typed, Drains
  <2>6. Drains' /\ job'[p] = j /\ \A q \in Pollers \ {p} : job'[q] = job[q]
    BY <1>2, <2>2, <2>5, OneDrain
  <2>7. Memory'
    BY <2>4 DEF Typed, Memory
  <2>8. JobStep(p)
    BY <2>3, <2>4, <2>6 DEF JobStep
  <2>9. TryStep(p)
    BY <2>1, <2>3, <2>4, <2>6 DEF TryStep, Tries
  <2>10. AckStep(p)
    BY <2>1, <2>3, <2>6 DEF AckStep
  <2>11. PostedStep(p)
    BY <2>4 DEF PostedStep
  <2>12. WroteStep(p) /\ KnowStep(p) /\ AloneStep(p)
    BY <2>4, <2>6 DEF WroteStep, KnowStep, AloneStep
  <2>13. TableStep(p)
    BY <1>2, <2>4, SameTables
  <2>14. OwnStep(p)
    BY <2>8, <2>9, <2>10, <2>11, <2>12 DEF OwnStep
  <2>15. QED  BY <1>2, <2>4, <2>6, <2>7, <2>13, <2>14, QuietStep
<1>7. QED  BY <1>3, <1>4, <1>5, <1>6

LEMMA FailingSteps ==
    ASSUME Typed, NEW p \in Pollers, job[p].at \in Busy, Failed(p), wrote' = wrote,
           TableStep(p), UNCHANGED <<live, result>>, faults' = faults \/ Fault
    PROVE  DrainStep(p)
<1>1. OwnStep(p) /\ Memory' /\ Drains'
  BY FailedStep
<1>2. QED  BY <1>1, QuietStep

LEMMA PostingSteps ==
    ASSUME Typed, NEW p \in Pollers, FindsPost(p) \/ Post(p)
    PROVE  DrainStep(p)
<1>1. job[p] \in Job /\ Sound(job[p])
  BY DEF Typed, Drains
<1>2. Typed /\ p \in Pollers
  OBVIOUS
<1>3. CASE FindsPost(p)
  <2>1. /\ job[p].at \in Busy /\ Posted(p) /\ shown' = shown /\ row' = row
        /\ UNCHANGED <<live, result>> /\ faults' = faults /\ shown'[job[p].cur] # {}
    BY <1>3 DEF FindsPost, Busy
  <2>2. OwnStep(p) /\ Memory' /\ Drains'
    BY <1>2, <2>1, PostedStepped
  <2>3. TableStep(p)
    BY <1>2, <2>1, SameTables
  <2>4. QED  BY <1>2, <2>1, <2>2, <2>3, QuietStep
<1>4. CASE Post(p)
  <2>1. /\ job[p].at \in Busy /\ Posted(p) /\ row' = row
        /\ shown' = [shown EXCEPT ![job[p].cur] = @ \cup {"keyed"}]
        /\ UNCHANGED <<live, result>> /\ faults' = faults
    BY <1>4 DEF Post, Busy
  <2>2. job[p].cur \in Deliveries
    BY <1>1, <2>1 DEF Sound
  <2>3. TableStep(p) /\ shown'[job[p].cur] # {}
    BY <1>2, <2>1, <2>2, ShownMore
  <2>4. OwnStep(p) /\ Memory' /\ Drains'
    BY <1>2, <2>1, <2>3, PostedStepped
  <2>5. QED  BY <1>2, <2>1, <2>3, <2>4, QuietStep
<1>5. QED  BY <1>3, <1>4

\* The next attempt, the scan after it, or the failure of the last one.
LEMMA TryingSteps ==
    ASSUME Typed, NEW p \in Pollers,
           FindsNothing(p) \/ ScanFails(p) \/ PostRefused(p) \/ PostLimited(p) \/ PostUnclear(p)
    PROVE  DrainStep(p)
<1>1. job[p] \in Job /\ Sound(job[p])
  BY DEF Typed, Drains
<1>2. Typed /\ p \in Pollers
  OBVIOUS
<1>3. CASE FindsNothing(p)
  <2>1. /\ job[p].at \in {"verify", "scan"} /\ row' = row /\ shown' = shown /\ wrote' = wrote
        /\ UNCHANGED <<live, result>> /\ faults' = faults
    BY <1>3 DEF FindsNothing
  <2>2. TableStep(p)
    BY <1>2, <2>1, SameTables
  <2>3. CASE job[p].tries < PostTries
    <3>1. PICK j \in Job : j = [job[p] EXCEPT !.at = "post"] /\ Sound(j)
                           /\ j.at = "post" /\ j.cur = job[p].cur /\ j.batch = job[p].batch
      <4>. DEFINE n == [job[p] EXCEPT !.at = "post"]
      <4>1. n \in Job /\ Sound(n) /\ n.at = "post" /\ n.cur = job[p].cur /\ n.batch = job[p].batch
        BY <1>1, <2>1, <2>3, JobFacts
      <4>. HIDE DEF n
      <4>2. QED  BY <4>1 DEF n
    <3>2. job' = [job EXCEPT ![p] = j] /\ tracker' = tracker
      BY <1>3, <2>3, <3>1 DEF FindsNothing, Typed, Drains
    <3>3. job[p].at \in {"verify", "post", "scan"} /\ j.at \in {"verify", "post", "scan"}
      BY <2>1, <3>1
    <3>4. OwnStep(p) /\ Memory' /\ Drains'
      BY <1>2, <2>1, <3>1, <3>2, <3>3, OnwardStep
    <3>5. QED  BY <1>2, <2>1, <2>2, <3>4, QuietStep
  <2>4. CASE ~(job[p].tries < PostTries)
    <3>1. Failed(p) /\ job[p].at \in Busy
      BY <1>3, <2>1, <2>4 DEF FindsNothing, Busy
    <3>2. QED  BY <1>2, <2>1, <2>2, <3>1, FailingSteps
  <2>5. QED  BY <2>3, <2>4
<1>4. CASE ScanFails(p) \/ PostRefused(p)
  <2>1. /\ job[p].at \in Busy /\ Failed(p) /\ row' = row /\ shown' = shown /\ wrote' = wrote
        /\ UNCHANGED <<live, result>> /\ Fault
    BY <1>4 DEF ScanFails, PostRefused, Busy
  <2>2. TableStep(p)
    BY <1>2, <2>1, SameTables
  <2>3. QED  BY <1>2, <2>1, <2>2, FailingSteps
<1>5. CASE PostLimited(p)
  <2>1. /\ job[p].at = "post" /\ row' = row /\ shown' = shown /\ wrote' = wrote
        /\ UNCHANGED <<live, result>> /\ Fault
    BY <1>5 DEF PostLimited
  <2>2. TableStep(p)
    BY <1>2, <2>1, SameTables
  <2>3. CASE job[p].tries + 1 < PostTries
    <3>1. PICK j \in Job : j = [job[p] EXCEPT !.tries = @ + 1] /\ Sound(j)
                           /\ j.at = "post" /\ j.cur = job[p].cur /\ j.batch = job[p].batch
      <4>. DEFINE n == [job[p] EXCEPT !.tries = @ + 1]
      <4>1. n \in Job /\ Sound(n) /\ n.at = "post" /\ n.cur = job[p].cur /\ n.batch = job[p].batch
        BY <1>1, <2>1, <2>3, JobFacts
      <4>. HIDE DEF n
      <4>2. QED  BY <4>1 DEF n
    <3>2. job' = [job EXCEPT ![p] = j] /\ tracker' = tracker
      BY <1>1, <1>5, <2>3, <3>1 DEF PostLimited, Typed, Drains, Job
    <3>3. job[p].at \in {"verify", "post", "scan"} /\ j.at \in {"verify", "post", "scan"}
      BY <2>1, <3>1
    <3>4. OwnStep(p) /\ Memory' /\ Drains'
      BY <1>2, <2>1, <3>1, <3>2, <3>3, OnwardStep
    <3>5. QED  BY <1>2, <2>1, <2>2, <3>4, QuietStep
  <2>4. CASE ~(job[p].tries + 1 < PostTries)
    <3>1. Failed(p) /\ job[p].at \in Busy
      BY <1>5, <2>1, <2>4 DEF PostLimited, Busy
    <3>2. QED  BY <1>2, <2>1, <2>2, <3>1, FailingSteps
  <2>5. QED  BY <2>3, <2>4
<1>6. CASE PostUnclear(p)
  <2>1. /\ job[p].at = "post" /\ row' = row /\ wrote' = wrote /\ tracker' = tracker
        /\ UNCHANGED <<live, result>> /\ Fault
    BY <1>6 DEF PostUnclear
  <2>2. job[p].cur \in Deliveries
    BY <1>1, <2>1 DEF Sound, Busy
  <2>3. ASSUME shown' = [shown EXCEPT ![job[p].cur] = @ \cup {"keyed"}] PROVE TableStep(p)
    BY <1>2, <2>1, <2>2, <2>3, ShownMore
  <2>4. ASSUME shown' = shown PROVE TableStep(p)
    BY <1>2, <2>1, <2>4, SameTables
  <2>5. TableStep(p)
    BY <1>6, <2>3, <2>4 DEF PostUnclear
  <2>6. PICK j \in Job : j = [job[p] EXCEPT !.at = "scan", !.tries = @ + 1] /\ Sound(j)
                         /\ j.at = "scan" /\ j.cur = job[p].cur /\ j.batch = job[p].batch
    <3>. DEFINE n == [job[p] EXCEPT !.at = "scan", !.tries = @ + 1]
    <3>1. n \in Job /\ Sound(n) /\ n.at = "scan" /\ n.cur = job[p].cur /\ n.batch = job[p].batch
      BY <1>1, <2>1, JobFacts
    <3>. HIDE DEF n
    <3>2. QED  BY <3>1 DEF n
  <2>7. job' = [job EXCEPT ![p] = j]
    <3>1. job' = [job EXCEPT ![p].at = "scan", ![p].tries = @ + 1]
      BY <1>6 DEF PostUnclear
    <3>2. QED  BY <1>1, <2>6, <3>1 DEF Typed, Drains, Job
  <2>8. job[p].at \in {"verify", "post", "scan"} /\ j.at \in {"verify", "post", "scan"}
    BY <2>1, <2>6
  <2>9. OwnStep(p) /\ Memory' /\ Drains'
    BY <1>2, <2>1, <2>6, <2>7, <2>8, OnwardStep
  <2>10. QED  BY <1>2, <2>1, <2>5, <2>9, QuietStep
<1>7. QED  BY <1>3, <1>4, <1>5, <1>6

LEMMA AckSteps ==
    ASSUME Typed, NEW p \in Pollers, Ack(p) \/ AckFails(p)
    PROVE  DrainStep(p)
<1>1. job[p] \in Job /\ Sound(job[p])
  BY DEF Typed, Drains
<1>2. Typed /\ p \in Pollers /\ job[p].at = "ack" /\ job[p].at \in Busy
  BY DEF Ack, AckFails, Busy
<1>3. PICK d \in Deliveries : d = job[p].cur
  BY <1>1, <1>2 DEF Sound
<1>4. CASE Ack(p)
  <2>1. /\ row' = [row EXCEPT ![job[p].cur] = AckRow(@)] /\ shown' = shown /\ wrote' = wrote
        /\ tracker' = [tracker EXCEPT ![p] = Clear(@, job[p].cur)]
        /\ job' = [job EXCEPT ![p] = [NoJob EXCEPT !.at = "next", !.batch = job[p].batch]]
        /\ UNCHANGED <<live, result>> /\ faults' = faults
    BY <1>4 DEF Ack
  <2>2. TableStep(p) /\ row'[d].st # "pending"
    BY <1>2, <1>3, <2>1, AckedRow
  <2>3. tracker[p] \in Tracker /\ wrote \in [Pollers -> SUBSET Deliveries]
    BY DEF Typed, Memory
  <2>4. PICK t \in Tracker : t = Clear(tracker[p], d)
    BY <2>3, ClearFacts
  <2>5. tracker' = [tracker EXCEPT ![p] = t]
    BY <1>3, <2>1, <2>4 DEF Typed, Memory
  <2>6. /\ tracker' \in [Pollers -> Tracker] /\ tracker'[p] = t
        /\ \A q \in Pollers \ {p} : tracker'[q] = tracker[q]
    BY <1>2, <2>5, OneTracker
  <2>7. /\ \A e : Contains(t.posted, e) => Contains(tracker[p].posted, e)
        /\ \A e : e # d /\ Knows(tracker[p], e) => Knows(t, e)
    BY <2>3, <2>4, ClearFacts
  <2>8. job[p].batch \in SUBSET Deliveries
    BY <1>1 DEF Job
  <2>9. PICK j \in Job : j = [NoJob EXCEPT !.at = "next", !.batch = job[p].batch] /\ Sound(j)
                         /\ j.at = "next" /\ j.batch = job[p].batch
    <3>. DEFINE n(b) == [NoJob EXCEPT !.at = "next", !.batch = b]
    <3>1. \A b \in SUBSET Deliveries : n(b) \in Job /\ Sound(n(b)) /\ n(b).at = "next" /\ n(b).batch = b
      BY <1>1, JobFacts
    <3>. HIDE DEF n
    <3>2. QED  BY <2>8, <3>1 DEF n
  <2>10. job' = [job EXCEPT ![p] = j]
    BY <2>1, <2>9
  <2>11. Drains' /\ job'[p] = j /\ \A q \in Pollers \ {p} : job'[q] = job[q]
    BY <1>2, <2>9, <2>10, OneDrain
  <2>12. JobStep(p) /\ TryStep(p) /\ AckStep(p)
    BY <2>9, <2>11 DEF JobStep, TryStep, AckStep, Busy, Tries
  <2>13. PostedStep(p)
    BY <2>6, <2>7 DEF PostedStep
  <2>14. WroteStep(p)
    BY <2>1 DEF WroteStep
  <2>15. KnowStep(p)
    BY <2>1, <2>2, <2>6, <2>7 DEF KnowStep
  <2>16. AloneStep(p)
    BY <2>1, <2>6, <2>11 DEF AloneStep
  <2>17. OwnStep(p)
    BY <2>12, <2>13, <2>14, <2>15, <2>16 DEF OwnStep
  <2>18. Memory'
    BY <2>1, <2>3, <2>6 DEF Memory
  <2>19. QED  BY <1>2, <2>1, <2>2, <2>11, <2>17, <2>18, QuietStep
<1>5. CASE AckFails(p)
  <2>1. /\ Failed(p) /\ Fault /\ shown' = shown /\ wrote' = wrote /\ UNCHANGED <<live, result>>
    BY <1>5 DEF AckFails
  <2>2. ASSUME row' = [row EXCEPT ![job[p].cur] = AckRow(@)] PROVE TableStep(p)
    BY <1>2, <1>3, <2>1, <2>2, AckedRow
  <2>3. ASSUME row' = row PROVE TableStep(p)
    BY <1>2, <2>1, <2>3, SameTables
  <2>4. TableStep(p)
    BY <1>5, <2>2, <2>3 DEF AckFails
  <2>5. QED  BY <1>2, <2>1, <2>4, FailingSteps
<1>6. QED  BY <1>4, <1>5

LEMMA CrashStep ==
    ASSUME Typed, NEW p \in Pollers, Crash(p)
    PROVE  DrainStep(p)
<1>1. Typed /\ p \in Pollers
  OBVIOUS
<1>2. /\ row' = row /\ shown' = shown /\ result' = result /\ Fault
      /\ tracker' = [tracker EXCEPT ![p] = NewTracker]
      /\ job' = [job EXCEPT ![p] = NoJob]
      /\ wrote' = [wrote EXCEPT ![p] = {}]
  BY DEF Crash
<1>3. NewTracker \in Tracker /\ NewTracker.posted = <<>>
  <2>1. 0 \in 0 .. MaxAttempts - 1
    BY BoundsAssumption
  <2>2. <<>> \in Seq(Deliveries)
    OBVIOUS
  <2>3. QED  BY <2>1, <2>2 DEF NewTracker, Tracker
<1>4. NoJob \in Job /\ Sound(NoJob) /\ NoJob.at = "idle" /\ NoJob.batch = {}
  BY BoundsAssumption DEF NoJob, Job, Sound, Busy
<1>5. /\ tracker' \in [Pollers -> Tracker] /\ tracker'[p] = NewTracker
      /\ \A q \in Pollers \ {p} : tracker'[q] = tracker[q]
  BY <1>1, <1>2, <1>3, OneTracker
<1>6. Drains' /\ job'[p] = NoJob /\ \A q \in Pollers \ {p} : job'[q] = job[q]
  BY <1>1, <1>2, <1>4, OneDrain
<1>7. /\ wrote' \in [Pollers -> SUBSET Deliveries] /\ wrote'[p] = {}
      /\ \A q \in Pollers \ {p} : wrote'[q] = wrote[q]
  BY <1>2 DEF Typed, Memory
<1>8. \A e : ~Contains(<<>>, e)
  BY DEF Contains
<1>9. JobStep(p) /\ TryStep(p) /\ AckStep(p)
  BY <1>4, <1>6 DEF JobStep, TryStep, AckStep, Busy, Tries
<1>10. PostedStep(p)
  BY <1>3, <1>5, <1>8 DEF PostedStep
<1>11. WroteStep(p) /\ KnowStep(p)
  BY <1>7 DEF WroteStep, KnowStep
<1>12. AloneStep(p)
  BY <1>5, <1>6, <1>7 DEF AloneStep
<1>13. OwnStep(p)
  BY <1>9, <1>10, <1>11, <1>12 DEF OwnStep
<1>14. TableStep(p)
  BY <1>1, <1>2, SameTables
<1>15. ASSUME NEW d \in Runs
       PROVE  /\ live'[d] \in Live
              /\ \A q \in Pollers : Pins(live'[d], q, d) => Pins(live[d], q, d)
              /\ live'[d].ack = "trying" => live[d].ack = "trying"
  <2>1. live[d] \in Live
    BY DEF Typed, Handled
  <2>2. CASE live[d].on = p /\ live[d].at # "off"
    <3>1. live'[d] = [live[d] EXCEPT !.at = "done", !.ack = "over"]
      BY <2>2 DEF Crash
    <3>2. live'[d] \in Live /\ live'[d].at = "done" /\ live'[d].ack = "over"
      BY <2>1, <3>1 DEF Live
    <3>3. QED  BY <3>2 DEF Pins
  <2>3. CASE ~(live[d].on = p /\ live[d].at # "off")
    <3>1. live'[d] = live[d]
      BY <2>3 DEF Crash
    <3>2. QED  BY <2>1, <3>1
  <2>4. QED  BY <2>2, <2>3
<1>16. live' = [d \in Runs |-> live'[d]]
  BY DEF Crash
<1>17. LiveStep
  BY <1>15 DEF LiveStep
<1>18. live' \in [Runs -> Live]
  BY <1>15, <1>16
<1>19. Handled'
  BY <1>2, <1>18 DEF Typed, Handled
<1>20. Memory' /\ Tables'
  BY <1>5, <1>7, <1>14 DEF Memory, TableStep
<1>21. faults' \in 0 .. MaxFaults
  BY <1>1, <1>2, FaultTyped
<1>22. QED  BY <1>6, <1>13, <1>14, <1>17, <1>19, <1>20, <1>21 DEF DrainStep, Typed

LEMMA DrainActFacts ==
    ASSUME Typed, NEW p \in Pollers, DrainActs(p)
    PROVE  DrainStep(p)
<1>1. Typed /\ p \in Pollers
  OBVIOUS
<1>2. \/ Drain(p) \/ DrainEnds(p) \/ \E d \in Deliveries : Skip(p, d) \/ Begin(p, d)
      \/ FindsPost(p) \/ Post(p) \/ Ack(p) \/ AckFails(p) \/ Crash(p)
      \/ FindsNothing(p) \/ ScanFails(p) \/ PostRefused(p) \/ PostLimited(p) \/ PostUnclear(p)
  BY DEF DrainActs, DrainSteps
<1>3. QED
  BY <1>1, <1>2, BatchSteps, PostingSteps, TryingSteps, AckSteps, CrashStep

-----------------------------------------------------------------------------
(* Every step is one of the table, of a handler or of a drain.             *)

LEMMA Steps ==
    Next => \/ \E d \in Deliveries : RowActs(d)
            \/ \E d \in Runs : LiveActs(d)
            \/ \E p \in Pollers : DrainActs(p)
BY DEF Next, RowActs, LiveActs, DrainActs, Deliveries

LEMMA NextTyped == Typed /\ [Next]_vars => Typed' /\ RowsGrow
<1>. SUFFICES ASSUME Typed, [Next]_vars PROVE Typed' /\ RowsGrow
  OBVIOUS
<1>1. Typed
  OBVIOUS
<1>2. CASE UNCHANGED vars
  <2>1. row' = row
    BY <1>2 DEF vars
  <2>2. Typed'
    BY <1>2 DEF vars, Typed, Tables, Memory, Drains, Handled
  <2>3. QED  BY <1>1, <2>1, <2>2, SameRows
<1>3. ASSUME NEW d \in Deliveries, RowActs(d) PROVE Typed' /\ RowsGrow
  BY <1>1, <1>3, RowActFacts
<1>4. ASSUME NEW d \in Runs, LiveActs(d) PROVE Typed' /\ RowsGrow
  BY <1>1, <1>4, LiveActFacts
<1>5. ASSUME NEW p \in Pollers, DrainActs(p) PROVE Typed' /\ RowsGrow
  BY <1>1, <1>5, DrainActFacts DEF DrainStep, TableStep
<1>6. QED  BY <1>2, <1>3, <1>4, <1>5, Steps

LEMMA AlwaysTyped == Spec => []Typed
<1>1. Typed /\ [Next]_vars => Typed'
  BY NextTyped
<1>2. QED  BY <1>1, InitTyped, PTL DEF Spec

\* Every variable keeps its type, whatever fails, lapses or crashes.
THEOREM OutboxTypeCorrect == Spec => []TypeOK
<1>1. Typed => TypeOK
  BY DEF Typed, Tables, Memory, Drains, Handled, TypeOK
<1>2. QED  BY <1>1, AlwaysTyped, PTL

-----------------------------------------------------------------------------
(* A delivered row stays delivered.                                        *)

\* No write of the table - the enqueue, the acknowledgement by id and by key,
\* the claim, its lapse, the end of the grace - takes a row out of "delivered".
THEOREM DeliveredForGood == Spec => SettledStays
<1>1. Typed /\ [Next]_vars =>
        [\A d \in Deliveries : row[d].st = "delivered" => row'[d].st = "delivered"]_vars
  BY NextTyped DEF RowsGrow, Grows
<1>2. QED  BY <1>1, AlwaysTyped, PTL DEF Spec, SettledStays

-----------------------------------------------------------------------------
(* What is marked delivered was shown.  The invariant follows the evidence *)
(* from the post to the acknowledgement: what a tracker remembers as       *)
(* posted, what a drain is about to acknowledge, and what a quarantine's   *)
(* handler acknowledges by key.                                            *)

RememberedShown == \A p \in Pollers, d \in Deliveries :
                       Contains(tracker[p].posted, d) => shown[d] # {}
AckedShown      == \A p \in Pollers : job[p].at = "ack" => shown[job[p].cur] # {}
RefusalShown    == \A d \in Refusals : live[d].ack = "trying" => shown[d] # {}

ShownInv == RememberedShown /\ AckedShown /\ RefusalShown /\ DeliveredWasShown

LEMMA InitShown == Init => ShownInv
<1>. SUFFICES ASSUME Init PROVE ShownInv
  OBVIOUS
<1>1. RememberedShown
  BY DEF Init, RememberedShown, NewTracker, Contains
<1>2. AckedShown
  BY DEF Init, AckedShown, NoJob
<1>3. RefusalShown
  BY DEF Init, RefusalShown, Runs
<1>4. DeliveredWasShown
  BY DEF Init, DeliveredWasShown, Absent, Deliveries, Runs
<1>5. QED  BY <1>1, <1>2, <1>3, <1>4 DEF ShownInv

LEMMA NextShown == Typed /\ ShownInv /\ [Next]_vars => ShownInv'
<1>. SUFFICES ASSUME Typed, ShownInv, [Next]_vars PROVE ShownInv'
  OBVIOUS
<1>1. Typed /\ RememberedShown /\ AckedShown /\ RefusalShown /\ DeliveredWasShown
  BY DEF ShownInv
<1>2. Refusals \subseteq Runs /\ Runs \subseteq Deliveries /\ Notices \subseteq Deliveries
  BY DEF Runs, Deliveries
<1>3. CASE UNCHANGED vars
  <2>1. RememberedShown' /\ AckedShown'
    BY <1>1, <1>3 DEF vars, RememberedShown, AckedShown
  <2>2. RefusalShown' /\ DeliveredWasShown'
    BY <1>1, <1>3 DEF vars, RefusalShown, DeliveredWasShown
  <2>3. QED  BY <2>1, <2>2 DEF ShownInv
<1>4. ASSUME NEW d \in Deliveries, RowActs(d) PROVE ShownInv'
  <2>1. /\ UNCHANGED <<tracker, job, live, shown, wrote>>
        /\ \A e \in Deliveries : row'[e].st = "delivered" => row[e].st = "delivered"
    BY <1>1, <1>4, RowActFacts
  <2>2. RememberedShown' /\ AckedShown' /\ RefusalShown'
    BY <1>1, <2>1 DEF RememberedShown, AckedShown, RefusalShown
  <2>3. DeliveredWasShown'
    BY <1>1, <1>2, <2>1 DEF DeliveredWasShown
  <2>4. QED  BY <2>2, <2>3 DEF ShownInv
<1>5. ASSUME NEW d \in Runs, LiveActs(d) PROVE ShownInv'
  <2>1. /\ tracker' = tracker /\ job' = job
        /\ \A e \in Runs \ {d} : live'[e] = live[e]
        /\ \A e \in Deliveries \ {d} : row'[e] = row[e]
        /\ \A e \in Deliveries : shown[e] # {} => shown'[e] # {}
        /\ d \in Refusals /\ live'[d].ack = "trying" => live[d].ack = "trying" \/ shown'[d] # {}
        /\ row'[d].st = "delivered" => row[d].st = "delivered" \/ live[d].ack = "trying"
    BY <1>1, <1>5, LiveActFacts
  <2>2. RememberedShown'
    BY <1>1, <2>1 DEF RememberedShown
  <2>3. AckedShown'
    <3>1. \A p \in Pollers : job[p].at = "ack" => job[p].cur \in Deliveries
      BY DEF Typed, Drains, Sound, Busy
    <3>2. QED  BY <1>1, <2>1, <3>1 DEF AckedShown
  <2>4. RefusalShown'
    BY <1>1, <1>2, <2>1 DEF RefusalShown
  <2>5. d \in Notices => FALSE
    BY DeliveriesAssumption
  <2>6. DeliveredWasShown'
    BY <1>1, <1>2, <2>1, <2>5 DEF DeliveredWasShown, RefusalShown
  <2>7. QED  BY <2>2, <2>3, <2>4, <2>6 DEF ShownInv
<1>6. ASSUME NEW p \in Pollers, DrainActs(p) PROVE ShownInv'
  <2>1. OwnStep(p) /\ TableStep(p) /\ LiveStep /\ Typed'
    BY <1>1, <1>6, DrainActFacts DEF DrainStep
  <2>2. SeenStep /\ RowStep(p) /\ AckStep(p) /\ PostedStep(p) /\ AloneStep(p)
    BY <2>1 DEF OwnStep, TableStep
  <2>3. \A q \in Pollers : job[q].at = "ack" => job[q].cur \in Deliveries
    BY DEF Typed, Drains, Sound, Busy
  <2>4. \A q \in Pollers : job'[q].at = "ack" => job'[q].cur \in Deliveries
    BY <2>1 DEF Typed, Drains, Sound, Busy
  <2>5. RememberedShown'
    BY <1>1, <2>2 DEF RememberedShown, SeenStep, PostedStep, AloneStep
  <2>6. AckedShown'
    <3>1. ASSUME job'[p].at = "ack" PROVE shown'[job'[p].cur] # {}
      BY <1>1, <2>2, <2>4, <3>1 DEF RememberedShown, SeenStep, AckStep
    <3>2. ASSUME NEW q \in Pollers \ {p}, job'[q].at = "ack" PROVE shown'[job'[q].cur] # {}
      BY <1>1, <2>2, <2>3, <3>2 DEF AckedShown, SeenStep, AloneStep
    <3>3. QED  BY <3>1, <3>2 DEF AckedShown
  <2>7. RefusalShown'
    BY <1>1, <1>2, <2>1, <2>2 DEF RefusalShown, LiveStep, SeenStep
  <2>8. DeliveredWasShown'
    BY <1>1, <1>2, <2>2 DEF DeliveredWasShown, RowStep, AckedShown, SeenStep
  <2>9. QED  BY <2>5, <2>6, <2>7, <2>8 DEF ShownInv
<1>7. QED  BY <1>3, <1>4, <1>5, <1>6, Steps

\* A notice or a quarantine note whose row is marked delivered is in Slack, for
\* any number of deliveries, processes and faults.
THEOREM DeliveredMeansShown == Spec => []DeliveredWasShown
<1>1. Typed /\ ShownInv /\ [Next]_vars => ShownInv'
  BY NextShown
<1>2. ShownInv => DeliveredWasShown
  BY DEF ShownInv
<1>3. QED  BY <1>1, <1>2, AlwaysTyped, InitShown, PTL DEF Spec

-----------------------------------------------------------------------------
(* What a drain holds, or has posted, has a row: rows are never deleted.   *)

HeldInv == \A p \in Pollers :
    /\ \A d \in job[p].batch : row[d].st # "none"
    /\ job[p].at \in Busy => row[job[p].cur].st # "none"
    /\ \A d \in wrote[p] : row[d].st # "none"

LEMMA InitHeld == Init => HeldInv
BY DEF Init, HeldInv, NoJob, Busy

\* A step of another keeps it, because rows only grow.
LEMMA HeldKept ==
    ASSUME Typed, RowsGrow, NEW p \in Pollers,
           job'[p] = job[p], wrote'[p] = wrote[p],
           /\ \A d \in job[p].batch : row[d].st # "none"
           /\ job[p].at \in Busy => row[job[p].cur].st # "none"
           /\ \A d \in wrote[p] : row[d].st # "none"
    PROVE  /\ \A d \in job'[p].batch : row'[d].st # "none"
           /\ job'[p].at \in Busy => row'[job'[p].cur].st # "none"
           /\ \A d \in wrote'[p] : row'[d].st # "none"
<1>1. /\ job[p].batch \subseteq Deliveries /\ wrote[p] \subseteq Deliveries
      /\ job[p].at \in Busy => job[p].cur \in Deliveries
  BY DEF Typed, Drains, Memory, Job, Sound
<1>2. \A d \in Deliveries : row[d].st # "none" => row'[d].st # "none"
  BY DEF RowsGrow, Grows
<1>3. QED  BY <1>1, <1>2

LEMMA NextHeld == Typed /\ HeldInv /\ [Next]_vars => HeldInv'
<1>. SUFFICES ASSUME Typed, HeldInv, [Next]_vars PROVE HeldInv'
  OBVIOUS
<1>1. Typed /\ RowsGrow
  BY NextTyped
<1>2. ASSUME NEW p \in Pollers
      PROVE  /\ \A d \in job[p].batch : row[d].st # "none"
             /\ job[p].at \in Busy => row[job[p].cur].st # "none"
             /\ \A d \in wrote[p] : row[d].st # "none"
  BY DEF HeldInv
<1>3. ASSUME job' = job, wrote' = wrote PROVE HeldInv'
  <2>1. \A p \in Pollers : job'[p] = job[p] /\ wrote'[p] = wrote[p]
    BY <1>3
  <2>2. QED  BY <1>1, <1>2, <2>1, HeldKept DEF HeldInv
<1>4. CASE UNCHANGED vars
  BY <1>3, <1>4 DEF vars
<1>5. ASSUME NEW d \in Deliveries, RowActs(d) PROVE HeldInv'
  BY <1>1, <1>3, <1>5, RowActFacts
<1>6. ASSUME NEW d \in Runs, LiveActs(d) PROVE HeldInv'
  BY <1>1, <1>3, <1>6, LiveActFacts
<1>7. ASSUME NEW p \in Pollers, DrainActs(p) PROVE HeldInv'
  <2>1. OwnStep(p) /\ Typed'
    BY <1>1, <1>7, DrainActFacts DEF DrainStep
  <2>2. JobStep(p) /\ WroteStep(p) /\ AloneStep(p)
    BY <2>1 DEF OwnStep
  <2>3. \A q \in Pollers \ {p} : job'[q] = job[q] /\ wrote'[q] = wrote[q]
    BY <2>2 DEF AloneStep
  <2>4. /\ job[p].batch \subseteq Deliveries /\ job'[p].batch \subseteq Deliveries
        /\ wrote'[p] \subseteq Deliveries
        /\ job[p].at \in Busy => job[p].cur \in Deliveries
        /\ job'[p].at \in Busy => job'[p].cur \in Deliveries
    BY <1>1, <2>1 DEF Typed, Drains, Memory, Job, Sound
  <2>5. \A d \in Deliveries : row[d].st # "none" => row'[d].st # "none"
    BY <1>1 DEF RowsGrow, Grows
  <2>6. \A d \in Claimable : row[d].st # "none"
    BY DEF Claimable
  <2>7. \A d \in job'[p].batch : row'[d].st # "none"
    BY <1>2, <2>2, <2>4, <2>5, <2>6 DEF JobStep
  <2>8. job'[p].at \in Busy => row'[job'[p].cur].st # "none"
    BY <1>2, <2>2, <2>4, <2>5 DEF JobStep
  <2>9. \A d \in wrote'[p] : row'[d].st # "none"
    BY <1>2, <2>2, <2>4, <2>5 DEF WroteStep
  <2>10. ASSUME NEW q \in Pollers \ {p}
         PROVE  /\ \A d \in job'[q].batch : row'[d].st # "none"
                /\ job'[q].at \in Busy => row'[job'[q].cur].st # "none"
                /\ \A d \in wrote'[q] : row'[d].st # "none"
    BY <1>1, <1>2, <2>3, HeldKept
  <2>11. QED  BY <2>7, <2>8, <2>9, <2>10 DEF HeldInv
<1>8. QED  BY <1>4, <1>5, <1>6, <1>7, Steps

LEMMA AlwaysHeld == Spec => []HeldInv
<1>1. Typed /\ HeldInv /\ [Next]_vars => HeldInv'
  BY NextHeld
<1>2. QED  BY <1>1, AlwaysTyped, InitHeld, PTL DEF Spec

-----------------------------------------------------------------------------
(* Recovery stands back.  A drain that sets out with a run's copy found no *)
(* pin and a row past its grace; no handler can start waiting for a run    *)
(* whose row is past its grace, so the pin cannot come afterwards.         *)

StandsInv == \A p \in Pollers, d \in Runs :
                 Tries(job[p], d) => ~row[d].fresh /\ ~Pins(live[d], p, d)

LEMMA NextStands == Typed /\ HeldInv /\ StandsInv /\ [Next]_vars => StandsInv'
<1>. SUFFICES ASSUME Typed, HeldInv, StandsInv, [Next]_vars PROVE StandsInv'
  OBVIOUS
<1>1. Typed /\ RowsGrow
  BY NextTyped
<1>2. Runs \subseteq Deliveries
  BY DEF Deliveries
<1>3. \A d \in Runs : row[d].st # "none" /\ ~row[d].fresh => ~row'[d].fresh
  BY <1>1, <1>2 DEF RowsGrow, Grows
<1>4. \A p \in Pollers, d \in Runs : Tries(job[p], d) => row[d].st # "none"
  BY DEF HeldInv, Tries, Busy
<1>5. \A p \in Pollers, d \in Runs :
        Tries(job[p], d) => ~row'[d].fresh /\ ~row[d].fresh /\ ~Pins(live[d], p, d)
  BY <1>3, <1>4 DEF StandsInv
<1>6. CASE UNCHANGED vars
  BY <1>5, <1>6 DEF vars, StandsInv
<1>7. ASSUME NEW d \in Deliveries, RowActs(d) PROVE StandsInv'
  <2>1. job' = job /\ live' = live
    BY <1>1, <1>7, RowActFacts
  <2>2. QED  BY <1>5, <2>1 DEF StandsInv
<1>8. ASSUME NEW d \in Runs, LiveActs(d) PROVE StandsInv'
  <2>1. /\ job' = job /\ \A e \in Runs \ {d} : live'[e] = live[e]
        /\ \A p \in Pollers : Pins(live'[d], p, d) =>
             Pins(live[d], p, d) \/ row[d].st = "none" \/ row[d].fresh
    BY <1>1, <1>8, LiveActFacts
  <2>2. ASSUME NEW p \in Pollers, NEW e \in Runs, Tries(job'[p], e)
        PROVE  ~row'[e].fresh /\ ~Pins(live'[e], p, e)
    BY <1>4, <1>5, <2>1, <2>2
  <2>3. QED  BY <2>2 DEF StandsInv
<1>9. ASSUME NEW p \in Pollers, DrainActs(p) PROVE StandsInv'
  <2>1. OwnStep(p) /\ LiveStep
    BY <1>1, <1>9, DrainActFacts DEF DrainStep
  <2>2. TryStep(p) /\ AloneStep(p)
    BY <2>1 DEF OwnStep
  <2>3. ASSUME NEW q \in Pollers, NEW e \in Runs, Tries(job'[q], e)
        PROVE  ~row'[e].fresh /\ ~Pins(live'[e], q, e)
    <3>1. ~Pins(live[e], q, e) => ~Pins(live'[e], q, e)
      BY <2>1 DEF LiveStep
    <3>2. CASE Tries(job[q], e)
      BY <1>5, <3>1, <3>2
    <3>3. CASE ~Tries(job[q], e)
      <4>1. q = p
        BY <2>2, <2>3, <3>3 DEF AloneStep
      <4>2. e \in job[p].batch /\ ~PassesOver(p, e)
        BY <1>2, <2>2, <2>3, <3>3, <4>1 DEF TryStep
      <4>3. row[e].st # "none" /\ ~row[e].fresh
        BY <4>2 DEF HeldInv, PassesOver
      <4>4. ~Pins(live[e], p, e)
        BY <4>2 DEF PassesOver, Pinned, Pins
      <4>5. QED  BY <1>3, <3>1, <4>1, <4>3, <4>4
    <3>4. QED  BY <3>2, <3>3
  <2>4. QED  BY <2>3 DEF StandsInv
<1>10. QED  BY <1>6, <1>7, <1>8, <1>9, Steps

\* No drain posts a run's recovery copy while the handler of its own process
\* still waits for the run, posts its quarantine note or acknowledges it.
THEOREM RecoveryBehindHandler == Spec => []RecoveryStandsBack
<1>1. Init => StandsInv
  BY DEF Init, StandsInv, NoJob, Tries
<1>2. Typed /\ HeldInv /\ StandsInv /\ [Next]_vars => StandsInv'
  BY NextStands
<1>3. StandsInv => RecoveryStandsBack
  BY DEF StandsInv, RecoveryStandsBack, Trying, Tries, Pins
<1>4. QED  BY <1>1, <1>2, <1>3, AlwaysTyped, AlwaysHeld, PTL DEF Spec

-----------------------------------------------------------------------------
(* Nothing is posted twice by one process.  What a process posted, it      *)
(* remembers as posted or has given up on, until the row is delivered; a   *)
(* drain sets out with neither.  The memory of what was given up on holds  *)
(* MaxTracked deliveries, so the promise is that of a process that has     *)
(* given up on fewer.                                                      *)

Roomy == \A p \in Pollers : Len(tracker[p].dead) < MaxTracked

KnowsInv == \A p \in Pollers, d \in Deliveries :
                d \in wrote[p] /\ row[d].st = "pending" => /\ Knows(tracker[p], d)
                                                           /\ ~Tries(job[p], d)

LEMMA NextKnows == Typed /\ HeldInv /\ Roomy /\ KnowsInv /\ [Next]_vars => KnowsInv'
<1>. SUFFICES ASSUME Typed, HeldInv, Roomy, KnowsInv, [Next]_vars PROVE KnowsInv'
  OBVIOUS
<1>1. Typed /\ RowsGrow /\ Typed'
  BY NextTyped
<1>2. ASSUME NEW d \in Deliveries, row[d].st # "none", row'[d].st = "pending"
      PROVE  row[d].st = "pending"
  <2>1. row[d].st \in {"none", "pending", "delivered"}
    BY DEF Typed, Tables, Row
  <2>2. row[d].st # "delivered"
    BY <1>1, <1>2 DEF RowsGrow, Grows
  <2>3. QED  BY <1>2, <2>1, <2>2
<1>3. \A p \in Pollers : \A d \in wrote[p] : row[d].st # "none"
  BY DEF HeldInv
<1>4. \A p \in Pollers, d \in Deliveries :
        d \in wrote[p] /\ row'[d].st = "pending" => Knows(tracker[p], d) /\ ~Tries(job[p], d)
  BY <1>2, <1>3 DEF KnowsInv
<1>5. ASSUME job' = job, tracker' = tracker, wrote' = wrote PROVE KnowsInv'
  BY <1>4, <1>5 DEF KnowsInv
<1>6. CASE UNCHANGED vars
  BY <1>5, <1>6 DEF vars
<1>7. ASSUME NEW d \in Deliveries, RowActs(d) PROVE KnowsInv'
  BY <1>1, <1>5, <1>7, RowActFacts
<1>8. ASSUME NEW d \in Runs, LiveActs(d) PROVE KnowsInv'
  BY <1>1, <1>5, <1>8, LiveActFacts
<1>9. ASSUME NEW p \in Pollers, DrainActs(p) PROVE KnowsInv'
  <2>1. OwnStep(p)
    BY <1>1, <1>9, DrainActFacts DEF DrainStep
  <2>2. TryStep(p) /\ KnowStep(p) /\ AloneStep(p)
    BY <2>1 DEF OwnStep
  <2>3. Len(tracker[p].dead) < MaxTracked
    BY DEF Roomy
  <2>4. ASSUME NEW d \in Deliveries, d \in wrote'[p], row'[d].st = "pending"
        PROVE  Knows(tracker'[p], d) /\ ~Tries(job'[p], d)
    <3>1. Knows(tracker'[p], d)
      BY <1>4, <2>2, <2>3, <2>4 DEF KnowStep
    <3>2. ASSUME Tries(job'[p], d) PROVE FALSE
      <4>1. d \in wrote[p]
        BY <2>2, <2>4, <3>2 DEF TryStep
      <4>2. Knows(tracker[p], d) /\ ~Tries(job[p], d)
        BY <1>4, <2>4, <4>1
      <4>3. ~PassesOver(p, d) /\ ~Contains(tracker[p].posted, d)
        BY <2>2, <3>2, <4>2 DEF TryStep
      <4>4. ~Contains(tracker[p].dead, d)
        BY <4>3 DEF PassesOver, GivenUp
      <4>5. QED  BY <4>2, <4>3, <4>4 DEF Knows
    <3>3. QED  BY <3>1, <3>2
  <2>5. \A q \in Pollers \ {p}, d \in Deliveries :
          d \in wrote'[q] /\ row'[d].st = "pending" => Knows(tracker'[q], d) /\ ~Tries(job'[q], d)
    BY <1>4, <2>2 DEF AloneStep
  <2>6. QED  BY <2>4, <2>5 DEF KnowsInv
<1>10. QED  BY <1>6, <1>7, <1>8, <1>9, Steps

\* As long as no process has given up on MaxTracked deliveries, no process sets
\* out again to post what it knows it posted.
THEOREM PostsOnce == Spec /\ []Roomy => []NeverPostsAgain
<1>1. Init => KnowsInv
  BY DEF Init, KnowsInv
<1>2. Typed /\ HeldInv /\ Roomy /\ KnowsInv /\ [Next]_vars => KnowsInv'
  BY NextKnows
<1>3. KnowsInv => NeverPostsAgain
  BY DEF KnowsInv, NeverPostsAgain, Trying, Tries
<1>4. QED  BY <1>1, <1>2, <1>3, AlwaysTyped, AlwaysHeld, PTL DEF Spec
=============================================================================
