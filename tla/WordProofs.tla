----------------------------- MODULE WordProofs -----------------------------
(***************************************************************************)
(* Theorems about what reaches an agent of what happened outside its turn: *)
(* the answers to its asks for a credential (KeychainAsks) and the output  *)
(* of a job that it watches (MonitorPoller).                               *)
(*                                                                         *)
(* Asks.  An ask is marked told only after its turn ended well, the plain  *)
(* message was enqueued or found nowhere to go, or the ask was adopted:    *)
(* ToldInv carries, for every fire, what it has established when it comes  *)
(* to the mark.                                                            *)
(*                                                                         *)
(* Watches.  As long as no pass is cut off after its fire, only the holder *)
(* of the lease makes a pass, so the monitor does not move under it; the   *)
(* invariant MonInv says of the monitor, of that pass and of every key     *)
(* what of the output was told (one key per piece, everything up to the    *)
(* held-back beginning of a line).                                         *)
(***************************************************************************)
EXTENDS SignalProofs, MCSignals, FiniteSetTheorems, WellFoundedInduction

-----------------------------------------------------------------------------
(***************************************************************************)
(* The asks for a credential.                                              *)
(***************************************************************************)
Answer == [at : {"idle", "expire", "merge", "over", "refused", "dead"}, of : Asks, on : Cores,
           kind : OwnerAnswers]

Fire == [at : {"idle", "once", "look", "wait", "check", "fallback", "mark"}, key : AskKeys]

AskRow == [st : Statuses, told : BOOLEAN]

LEMMA NoFireType == NoFire \in Fire /\ NoFire.at = "idle"
<1>1. PICK a : a \in Asks
  BY AsksAssumption
<1>2. <<a, "expired">> \in AskKeys
  BY <1>1 DEF AskKeys, Resolved
<1>3. (CHOOSE k \in AskKeys : TRUE) \in AskKeys
  BY <1>2
<1>4. QED  BY <1>3 DEF NoFire, Fire

LEMMA NoAnswerType == \A p \in Cores : NoAnswer(p) \in Answer
<1>1. (CHOOSE a \in Asks : TRUE) \in Asks
  BY AsksAssumption
<1>2. QED  BY <1>1 DEF NoAnswer, Answer, OwnerAnswers

LEMMA AskInitType == AskInit => AskTypeOK
<1>. SUFFICES ASSUME AskInit PROVE AskTypeOK
  OBVIOUS
<1>1. ask \in [Asks -> [st : Statuses, told : BOOLEAN]]
  BY DEF AskInit, Statuses
<1>2. answer \in [Callers -> Answer]
  <2>1. PICK home \in [Callers -> Cores] : answer = [c \in Callers |-> NoAnswer(home[c])]
    BY DEF AskInit
  <2>2. QED  BY <2>1, NoAnswerType
<1>3. fire \in [Firers -> Fire]
  BY NoFireType DEF AskInit
<1>4. /\ sweep \in [Cores -> [Asks -> {"none", "late"} \cup Resolved]]
      /\ askRun \in [AskKeys -> {"none", "running", "ok", "failed"}]
  BY DEF AskInit
<1>5. doneKeys \cup fallback \subseteq AskKeys /\ unreached \subseteq Asks /\ askFaults \in 0 .. MaxAskFaults
  BY AsksAssumption DEF AskInit
<1>6. QED  BY <1>1, <1>2, <1>3, <1>4, <1>5 DEF AskTypeOK, Answer, Fire

\* One more fault is within the bound.
LEMMA AskFaultType ==
    ASSUME askFaults \in 0 .. MaxAskFaults, AskFault
    PROVE  askFaults' \in 0 .. MaxAskFaults
BY AsksAssumption DEF AskFault

\* What the store, a call and a fire are set to.
LEMMA AskUpdates ==
    ASSUME ask \in [Asks -> AskRow], NEW a \in Asks
    PROVE  /\ \A st \in Statuses : /\ Merged(a, st) \in [Asks -> AskRow]
                                   /\ [Merged(a, st) EXCEPT ![a].told = TRUE] \in [Asks -> AskRow]
           /\ Told(a) \in [Asks -> AskRow]
<1>1. \A st \in Statuses : Merged(a, st) \in [Asks -> AskRow]
  BY DEF Merged, AskRow
<1>2. \A f \in [Asks -> AskRow] : [f EXCEPT ![a].told = TRUE] \in [Asks -> AskRow]
  BY DEF AskRow
<1>3. QED  BY <1>1, <1>2 DEF Told

LEMMA FireUpdates ==
    ASSUME fire \in [Firers -> Fire], NEW f \in Firers,
           NEW at \in {"idle", "once", "look", "wait", "check", "fallback", "mark"}
    PROVE  /\ Goes(f, at) => fire' \in [Firers -> Fire]
           /\ fire' = [fire EXCEPT ![f] = NoFire] => fire' \in [Firers -> Fire]
           /\ \A k \in AskKeys : fire' = [fire EXCEPT ![f] = [at |-> at, key |-> k]]
                                 => fire' \in [Firers -> Fire]
<1>1. Goes(f, at) => fire' \in [Firers -> Fire]
  BY DEF Goes, Fire
<1>2. fire' = [fire EXCEPT ![f] = NoFire] => fire' \in [Firers -> Fire]
  BY NoFireType
<1>3. \A k \in AskKeys : [at |-> at, key |-> k] \in Fire
  BY DEF Fire
<1>4. QED  BY <1>1, <1>2, <1>3

LEMMA OverType ==
    ASSUME answer \in [Callers -> Answer], NEW c \in Callers
    PROVE  \A at \in {"over", "refused"} : [answer EXCEPT ![c].at = at] \in [Callers -> Answer]
BY DEF Answer

LEMMA MergeType ==
    ASSUME ask \in [Asks -> AskRow], fire \in [Firers -> Fire], answer \in [Callers -> Answer],
           NEW c \in Callers, AnswerMerges(c)
    PROVE  ask' \in [Asks -> AskRow] /\ fire' \in [Firers -> Fire]
<1>. DEFINE a == answer[c].of
            st == StatusOf(answer[c].kind)
<1>1. a \in Asks /\ st \in Resolved /\ c \in Firers
  BY DEF Answer, OwnerAnswers, StatusOf, Resolved, Firers
<1>2. Resolved \subseteq Statuses
  BY DEF Resolved, Statuses
<1>3. <<a, st>> \in AskKeys
  BY <1>1 DEF AskKeys
<1>4. /\ ask' = [Merged(a, st) EXCEPT ![a].told = TRUE] \/ ask' = Merged(a, st)
      /\ fire' = fire \/ fire' = [fire EXCEPT ![c] = [at |-> "once", key |-> <<a, st>>]]
  BY DEF AnswerMerges
<1>. HIDE DEF a, st
<1>5. ask' \in [Asks -> AskRow]
  <2>1. st \in Statuses
    BY <1>1, <1>2
  <2>2. /\ Merged(a, st) \in [Asks -> AskRow]
        /\ [Merged(a, st) EXCEPT ![a].told = TRUE] \in [Asks -> AskRow]
    BY <1>1, <2>1, AskUpdates
  <2>3. QED  BY <1>4, <2>2
<1>6. [at |-> "once", key |-> <<a, st>>] \in Fire
  BY <1>3 DEF Fire
<1>7. fire' \in [Firers -> Fire]
  BY <1>4, <1>6, <1>1
<1>8. QED  BY <1>5, <1>7

LEMMA AskStepType == AskTypeOK /\ [AskNext]_askVars => AskTypeOK'
<1>. SUFFICES ASSUME AskTypeOK, [AskNext]_askVars PROVE AskTypeOK'
  OBVIOUS
<1>. /\ ask \in [Asks -> AskRow] /\ answer \in [Callers -> Answer] /\ fire \in [Firers -> Fire]
     /\ sweep \in [Cores -> [Asks -> {"none", "late"} \cup Resolved]]
     /\ askRun \in [AskKeys -> {"none", "running", "ok", "failed"}]
     /\ doneKeys \subseteq AskKeys /\ fallback \subseteq AskKeys /\ unreached \subseteq Asks
     /\ askFaults \in 0 .. MaxAskFaults
     /\ Callers \subseteq Firers /\ Cores \subseteq Firers
  BY DEF AskTypeOK, AskRow, Answer, Fire, Firers
<1>. DEFINE T == /\ ask' \in [Asks -> AskRow] /\ answer' \in [Callers -> Answer]
                 /\ fire' \in [Firers -> Fire]
                 /\ sweep' \in [Cores -> [Asks -> {"none", "late"} \cup Resolved]]
                 /\ askRun' \in [AskKeys -> {"none", "running", "ok", "failed"}]
                 /\ doneKeys' \subseteq AskKeys /\ fallback' \subseteq AskKeys /\ unreached' \subseteq Asks
                 /\ askFaults' \in 0 .. MaxAskFaults
<1>. SUFFICES T
  BY DEF AskTypeOK, AskRow, Answer, Fire
<1>0. /\ Resolved \subseteq Statuses /\ "pending" \in Statuses /\ "late" \in Statuses
      /\ "gone" \in Statuses /\ "expired" \in Resolved
      /\ \A kind \in OwnerAnswers : StatusOf(kind) \in Resolved
      /\ \A f \in Firers : fire[f].key \in AskKeys /\ fire[f].key[1] \in Asks
      /\ \A c \in Callers : answer[c].of \in Asks /\ answer[c].kind \in OwnerAnswers
  BY DEF Statuses, Resolved, StatusOf, OwnerAnswers, Fire, AskKeys, Answer
<1>1. ASSUME NEW a \in Asks, Creates(a) \/ ExpiryPasses(a) \/ Prunes(a) PROVE T
  <2>1. PICK st \in Statuses : ask' = [ask EXCEPT ![a].st = st]
    BY <1>1, <1>0 DEF Creates, ExpiryPasses, Prunes
  <2>0. ask' \in [Asks -> AskRow]
    BY <2>1, AskUpdates DEF Merged
  <2>2. QED  BY <1>1, <2>0 DEF Creates, ExpiryPasses, Prunes
<1>2. ASSUME NEW c \in Callers, AnswerExpires(c) \/ AnswerMerges(c) PROVE T
  <2>1. \E at \in {"over", "refused"} : answer' = [answer EXCEPT ![c].at = at]
    BY <1>2 DEF AnswerExpires, AnswerMerges
  <2>2. answer' \in [Callers -> Answer]
    <3>1. PICK at \in {"over", "refused"} : answer' = [answer EXCEPT ![c].at = at]
      BY <2>1
    <3>2. QED  BY <3>1, OverType
  <2>3. CASE AnswerExpires(c)
    BY <2>2, <2>3, <1>0, AskUpdates DEF AnswerExpires
  <2>4. CASE AnswerMerges(c)
    BY <2>2, <2>4, MergeType DEF AnswerMerges
  <2>5. QED  BY <1>2, <2>3, <2>4
<1>3. ASSUME NEW c \in Callers, NEW a \in Asks, NEW kind \in AskAnswers, AnswerReads(c, a, kind)
      PROVE  T
  <2>1. kind \in OwnerAnswers
    BY AsksAssumption
  <2>2. answer' \in [Callers -> Answer]
    <3>1. answer[c] \in Answer
      OBVIOUS
    <3>2. \A at \in {"expire", "merge"} :
            [answer[c] EXCEPT !.at = at, !.kind = kind, !.of = a] \in Answer
      BY <2>1, <3>1 DEF Answer
    <3>3. QED  BY <1>3, <3>2 DEF AnswerReads
  <2>3. QED  BY <1>3, <2>2 DEF AnswerReads
<1>4. ASSUME NEW p \in Cores, SweepLists(p) PROVE T
  <2>1. \A a \in Asks : Due(a) \in {"none", "late"} \cup Resolved
    BY DEF Due
  <2>2. [a \in Asks |-> Due(a)] \in [Asks -> {"none", "late"} \cup Resolved]
    BY <2>1
  <2>3. QED  BY <1>4, <2>2 DEF SweepLists
<1>5. ASSUME NEW p \in Cores, NEW a \in Asks, SweepExpires(p, a) PROVE T
  <2>1. sweep' \in [Cores -> [Asks -> {"none", "late"} \cup Resolved]]
    BY <1>5, <1>0 DEF SweepExpires
  <2>2. QED  BY <1>5, <2>1, <1>0, AskUpdates DEF SweepExpires
<1>6. ASSUME NEW p \in Cores, NEW a \in Asks, SweepFires(p, a) PROVE T
  <2>1. sweep' \in [Cores -> [Asks -> {"none", "late"} \cup Resolved]]
    BY <1>6 DEF SweepFires
  <2>2. <<a, sweep[p][a]>> \in AskKeys
    BY <1>6 DEF SweepFires, AskKeys
  <2>3. fire' \in [Firers -> Fire]
    BY <1>6, <2>2, FireUpdates DEF SweepFires
  <2>4. QED  BY <1>6, <2>1, <2>3 DEF SweepFires
<1>7. ASSUME NEW p \in Cores, CoreDies(p) PROVE T
  <2>1. answer' \in [Callers -> Answer]
    <3>1. \A c \in Callers : [answer[c] EXCEPT !.at = "dead"] \in Answer
      BY DEF Answer
    <3>2. QED  BY <1>7, <3>1 DEF CoreDies
  <2>2. fire' \in [Firers -> Fire]
    BY <1>7, NoFireType DEF CoreDies
  <2>3. sweep' \in [Cores -> [Asks -> {"none", "late"} \cup Resolved]]
    BY <1>7 DEF CoreDies
  <2>4. QED  BY <1>7, <2>1, <2>2, <2>3, AskFaultType DEF CoreDies
<1>8. ASSUME NEW f \in Firers, FireSteps(f) \/ FireDenied(f) \/ FireBarred(f) \/ FireThrows(f) PROVE T
  <2>1. CASE FireOnce(f) \/ FireChecks(f)
    <3>1. \E at \in {"check", "look", "mark", "fallback"} : Goes(f, at)
      BY <2>1 DEF FireOnce, FireChecks
    <3>2. QED  BY <2>1, <3>1, FireUpdates DEF FireOnce, FireChecks
  <2>2. CASE FireDenied(f)
    BY <2>2, FireUpdates, AskFaultType DEF FireDenied
  <2>9. CASE FireBarred(f)
    BY <2>9, <1>0, FireUpdates, AskFaultType DEF FireBarred
  <2>3. CASE FireThrows(f)
    BY <2>3, FireUpdates, AskFaultType DEF FireThrows
  <2>4. CASE FireLooks(f)
    <3>1. askRun' \in [AskKeys -> {"none", "running", "ok", "failed"}]
      BY <2>4, <1>0 DEF FireLooks
    <3>2. fire' \in [Firers -> Fire]
      BY <2>4, FireUpdates DEF FireLooks
    <3>3. QED  BY <2>4, <3>1, <3>2 DEF FireLooks
  <2>5. CASE FireReturns(f)
    <3>1. AfterRun(askRun[fire[f].key]) \in {"mark", "fallback"}
      BY DEF AfterRun
    <3>2. fire' \in [Firers -> Fire]
      BY <2>5, <3>1, FireUpdates DEF FireReturns
    <3>3. QED  BY <2>5, <3>2, <1>0 DEF FireReturns
  <2>6. CASE FallsBack(f)
    BY <2>6, <1>0, FireUpdates DEF FallsBack
  <2>7. CASE Marks(f)
    BY <2>7, <1>0, FireUpdates, AskUpdates DEF Marks
  <2>8. QED  BY <1>8, <2>1, <2>2, <2>3, <2>4, <2>5, <2>6, <2>7, <2>9 DEF FireSteps
<1>9. ASSUME NEW k \in AskKeys, AskRunEnds(k) PROVE T
  BY <1>9 DEF AskRunEnds
<1>10. CASE UNCHANGED askVars
  BY <1>10 DEF askVars
<1>11. QED
  BY <1>1, <1>2, <1>3, <1>4, <1>5, <1>6, <1>7, <1>8, <1>9, <1>10 DEF AskNext, SweepSteps

\* The asks, calls, sweeps and fires keep their shape, whatever fails.
THEOREM AskTypeCorrect == AskSpec => []AskTypeOK
BY AskInitType, AskStepType, PTL DEF AskSpec

\* The turn ended well, the plain message was sent or had nowhere to go, or the asker's
\* own room adopted the ask.
WasTold(a) == \/ \E st \in Resolved : askRun[<<a, st>>] = "ok" \/ <<a, st>> \in fallback
              \/ a \in unreached
              \/ \E c \in Callers : Adopts(c, a)

\* A fire that is about to mark an ask has done what it can to tell, or has seen it marked.
ToldInv == /\ NotifiedWasTold
           /\ \A f \in Firers : fire[f].at = "mark" => WasTold(fire[f].key[1])

\* Runs that ended well, plain messages, sent or not, and adoptions stay.
LEMMA ToldStays ==
    ASSUME AskTypeOK, [AskNext]_askVars, NEW a \in Asks, WasTold(a)
    PROVE  WasTold(a)'
<1>. /\ answer \in [Callers -> Answer]
     /\ askRun \in [AskKeys -> {"none", "running", "ok", "failed"}]
  BY DEF AskTypeOK, Answer
<1>1. \A k \in AskKeys : askRun[k] = "ok" => askRun'[k] = "ok"
  BY DEF AskNext, askVars, Creates, ExpiryPasses, Prunes, AnswerExpires, AnswerMerges, AnswerReads,
         SweepSteps, SweepLists, SweepExpires, SweepFires, CoreDies, FireSteps, FireOnce, FireLooks,
         FireReturns, FireChecks, FallsBack, Marks, FireDenied, FireBarred, FireThrows, AskRunEnds
<1>2. fallback \subseteq fallback' /\ unreached \subseteq unreached'
  BY DEF AskNext, askVars, Creates, ExpiryPasses, Prunes, AnswerExpires, AnswerMerges, AnswerReads,
         SweepSteps, SweepLists, SweepExpires, SweepFires, CoreDies, FireSteps, FireOnce, FireLooks,
         FireReturns, FireChecks, FallsBack, Marks, FireDenied, FireBarred, FireThrows, AskRunEnds
<1>3. \A c \in Callers : answer[c].at = "over" => answer'[c] = answer[c]
  BY DEF AskNext, askVars, Creates, ExpiryPasses, Prunes, AnswerExpires, AnswerMerges, AnswerReads,
         SweepSteps, SweepLists, SweepExpires, SweepFires, CoreDies, FireSteps, FireOnce, FireLooks,
         FireReturns, FireChecks, FallsBack, Marks, FireDenied, FireBarred, FireThrows, AskRunEnds
<1>4. \A st \in Resolved : <<a, st>> \in AskKeys
  BY DEF AskKeys
<1>5. QED  BY <1>1, <1>2, <1>3, <1>4 DEF WasTold, Adopts

\* What a fire comes to when it is about to mark its ask.
LEMMA MarksWhatWasTold ==
    ASSUME AskTypeOK, ToldInv, AskNext, NEW f \in Firers, fire'[f].at = "mark"
    PROVE  WasTold(fire[f].key[1])'
<1>. /\ answer \in [Callers -> Answer] /\ fire \in [Firers -> Fire]
     /\ Callers \subseteq Firers /\ Cores \subseteq Firers
  BY DEF AskTypeOK, Answer, Fire, Firers
<1>. NoFire.at = "idle"
  BY DEF NoFire
<1>1. PICK k \in AskKeys : k = fire[f].key
  BY DEF Fire
<1>2. PICK a \in Asks, st \in Resolved : k = <<a, st>>
  BY DEF AskKeys
<1>3. fire[f].key[1] = a
  BY <1>1, <1>2
<1>4. fire'[f].key = fire[f].key
      /\ \/ fire[f].at = "mark"
         \/ FireChecks(f) \/ FireReturns(f) \/ FallsBack(f)
  <2>1. CASE fire' = fire
    BY <2>1
  <2>2. CASE \E g \in Firers, k2 \in AskKeys : fire' = [fire EXCEPT ![g] = [at |-> "once", key |-> k2]]
    BY <2>2
  <2>3. CASE \E g \in Firers : fire' = [fire EXCEPT ![g] = NoFire]
    BY <2>3
  <2>4. CASE \E p \in Cores : CoreDies(p)
    BY <2>4 DEF CoreDies
  <2>5. CASE \E g \in Firers : FireOnce(g) \/ FireLooks(g) \/ FireDenied(g) \/ FireBarred(g)
    BY <2>5 DEF FireOnce, FireLooks, FireDenied, FireBarred, Goes, Fire
  <2>6. CASE \E g \in Firers : FireChecks(g) \/ FireReturns(g) \/ FallsBack(g)
    BY <2>6 DEF FireChecks, FireReturns, FallsBack, Goes, Fire
  <2>7. ASSUME NEW c \in Callers, AnswerMerges(c)
        PROVE  \/ fire' = fire
               \/ \E g \in Firers, k2 \in AskKeys : fire' = [fire EXCEPT ![g] = [at |-> "once", key |-> k2]]
    <3>1. <<answer[c].of, StatusOf(answer[c].kind)>> \in AskKeys
      BY DEF AskKeys, Answer, OwnerAnswers, StatusOf, Resolved
    <3>2. QED  BY <2>7, <3>1 DEF AnswerMerges
  <2>8. ASSUME NEW p \in Cores, NEW b \in Asks, SweepFires(p, b)
        PROVE  \E g \in Firers, k2 \in AskKeys : fire' = [fire EXCEPT ![g] = [at |-> "once", key |-> k2]]
    <3>1. <<b, sweep[p][b]>> \in AskKeys
      BY <2>8 DEF AskKeys, SweepFires
    <3>2. QED  BY <2>8, <3>1 DEF SweepFires
  <2>9. \/ fire' = fire
        \/ \E c \in Callers : AnswerMerges(c)
        \/ \E p \in Cores, b \in Asks : SweepFires(p, b)
        \/ \E p \in Cores : CoreDies(p)
        \/ \E g \in Firers : fire' = [fire EXCEPT ![g] = NoFire]
        \/ \E g \in Firers : FireOnce(g) \/ FireLooks(g) \/ FireDenied(g) \/ FireBarred(g)
        \/ \E g \in Firers : FireChecks(g) \/ FireReturns(g) \/ FallsBack(g)
    BY DEF AskNext, Creates, ExpiryPasses, Prunes, AnswerExpires, AnswerReads, SweepSteps, SweepLists,
           SweepExpires, FireSteps, Marks, FireThrows, AskRunEnds
  <2>10. QED  BY <2>1, <2>2, <2>3, <2>4, <2>5, <2>6, <2>7, <2>8, <2>9
<1>a. WasTold(a) => WasTold(a)'
  BY ToldStays
<1>b. WasTold(a)' => WasTold(fire[f].key[1])'
  BY <1>4, <1>3
<1>5. CASE fire[f].at = "mark"
  BY <1>5, <1>a, <1>b, <1>3 DEF ToldInv
<1>6. CASE FireChecks(f)
  <2>1. ask[a].told
    BY <1>6, <1>3 DEF FireChecks, Goes, Fire
  <2>2. WasTold(a)
    BY <2>1 DEF ToldInv, NotifiedWasTold, WasTold
  <2>3. QED  BY <2>2, <1>a, <1>b
<1>7. CASE FireReturns(f)
  <2>1. askRun[k] = "ok"
    BY <1>7, <1>1 DEF FireReturns, Goes, Fire, AfterRun
  <2>2. WasTold(a)
    BY <2>1, <1>2 DEF WasTold
  <2>3. QED  BY <2>2, <1>a, <1>b
<1>8. CASE FallsBack(f)
  <2>1. k \in fallback' \/ a \in unreached'
    BY <1>8, <1>1, <1>3 DEF FallsBack
  <2>2. WasTold(a)'
    BY <2>1, <1>2 DEF WasTold
  <2>3. QED  BY <2>2, <1>b
<1>9. QED  BY <1>4, <1>5, <1>6, <1>7, <1>8

\* What is marked by a step was told.
LEMMA ToldWasTold ==
    ASSUME AskTypeOK, ToldInv, AskNext, NEW a \in Asks, ask'[a].told
    PROVE  WasTold(a)'
<1>. /\ ask \in [Asks -> AskRow] /\ answer \in [Callers -> Answer] /\ fire \in [Firers -> Fire]
     /\ Callers \subseteq Firers /\ Cores \subseteq Firers
  BY DEF AskTypeOK, AskRow, Answer, Fire, Firers
<1>1. CASE ask[a].told
  <2>1. WasTold(a)
    BY <1>1 DEF ToldInv, NotifiedWasTold, WasTold
  <2>2. QED  BY <2>1, ToldStays
<1>2. ASSUME NEW f \in Firers, Marks(f), fire[f].key[1] = a PROVE WasTold(a)'
  <2>1. WasTold(a)
    BY <1>2 DEF Marks, ToldInv
  <2>2. QED  BY <2>1, ToldStays
<1>3. ASSUME NEW c \in Callers, AnswerMerges(c), answer[c].kind = "adopted", answer[c].of = a
      PROVE  WasTold(a)'
  <2>1. answer'[c].at = "over" /\ answer'[c].kind = "adopted" /\ answer'[c].of = a
    BY <1>3 DEF AnswerMerges, Answer
  <2>2. QED  BY <2>1 DEF WasTold, Adopts
<1>4. \/ ask[a].told
      \/ \E f \in Firers : Marks(f) /\ fire[f].key[1] = a
      \/ \E c \in Callers : AnswerMerges(c) /\ answer[c].kind = "adopted" /\ answer[c].of = a
  <2>1. ASSUME NEW b \in Asks, Creates(b) \/ ExpiryPasses(b) \/ Prunes(b) PROVE ask[a].told
    BY <2>1 DEF Creates, ExpiryPasses, Prunes, AskRow
  <2>2. ASSUME NEW c \in Callers, AnswerExpires(c) PROVE ask[a].told
    BY <2>2 DEF AnswerExpires, Merged, AskRow
  <2>3. ASSUME NEW p \in Cores, NEW b \in Asks, SweepExpires(p, b) PROVE ask[a].told
    BY <2>3 DEF SweepExpires, Merged, AskRow
  <2>4. ASSUME NEW f \in Firers, Marks(f) PROVE ask[a].told \/ fire[f].key[1] = a
    BY <2>4 DEF Marks, Told, AskRow
  <2>5. ASSUME NEW c \in Callers, AnswerMerges(c)
        PROVE  ask[a].told \/ (answer[c].kind = "adopted" /\ answer[c].of = a)
    <3>1. PICK b \in Asks : b = answer[c].of
      BY DEF Answer
    <3>2. PICK st : st = StatusOf(answer[c].kind)
      OBVIOUS
    <3>3. CASE answer[c].kind = "adopted"
      <4>1. ask' = [Merged(b, st) EXCEPT ![b].told = TRUE]
        BY <2>5, <3>1, <3>2, <3>3 DEF AnswerMerges
      <4>2. a # b => ask'[a] = ask[a]
        BY <4>1 DEF Merged
      <4>3. QED  BY <4>2, <3>1, <3>3
    <3>4. CASE answer[c].kind # "adopted"
      <4>1. ask' = Merged(b, st)
        BY <2>5, <3>1, <3>2, <3>4 DEF AnswerMerges
      <4>2. QED  BY <4>1 DEF Merged, AskRow
    <3>5. QED  BY <3>3, <3>4
  <2>6. ask' = ask => ask[a].told
    OBVIOUS
  <2>7. QED
    BY <2>1, <2>2, <2>3, <2>4, <2>5, <2>6
    DEF AskNext, AnswerReads, SweepSteps, SweepLists, SweepFires, CoreDies, FireSteps, FireOnce, FireLooks,
        FireReturns, FireChecks, FallsBack, FireDenied, FireBarred, FireThrows, AskRunEnds
<1>5. QED  BY <1>1, <1>2, <1>3, <1>4

LEMMA ToldStep == AskTypeOK /\ ToldInv /\ [AskNext]_askVars => ToldInv'
<1>1. CASE UNCHANGED askVars
  BY <1>1 DEF askVars, ToldInv, NotifiedWasTold, WasTold, Adopts
<1>2. ASSUME AskTypeOK, ToldInv, AskNext PROVE ToldInv'
  <2>1. \A a \in Asks : ask'[a].told => WasTold(a)'
    BY <1>2, ToldWasTold
  <2>2. \A f \in Firers : fire'[f].at = "mark" => WasTold(fire[f].key[1])'
    BY <1>2, MarksWhatWasTold
  <2>3. QED  BY <2>1, <2>2 DEF ToldInv, NotifiedWasTold, WasTold
<1>3. QED  BY <1>1, <1>2

\* No crash, exception, late answer or race of the route with the sweep marks an ask
\* before its turn ended well, the plain message was sent or found no destination that the
\* asker may see, or the ask was adopted (fireAskResolution, markAskNotified).
THEOREM NotifiedHeard == AskSpec => []NotifiedWasTold
<1>1. AskInit => ToldInv
  BY NoFireType DEF AskInit, ToldInv, NotifiedWasTold
<1>2. ToldInv => NotifiedWasTold
  BY DEF ToldInv
<1>3. QED  BY <1>1, <1>2, ToldStep, AskTypeCorrect, PTL DEF AskSpec

-----------------------------------------------------------------------------
(***************************************************************************)
(* The watch on a job.                                                     *)
(***************************************************************************)
Proc == [text : [Pieces -> PieceKinds], len : Cursors, at : {"running", "exited", "gone"}]

Mon == [at : {"none", "on", "off", "gone"}, pattern : BOOLEAN, late : BOOLEAN,
        cursor : Cursors, from : Cursors, fired : Nat]

PassAts == {"idle", "listed", "fire", "wait", "after", "skip", "disable"}

Pass == [at : PassAts, cursor : Cursors, from : Cursors, fired : Nat, upto : Cursors,
         tail : Cursors, key : FireKeys \cup {NoKey}]

Text == proc.text

\* The keys of the last update.
LastKeys == {"exit", "expired"}

\* A set of pieces that is not empty has a last one.
LEMMA LastOf ==
    ASSUME NEW S \in SUBSET Pieces, S # {}
    PROVE  \E i \in S : \A j \in S : j <= i
<1>. MaxPieces \in Nat
  BY MonitorAssumption
<1>. DEFINE N == {n \in Nat : \E i \in S : n = MaxPieces - i}
<1>1. N # {}
  <2>1. PICK i \in S : TRUE
    OBVIOUS
  <2>2. MaxPieces - i \in Nat /\ i \in Pieces
    BY <2>1 DEF Pieces
  <2>3. MaxPieces - i \in N
    BY <2>1, <2>2
  <2>4. QED  BY <2>3
<1>2. PICK n \in N : \A m \in N : ~(m < n)
  <2>1. IsWellFoundedOn(OpToRel(<, Nat), Nat)
    BY NatLessThanWellFounded
  <2>2. N \subseteq Nat
    OBVIOUS
  <2>. HIDE DEF N
  <2>3. \E n \in N : \A m \in N : <<m, n>> \notin OpToRel(<, Nat)
    BY <1>1, <2>1, <2>2, WFMin
  <2>4. QED  BY <2>2, <2>3 DEF OpToRel
<1>3. PICK i \in S : n = MaxPieces - i
  OBVIOUS
<1>4. ASSUME NEW j \in S PROVE j <= i
  <2>1. j \in 1 .. MaxPieces /\ i \in 1 .. MaxPieces
    BY DEF Pieces
  <2>2. MaxPieces - j \in N
    BY <2>1
  <2>3. ~(MaxPieces - j < n)
    BY <1>2, <2>2
  <2>. HIDE DEF N
  <2>4. QED  BY <2>1, <2>3, <1>3
<1>5. QED  BY <1>4

\* Where the output that is held back begins.
LEMMA TailFacts ==
    ASSUME Text \in [Pieces -> PieceKinds], mon.pattern \in BOOLEAN,
           NEW m, m.from \in Cursors, NEW u \in Cursors, NEW last \in BOOLEAN,
           NEW t, t = TailFrom(m, u, last)
    PROVE  /\ t \in Cursors
           /\ m.from <= u => m.from <= t /\ t <= u
           /\ last \/ ~mon.pattern => t = u
           /\ t = m.from \/ t = u \/ Text[t] # "half"
           /\ mon.pattern /\ ~last => t = m.from \/ Text[t] # "half"
           /\ \A i \in Pieces : t < i /\ i <= u => Text[i] = "half"
<1>. DEFINE ends == {i \in Raw(m, u) : proc.text[i] # "half"}
<1>. MaxPieces \in Nat /\ \A i \in Pieces : i \in Cursors /\ i \in Nat
  BY MonitorAssumption DEF Pieces, Cursors
<1>. m.from \in Nat /\ u \in Nat
  BY DEF Cursors
<1>1. CASE last \/ ~mon.pattern
  <2>1. t = u
    BY <1>1 DEF TailFrom
  <2>2. QED  BY <1>1, <2>1
<1>2. CASE mon.pattern /\ ~last
  <2>1. t = LastEnd(m, u)
    BY <1>2 DEF TailFrom
  <2>2. CASE ends = {}
    <3>1. t = m.from
      BY <2>1, <2>2 DEF LastEnd
    <3>2. ASSUME NEW i \in Pieces, t < i, i <= u PROVE Text[i] = "half"
      BY <3>1, <3>2, <2>2 DEF Raw, Text
    <3>3. QED  BY <3>1, <3>2, <1>2
  <2>3. CASE ends # {}
    <3>1. ends \in SUBSET Pieces
      BY DEF Raw
    <3>2. \E i \in ends : \A j \in ends : j <= i
      <4>. HIDE DEF ends
      <4>1. QED  BY <2>3, <3>1, LastOf
    <3>3. t = CHOOSE i \in ends : \A j \in ends : j <= i
      BY <2>1, <2>3 DEF LastEnd
    <3>4. t \in ends /\ \A j \in ends : j <= t
      <4>. HIDE DEF ends
      <4>1. QED  BY <3>2, <3>3
    <3>5. t \in Pieces /\ m.from < t /\ t <= u /\ Text[t] # "half"
      BY <3>4 DEF Raw, Text
    <3>6. ASSUME NEW i \in Pieces, t < i, i <= u PROVE Text[i] = "half"
      <4>1. i \notin ends
        BY <3>4, <3>5, <3>6
      <4>2. i \in Raw(m, u)
        BY <3>5, <3>6 DEF Raw
      <4>3. QED  BY <4>1, <4>2 DEF Text
    <3>7. QED  BY <3>5, <3>6, <1>2
  <2>4. QED  BY <2>2, <2>3
<1>3. QED  BY <1>1, <1>2

LEMMA MonShape ==
    MonTypeOK <=> /\ proc \in Proc /\ mon \in Mon /\ lease \in Leaders \cup {NoLeader}
                  /\ pass \in [Leaders -> Pass]
                  /\ woken \subseteq FireKeys /\ kept \subseteq FireKeys
                  /\ told \in [FireKeys -> SUBSET Pieces] /\ cut \in BOOLEAN
                  /\ monFaults \in 0 .. MaxMonFaults
BY DEF MonTypeOK, Proc, Mon, Pass, PassAts

LEMMA NoPassType == NoPass \in Pass /\ NoPass.at = "idle"
<1>1. 0 \in Cursors
  BY MonitorAssumption DEF Cursors
<1>2. QED  BY <1>1 DEF NoPass, Pass, PassAts

Listed(c, d, n) == [NoPass EXCEPT !.at = "listed", !.cursor = c, !.from = d, !.fired = n]

LEMMA ListedType ==
    ASSUME NEW c \in Cursors, NEW d \in Cursors, NEW n \in Nat, NEW q, q = Listed(c, d, n)
    PROVE  q \in Pass /\ q.at = "listed" /\ q.cursor = c /\ q.from = d /\ q.key = NoKey
<1>1. \A r \in Pass :
        LET s == [r EXCEPT !.at = "listed", !.cursor = c, !.from = d, !.fired = n] IN
        s \in Pass /\ s.at = "listed" /\ s.cursor = c /\ s.from = d /\ s.key = r.key
  BY DEF Pass, PassAts
<1>2. NoPass.key = NoKey
  BY DEF NoPass
<1>3. QED  BY <1>1, <1>2, NoPassType DEF Listed

\* The keys of fires are keys.
LEMMA KeysOfFires ==
    /\ \A k \in LastKeys \cup {"lost"} : <<k, 0>> \in FireKeys
    /\ \A c \in Cursors : OutputKey(c) \in FireKeys
    /\ \A n \in Nat : n < MaxFires => <<"quiet", n>> \in FireKeys
BY MonitorAssumption DEF FireKeys, LastKeys, OutputKey

LEMMA MonInitType == MonInit => MonTypeOK
<1>. SUFFICES ASSUME MonInit PROVE MonTypeOK
  OBVIOUS
<1>0. 0 \in Cursors /\ 0 \in 0 .. MaxMonFaults
  BY MonitorAssumption DEF Cursors
<1>1. PICK text \in [Pieces -> PieceKinds], pattern \in BOOLEAN :
        /\ proc = [text |-> text, len |-> 0, at |-> "running"]
        /\ mon = [at |-> "none", pattern |-> pattern, late |-> FALSE, cursor |-> 0, from |-> 0, fired |-> 0]
  BY DEF MonInit
<1>2. proc \in Proc
  BY <1>0, <1>1 DEF Proc
<1>3. mon \in Mon
  BY <1>0, <1>1 DEF Mon
<1>4. pass \in [Leaders -> Pass]
  BY NoPassType DEF MonInit
<1>5. /\ lease \in Leaders \cup {NoLeader} /\ woken \subseteq FireKeys /\ kept \subseteq FireKeys
      /\ told \in [FireKeys -> SUBSET Pieces] /\ cut \in BOOLEAN /\ monFaults \in 0 .. MaxMonFaults
  BY <1>0 DEF MonInit
<1>6. QED  BY <1>2, <1>3, <1>4, <1>5, MonShape

LEMMA MonFaultType ==
    ASSUME monFaults \in 0 .. MaxMonFaults, MonFault PROVE monFaults' \in 0 .. MaxMonFaults
BY MonitorAssumption DEF MonFault

\* What an action makes of the monitor, of the job and of a pass.
LEMMA MonUpdates ==
    ASSUME mon \in Mon, proc \in Proc
    PROVE  /\ Disabled(mon) \in Mon
           /\ \A at \in {"on", "off", "gone"} : [mon EXCEPT !.at = at] \in Mon
           /\ [mon EXCEPT !.late = TRUE] \in Mon
           /\ \A c \in Cursors, d \in Cursors, n \in Nat :
                [mon EXCEPT !.cursor = c, !.from = d, !.fired = n] \in Mon
           /\ proc.len < MaxPieces => [proc EXCEPT !.len = @ + 1] \in Proc
           /\ \A at \in {"exited", "gone"} : [proc EXCEPT !.at = at] \in Proc
<1>1. \A at \in {"on", "off", "gone"} : [mon EXCEPT !.at = at] \in Mon
  BY DEF Mon
<1>2. Disabled(mon) \in Mon
  BY <1>1 DEF Disabled
<1>3. [mon EXCEPT !.late = TRUE] \in Mon
  BY DEF Mon
<1>4. \A c \in Cursors, d \in Cursors, n \in Nat : [mon EXCEPT !.cursor = c, !.from = d, !.fired = n] \in Mon
  BY DEF Mon
<1>5. proc.len < MaxPieces => [proc EXCEPT !.len = @ + 1] \in Proc
  BY MonitorAssumption DEF Proc, Cursors
<1>6. \A at \in {"exited", "gone"} : [proc EXCEPT !.at = at] \in Proc
  BY DEF Proc
<1>7. QED  BY <1>1, <1>2, <1>3, <1>4, <1>5, <1>6

LEMMA PassUpdates ==
    ASSUME NEW q \in Pass
    PROVE  /\ \A at \in PassAts : [q EXCEPT !.at = at] \in Pass
           /\ \A u \in Cursors, t \in Cursors : [q EXCEPT !.at = "skip", !.upto = u, !.tail = t] \in Pass
           /\ \A u \in Cursors, t \in Cursors, k \in FireKeys :
                [q EXCEPT !.at = "fire", !.key = k, !.upto = u, !.tail = t] \in Pass
<1>1. \A at \in PassAts : [q EXCEPT !.at = at] \in Pass
  BY DEF Pass
<1>2. \A u \in Cursors, t \in Cursors : [q EXCEPT !.at = "skip", !.upto = u, !.tail = t] \in Pass
  BY DEF Pass, PassAts
<1>3. \A u \in Cursors, t \in Cursors, k \in FireKeys :
        [q EXCEPT !.at = "fire", !.key = k, !.upto = u, !.tail = t] \in Pass
  BY DEF Pass, PassAts
<1>4. QED  BY <1>1, <1>2, <1>3

\* What a pass is told when it fires: the last update also tells what was held back.
IsLast(k) == k[1] \in LastKeys \cup {"lost"}

\* A pass that has read fires under one of these keys.
FiresFor(p, k, t) ==
    /\ t = TailFrom(pass[p], proc.len, IsLast(k))
    /\ \/ IsLast(k)
       \/ k = OutputKey(pass[p].cursor) /\ Events(pass[p], proc.len, FALSE) # {}
       \/ k[1] = "quiet" /\ Events(pass[p], proc.len, FALSE) = {}

LEMMA ReadsOutcome ==
    ASSUME MonTypeOK, NEW p \in Leaders, PassReads(p)
    PROVE  /\ proc' = proc /\ mon' = mon /\ woken' = woken /\ told' = told /\ kept' = kept
           /\ cut' = cut /\ monFaults' = monFaults /\ pass[p].at = "listed"
           /\ \/ Ends(p)
              \/ /\ lease' = lease
                 /\ \E k \in FireKeys, t \in Cursors :
                      /\ FiresFor(p, k, t)
                      /\ pass' = [pass EXCEPT ![p] = [pass[p] EXCEPT !.at = "fire", !.key = k, !.upto = proc.len, !.tail = t]]
              \/ /\ lease' = lease
                 /\ Events(pass[p], proc.len, FALSE) = {}
                 /\ \E t \in Cursors :
                      /\ t = TailFrom(pass[p], proc.len, FALSE)
                      /\ pass' = [pass EXCEPT ![p] = [pass[p] EXCEPT !.at = "skip", !.upto = proc.len, !.tail = t]]
<1>. pass \in [Leaders -> Pass] /\ proc \in Proc /\ mon \in Mon
  BY MonShape
<1>. PICK q \in Pass : q = pass[p]
  OBVIOUS
<1>. PICK u \in Cursors : u = proc.len
  BY DEF Proc
<1>1. \A last \in BOOLEAN : TailFrom(q, u, last) \in Cursors
  <2>1. Text \in [Pieces -> PieceKinds] /\ mon.pattern \in BOOLEAN /\ q.from \in Cursors
    BY DEF Text, Proc, Mon, Pass
  <2>2. QED  BY <2>1, TailFacts
<1>2. ASSUME NEW k \in FireKeys, NEW last \in BOOLEAN, Fires(p, k, last)
      PROVE  \E t \in Cursors :
               /\ t = TailFrom(pass[p], proc.len, last)
               /\ pass' = [pass EXCEPT ![p] = [pass[p] EXCEPT !.at = "fire", !.key = k, !.upto = proc.len, !.tail = t]]
  <2>1. PICK t \in Cursors : t = TailFrom(q, u, last)
    BY <1>1
  <2>2. pass' = [pass EXCEPT ![p].at = "fire", ![p].key = k, ![p].upto = u, ![p].tail = t]
    BY <1>2, <2>1 DEF Fires
  <2>3. QED  BY <2>1, <2>2
<1>3. UNCHANGED <<proc, mon, woken, told, kept, cut, monFaults>> /\ pass[p].at = "listed"
  BY DEF PassReads
<1>. DEFINE exited == proc.at = "exited"
            last == exited \/ mon.late
            key == IF exited THEN <<"exit", 0>> ELSE IF mon.late THEN <<"expired", 0>> ELSE OutputKey(pass[p].cursor)
            events == Events(pass[p], proc.len, last)
            Goal == \/ Ends(p)
                    \/ /\ lease' = lease
                       /\ \E k \in FireKeys, t \in Cursors :
                            /\ FiresFor(p, k, t)
                            /\ pass' = [pass EXCEPT ![p] = [pass[p] EXCEPT !.at = "fire", !.key = k, !.upto = proc.len, !.tail = t]]
                    \/ /\ lease' = lease
                       /\ Events(pass[p], proc.len, FALSE) = {}
                       /\ \E t \in Cursors :
                            /\ t = TailFrom(pass[p], proc.len, FALSE)
                            /\ pass' = [pass EXCEPT ![p] = [pass[p] EXCEPT !.at = "skip", !.upto = proc.len, !.tail = t]]
<1>4. ASSUME Fires(p, <<"lost", 0>>, TRUE), lease' = lease PROVE Goal
  <2>1. <<"lost", 0>> \in FireKeys /\ IsLast(<<"lost", 0>>) = TRUE
    BY KeysOfFires DEF IsLast
  <2>2. QED  BY <1>2, <1>4, <2>1 DEF FiresFor
<1>5. ASSUME events # {} \/ last, Fires(p, key, last), lease' = lease PROVE Goal
  <2>1. key \in FireKeys /\ IsLast(key) = last /\ (~last => key = OutputKey(pass[p].cursor))
    BY KeysOfFires DEF IsLast, OutputKey, LastKeys, Pass, Mon
  <2>2. FiresFor(p, key, TailFrom(pass[p], proc.len, last))
    BY <1>5, <2>1 DEF FiresFor
  <2>3. last \in BOOLEAN
    BY DEF Mon
  <2>. HIDE DEF key, last
  <2>4. PICK t \in Cursors : /\ t = TailFrom(pass[p], proc.len, last)
                             /\ pass' = [pass EXCEPT ![p] = [pass[p] EXCEPT !.at = "fire", !.key = key,
                                                                          !.upto = proc.len, !.tail = t]]
    BY <1>2, <1>5, <2>1, <2>3
  <2>5. PICK k \in FireKeys : k = key
    BY <2>1
  <2>6. FiresFor(p, k, t)
    BY <2>2, <2>4, <2>5
  <2>7. QED  BY <1>5, <2>4, <2>5, <2>6
<1>6. ASSUME events = {}, ~last, pass[p].fired < MaxFires, Fires(p, <<"quiet", pass[p].fired>>, FALSE), lease' = lease
      PROVE  Goal
  <2>1. <<"quiet", pass[p].fired>> \in FireKeys /\ IsLast(<<"quiet", pass[p].fired>>) = FALSE
    BY <1>6, KeysOfFires DEF IsLast, LastKeys, Pass
  <2>2. FiresFor(p, <<"quiet", pass[p].fired>>, TailFrom(pass[p], proc.len, FALSE))
    BY <1>6, <2>1 DEF FiresFor
  <2>3. PICK k \in FireKeys : k = <<"quiet", pass[p].fired>>
    BY <2>1
  <2>4. PICK t \in Cursors : /\ t = TailFrom(pass[p], proc.len, FALSE)
                             /\ pass' = [pass EXCEPT ![p] = [pass[p] EXCEPT !.at = "fire", !.key = k,
                                                                          !.upto = proc.len, !.tail = t]]
    BY <1>2, <1>6, <2>3
  <2>5. FiresFor(p, k, t)
    BY <2>2, <2>3, <2>4
  <2>6. QED  BY <1>6, <2>4, <2>5
<1>7. ASSUME events = {}, ~last, lease' = lease,
             pass' = [pass EXCEPT ![p].at = "skip", ![p].upto = proc.len, ![p].tail = TailFrom(pass[p], proc.len, FALSE)]
      PROVE  Goal
  <2>1. PICK t \in Cursors : t = TailFrom(q, u, FALSE)
    BY <1>1
  <2>2. pass' = [pass EXCEPT ![p].at = "skip", ![p].upto = u, ![p].tail = t]
    BY <1>7, <2>1
  <2>3. pass' = [pass EXCEPT ![p] = [pass[p] EXCEPT !.at = "skip", !.upto = u, !.tail = t]]
    BY <2>2
  <2>4. QED  BY <1>7, <2>1, <2>3
<1>8. \/ Ends(p)
      \/ Fires(p, <<"lost", 0>>, TRUE) /\ lease' = lease
      \/ (events # {} \/ last) /\ Fires(p, key, last) /\ lease' = lease
      \/ events = {} /\ ~last /\ pass[p].fired < MaxFires /\ Fires(p, <<"quiet", pass[p].fired>>, FALSE) /\ lease' = lease
      \/ /\ events = {} /\ ~last /\ lease' = lease
         /\ pass' = [pass EXCEPT ![p].at = "skip", ![p].upto = proc.len, ![p].tail = TailFrom(pass[p], proc.len, FALSE)]
  BY DEF PassReads
<1>9. Goal
  <2>1. Ends(p) => Goal
    OBVIOUS
  <2>. HIDE DEF Goal, events, key, last
  <2>2. QED  BY <1>4, <1>5, <1>6, <1>7, <1>8, <2>1
<1>10. QED  BY <1>3, <1>9

LEMMA EndsType ==
    ASSUME pass \in [Leaders -> Pass], lease \in Leaders \cup {NoLeader}, NEW p \in Leaders, Ends(p)
    PROVE  pass' \in [Leaders -> Pass] /\ lease' \in Leaders \cup {NoLeader}
BY NoPassType DEF Ends, Released

\* The turn is told what the pass found.
LEMMA InputType == \A p \in Leaders : Input(p) \in SUBSET Pieces
BY DEF Input, Events, Raw

\* A pass that fires or waits has a key.
Keyed == \A p \in Leaders : pass[p].at \in {"fire", "wait", "after"} => pass[p].key \in FireKeys

MonTypes == MonTypeOK /\ Keyed

LEMMA KeyedPass ==
    ASSUME pass \in [Leaders -> Pass], Keyed, NEW p \in Leaders, NEW q \in Pass,
           pass' = [pass EXCEPT ![p] = q], q.at \in {"fire", "wait", "after"} => q.key \in FireKeys
    PROVE  pass' \in [Leaders -> Pass] /\ Keyed'
BY DEF Keyed

LEMMA MonStepType == MonTypes /\ [MonNext]_monVars => MonTypes'
<1>. SUFFICES ASSUME MonTypes, [MonNext]_monVars PROVE MonTypes'
  OBVIOUS
<1>. /\ proc \in Proc /\ mon \in Mon /\ lease \in Leaders \cup {NoLeader} /\ pass \in [Leaders -> Pass]
     /\ woken \subseteq FireKeys /\ kept \subseteq FireKeys /\ told \in [FireKeys -> SUBSET Pieces]
     /\ cut \in BOOLEAN /\ monFaults \in 0 .. MaxMonFaults /\ Keyed /\ MonTypeOK
  BY MonShape DEF MonTypes
<1>. DEFINE T == /\ proc' \in Proc /\ mon' \in Mon /\ lease' \in Leaders \cup {NoLeader}
                 /\ pass' \in [Leaders -> Pass]
                 /\ woken' \subseteq FireKeys /\ kept' \subseteq FireKeys
                 /\ told' \in [FireKeys -> SUBSET Pieces] /\ cut' \in BOOLEAN
                 /\ monFaults' \in 0 .. MaxMonFaults /\ Keyed'
<1>. SUFFICES T
  BY DEF MonTypes, MonTypeOK, Proc, Mon, Pass, PassAts
<1>0. pass' = pass => Keyed'
  BY DEF Keyed
<1>1. CASE Watches \/ Writes \/ Exits \/ IsLost \/ Expires \/ Unwatches
  <2>1. CASE Watches \/ Expires \/ Unwatches
    BY <1>0, <2>1, MonUpdates DEF Watches, Expires, Unwatches
  <2>2. CASE Writes \/ Exits
    BY <1>0, <2>2, MonUpdates DEF Writes, Exits
  <2>3. CASE IsLost
    BY <1>0, <2>3, MonUpdates, MonFaultType DEF IsLost
  <2>4. QED  BY <1>1, <2>1, <2>2, <2>3
<1>2. ASSUME NEW p \in Leaders, PassStarts(p) PROVE T
  <2>1. PICK c \in Cursors, d \in Cursors, n \in Nat : c = mon.cursor /\ d = mon.from /\ n = mon.fired
    BY DEF Mon
  <2>. PICK q : q = Listed(c, d, n)
    OBVIOUS
  <2>2. q \in Pass /\ q.at = "listed"
    BY ListedType
  <2>3. pass' = [pass EXCEPT ![p] = q]
    BY <1>2, <2>1 DEF PassStarts, Listed
  <2>4. pass' \in [Leaders -> Pass] /\ Keyed'
    BY <2>2, <2>3, KeyedPass
  <2>5. QED  BY <1>2, <2>4 DEF PassStarts
<1>e. ASSUME NEW p \in Leaders, Ends(p) PROVE pass' \in [Leaders -> Pass] /\ lease' \in Leaders \cup {NoLeader} /\ Keyed'
  <2>1. Keyed'
    BY <1>e, NoPassType DEF Ends, Keyed
  <2>2. QED  BY <1>e, <2>1, EndsType
<1>3. ASSUME NEW p \in Leaders, PassReads(p) PROVE T
  <2>1. /\ proc' = proc /\ mon' = mon /\ woken' = woken /\ told' = told /\ kept' = kept
        /\ cut' = cut /\ monFaults' = monFaults
    BY <1>3, ReadsOutcome
  <2>2. pass[p] \in Pass /\ proc.len \in Cursors
    BY DEF Proc
  <2>3. pass' \in [Leaders -> Pass] /\ lease' \in Leaders \cup {NoLeader} /\ Keyed'
    <3>1. CASE Ends(p)
      BY <3>1, <1>e
    <3>2. ASSUME NEW k \in FireKeys, NEW t \in Cursors, lease' = lease,
                 pass' = [pass EXCEPT ![p] = [pass[p] EXCEPT !.at = "fire", !.key = k, !.upto = proc.len, !.tail = t]]
          PROVE  pass' \in [Leaders -> Pass] /\ lease' \in Leaders \cup {NoLeader} /\ Keyed'
      <4>. DEFINE q == [pass[p] EXCEPT !.at = "fire", !.key = k, !.upto = proc.len, !.tail = t]
      <4>1. q \in Pass /\ q.key = k
        BY <2>2, PassUpdates DEF Pass
      <4>. HIDE DEF q
      <4>2. QED  BY <3>2, <4>1, KeyedPass DEF q
    <3>3. ASSUME NEW t \in Cursors, lease' = lease,
                 pass' = [pass EXCEPT ![p] = [pass[p] EXCEPT !.at = "skip", !.upto = proc.len, !.tail = t]]
          PROVE  pass' \in [Leaders -> Pass] /\ lease' \in Leaders \cup {NoLeader} /\ Keyed'
      <4>. DEFINE q == [pass[p] EXCEPT !.at = "skip", !.upto = proc.len, !.tail = t]
      <4>1. q \in Pass /\ q.at = "skip"
        BY <2>2, PassUpdates DEF Pass
      <4>. HIDE DEF q
      <4>2. QED  BY <3>3, <4>1, KeyedPass DEF q
    <3>4. \/ Ends(p)
          \/ lease' = lease /\ \E k \in FireKeys, t \in Cursors :
               pass' = [pass EXCEPT ![p] = [pass[p] EXCEPT !.at = "fire", !.key = k, !.upto = proc.len, !.tail = t]]
          \/ lease' = lease /\ \E t \in Cursors :
               pass' = [pass EXCEPT ![p] = [pass[p] EXCEPT !.at = "skip", !.upto = proc.len, !.tail = t]]
      BY <1>3, ReadsOutcome
    <3>5. QED  BY <3>1, <3>2, <3>3, <3>4
  <2>4. QED  BY <2>1, <2>3
<1>4. ASSUME NEW p \in Leaders, PassFires(p) \/ PassCommits(p) PROVE T
  <2>1. pass[p].key \in FireKeys
    BY <1>4 DEF PassFires, PassCommits, Keyed
  <2>2. PICK at \in PassAts : pass' = [pass EXCEPT ![p] = [pass[p] EXCEPT !.at = at]]
    BY <1>4 DEF PassFires, PassCommits, PassAts
  <2>. DEFINE q == [pass[p] EXCEPT !.at = at]
  <2>3. q \in Pass /\ q.key = pass[p].key
    BY PassUpdates DEF Pass
  <2>4. pass' = [pass EXCEPT ![p] = q]
    BY <2>2
  <2>. HIDE DEF q
  <2>5. pass' \in [Leaders -> Pass] /\ Keyed'
    BY <2>1, <2>3, <2>4, KeyedPass
  <2>6. QED  BY <1>4, <2>1, <2>5, InputType DEF PassFires, PassCommits
<1>5. ASSUME NEW p \in Leaders, PassAdvances(p) PROVE T
  <2>1. mon' \in Mon
    <3>1. PICK c \in Cursors, d \in Cursors, n \in Nat : c = pass[p].upto /\ d = pass[p].tail /\ n = pass[p].fired
      BY DEF Pass
    <3>2. mon' = mon \/ mon' = Disabled(mon)
          \/ \E m \in Nat : mon' = [mon EXCEPT !.cursor = c, !.from = d, !.fired = m]
      <4>1. mon.fired \in Nat /\ n + 1 \in Nat
        BY DEF Mon
      <4>2. QED  BY <1>5, <3>1, <4>1 DEF PassAdvances
    <3>3. \A m \in Nat : [mon EXCEPT !.cursor = c, !.from = d, !.fired = m] \in Mon
      BY MonUpdates
    <3>4. Disabled(mon) \in Mon
      BY MonUpdates
    <3>5. QED  BY <3>2, <3>3, <3>4
  <2>2. pass' \in [Leaders -> Pass] /\ lease' \in Leaders \cup {NoLeader} /\ Keyed'
    <3>1. CASE Ends(p)
      BY <3>1, <1>e
    <3>2. CASE pass' = [pass EXCEPT ![p] = [pass[p] EXCEPT !.at = "disable"]] /\ lease' = lease
      <4>. DEFINE q == [pass[p] EXCEPT !.at = "disable"]
      <4>0. "disable" \in PassAts /\ pass[p] \in Pass
        BY DEF PassAts
      <4>1. q \in Pass /\ q.at = "disable"
        BY <4>0, PassUpdates DEF Pass
      <4>. HIDE DEF q
      <4>2. QED  BY <3>2, <4>1, KeyedPass DEF q
    <3>3. QED  BY <1>5, <3>1, <3>2 DEF PassAdvances
  <2>3. QED  BY <1>5, <2>1, <2>2 DEF PassAdvances
<1>6. ASSUME NEW p \in Leaders, PassDisables(p) \/ PassDenied(p) PROVE T
  <2>1. Ends(p) /\ mon' \in Mon
    BY <1>6, MonUpdates DEF PassDisables, PassDenied
  <2>2. QED  BY <1>6, <2>1, <1>e, MonFaultType DEF PassDisables, PassDenied
<1>7. ASSUME NEW p \in Leaders, PassBreaks(p) PROVE T
  <2>1. cut' \in BOOLEAN
    BY <1>7 DEF PassBreaks
  <2>2. QED  BY <1>7, <2>1, <1>e, MonFaultType DEF PassBreaks
<1>8. ASSUME NEW p \in Leaders, LeaseLost(p) PROVE T
  BY <1>8, <1>0, MonFaultType DEF LeaseLost
<1>9. CASE UNCHANGED monVars
  BY <1>9, <1>0 DEF monVars
<1>10. QED
  BY <1>1, <1>2, <1>3, <1>4, <1>5, <1>6, <1>7, <1>8, <1>9 DEF MonNext, PassSteps

\* The monitor, the passes and what was told keep their shape; a pass that runs a turn
\* does so under a key.
THEOREM MonTypeCorrect == MonSpec => []MonTypeOK
<1>1. MonInit => MonTypes
  BY MonInitType, NoPassType DEF MonTypes, MonInit, Keyed
<1>2. QED  BY <1>1, MonStepType, PTL DEF MonSpec, MonTypes

-----------------------------------------------------------------------------
(* As long as no pass is cut off, one pass at a time goes from the cursor of the       *)
(* monitor, and everything up to the beginning of what is held back was told once.     *)

Tells(p) == pass[p].at \in {"wait", "after"}
Reading(p) == pass[p].at \in {"fire", "wait", "after", "skip"}
AllIdle == \A p \in Leaders : pass[p].at = "idle"
Over == mon.at \in {"off", "gone"} /\ AllIdle

\* What the turn of a pass is told.
Fresh(q) == {i \in Pieces : q.from < i /\ i <= q.tail /\ Worthy(i)}

TailOf(q) == TailFrom(q, q.upto, IsLast(q.key))

MonPart ==
    /\ mon.from <= mon.cursor /\ mon.cursor <= proc.len
    /\ ~mon.pattern => mon.from = mon.cursor
    /\ \A i \in Pieces : mon.from < i /\ i <= mon.cursor => Text[i] = "half"
    /\ mon.pattern => mon.from = 0 \/ Text[mon.from] # "half" \/ Over \/ \E p \in Leaders : pass[p].at = "disable"
    /\ mon.at = "none" => AllIdle /\ woken = {}
    /\ \A i \in Pieces : Text[i] = "half" => i + 1 \in Pieces /\ Text[i + 1] = "line"

ReadPart(p) ==
    /\ mon.cursor <= pass[p].upto /\ pass[p].upto <= proc.len
    /\ pass[p].tail = TailOf(pass[p])
    /\ pass[p].key[1] \in {"none", "quiet"} => Fresh(pass[p]) = {}
    /\ pass[p].key[1] = "output" => pass[p].key = OutputKey(mon.cursor) /\ mon.cursor < pass[p].upto

PassPart(p) ==
    /\ pass[p].at # "idle" => lease = p
    /\ pass[p].at = "listed" \/ Reading(p) => pass[p].from = mon.from /\ pass[p].cursor = mon.cursor
    /\ pass[p].at \in {"listed", "skip"} => pass[p].key = NoKey
    /\ Reading(p) => ReadPart(p)
    /\ pass[p].at = "disable" => pass[p].key[1] \in LastKeys
    /\ Tells(p) => pass[p].key \in woken
    /\ Tells(p) => told[pass[p].key] = IF pass[p].key[1] = "lost" THEN {} ELSE Fresh(pass[p])

KeyPart(k) ==
    /\ k[1] = "output" => k[2] < mon.cursor \/ Over \/ \E p \in Leaders : Tells(p) /\ pass[p].key = k
    /\ k[1] \in LastKeys => Over \/ \E p \in Leaders : /\ Tells(p) \/ pass[p].at = "disable"
                                                       /\ pass[p].key = k

ToldPart ==
    /\ \A k \in FireKeys, i \in Pieces : i \in told[k] =>
         \/ i <= mon.from
         \/ \E p \in Leaders : Tells(p) /\ pass[p].key = k
         \/ mon.at \in {"off", "gone"} /\ \A p \in Leaders : pass[p].at \in {"idle", "disable"}
    /\ \A k \in FireKeys : k \notin woken \/ k[1] \in {"quiet", "lost"} => told[k] = {}
    /\ \A i \in Pieces, k \in FireKeys, l \in FireKeys : i \in told[k] /\ i \in told[l] => k = l
    /\ \A i \in Pieces : i <= mon.from /\ Worthy(i) => \E k \in FireKeys : i \in told[k]
    /\ mon.pattern => \A k \in FireKeys, i \in Pieces :
            k[1] = "output" /\ Text[i] = "half" => (i \in told[k] <=> i + 1 \in told[k])

MonInv == /\ MonPart /\ ToldPart /\ kept \subseteq woken
          /\ \A p \in Leaders : PassPart(p)
          /\ \A k \in woken : KeyPart(k)

\* Nobody but the holder of the lease makes a pass.
LEMMA OthersIdle ==
    ASSUME MonInv, NEW p \in Leaders, pass[p].at # "idle"
    PROVE  lease = p /\ \A o \in Leaders : o # p => pass[o].at = "idle"
BY DEF MonInv, PassPart

\* The job and its owner change what no pass relies on.
WorldStep ==
    /\ UNCHANGED <<lease, pass, woken, told, kept>>
    /\ mon'.cursor = mon.cursor /\ mon'.from = mon.from /\ mon'.pattern = mon.pattern
    /\ Text' = Text /\ proc'.len >= proc.len
    /\ mon'.at = "none" => mon.at = "none"
    /\ mon.at \in {"off", "gone"} => mon'.at \in {"off", "gone"}

LEMMA WorldKeeps ==
    ASSUME MonTypes, MonInv, WorldStep, proc' \in Proc PROVE MonInv'
<1>. /\ proc \in Proc /\ mon \in Mon /\ pass \in [Leaders -> Pass]
  BY MonShape DEF MonTypes
<1>0. proc.len \in Nat /\ proc'.len \in Nat /\ mon.cursor \in Nat /\ \A p \in Leaders : pass[p].upto \in Nat
  BY DEF Proc, Mon, Pass, Cursors
<1>1. \A i \in Pieces : Worthy(i)' <=> Worthy(i)
  BY DEF WorldStep, Worthy, Text
<1>2. AllIdle' <=> AllIdle
  BY DEF WorldStep, AllIdle
<1>3. Over => Over'
  BY <1>2 DEF WorldStep, Over
<1>4. \A p \in Leaders : Fresh(pass[p])' = Fresh(pass[p])
  BY <1>1 DEF WorldStep, Fresh
<1>5. \A p \in Leaders : TailOf(pass[p])' = TailOf(pass[p])
  BY DEF WorldStep, TailOf, TailFrom, LastEnd, Raw, Text
<1>6. MonPart'
  BY <1>0, <1>2, <1>3 DEF MonInv, MonPart, WorldStep
<1>7. \A p \in Leaders : PassPart(p)'
  BY <1>0, <1>4, <1>5 DEF MonInv, PassPart, ReadPart, Reading, Tells, WorldStep
<1>8. \A k \in woken' : KeyPart(k)'
  BY <1>3 DEF MonInv, KeyPart, Tells, WorldStep
<1>9. ToldPart'
  BY <1>1 DEF MonInv, ToldPart, Tells, WorldStep
<1>10. kept' \subseteq woken'
  BY DEF MonInv, WorldStep
<1>11. QED  BY <1>6, <1>7, <1>8, <1>9, <1>10 DEF MonInv

LEMMA WorldActions ==
    ASSUME MonTypes, Watches \/ Writes \/ Exits \/ IsLost \/ Expires \/ Unwatches PROVE WorldStep
<1>. proc \in Proc /\ mon \in Mon
  BY MonShape DEF MonTypes
<1>0. proc.len \in Nat
  BY DEF Proc, Cursors
<1>1. CASE Watches
  BY <1>0, <1>1 DEF Watches, WorldStep, Mon, Text
<1>2. CASE Writes
  BY <1>0, <1>2 DEF Writes, WorldStep, Proc, Text
<1>3. CASE Exits \/ IsLost
  BY <1>0, <1>3 DEF Exits, IsLost, WorldStep, Proc, Text
<1>4. CASE Expires \/ Unwatches
  BY <1>0, <1>4 DEF Expires, Unwatches, WorldStep, Mon, Text
<1>5. QED  BY <1>1, <1>2, <1>3, <1>4

-----------------------------------------------------------------------------
(* The same, seen from the one process that may make a pass.                           *)

Alone(p) == /\ \A o \in Leaders : o # p => pass[o].at = "idle"
            /\ pass[p].at # "idle" => lease = p

OverAt(p) == mon.at \in {"off", "gone"} /\ pass[p].at = "idle"

AtMon(p) ==
    /\ mon.from <= mon.cursor /\ mon.cursor <= proc.len
    /\ ~mon.pattern => mon.from = mon.cursor
    /\ \A i \in Pieces : mon.from < i /\ i <= mon.cursor => Text[i] = "half"
    /\ mon.pattern => mon.from = 0 \/ Text[mon.from] # "half" \/ OverAt(p) \/ pass[p].at = "disable"
    /\ mon.at = "none" => pass[p].at = "idle" /\ woken = {}
    /\ \A i \in Pieces : Text[i] = "half" => i + 1 \in Pieces /\ Text[i + 1] = "line"

AtKey(p, k) ==
    /\ k[1] = "output" => k[2] < mon.cursor \/ OverAt(p) \/ (Tells(p) /\ pass[p].key = k)
    /\ k[1] \in LastKeys => OverAt(p) \/ ((Tells(p) \/ pass[p].at = "disable") /\ pass[p].key = k)

AtTold(p) ==
    /\ \A k \in FireKeys, i \in Pieces : i \in told[k] =>
         \/ i <= mon.from
         \/ Tells(p) /\ pass[p].key = k
         \/ mon.at \in {"off", "gone"} /\ pass[p].at \in {"idle", "disable"}
    /\ \A k \in FireKeys : k \notin woken \/ k[1] \in {"quiet", "lost"} => told[k] = {}
    /\ \A i \in Pieces, k \in FireKeys, l \in FireKeys : i \in told[k] /\ i \in told[l] => k = l
    /\ \A i \in Pieces : i <= mon.from /\ Worthy(i) => \E k \in FireKeys : i \in told[k]
    /\ mon.pattern => \A k \in FireKeys, i \in Pieces :
            k[1] = "output" /\ Text[i] = "half" => (i \in told[k] <=> i + 1 \in told[k])

AtInv(p) == /\ Alone(p) /\ AtMon(p) /\ PassPart(p) /\ AtTold(p) /\ kept \subseteq woken
            /\ \A k \in woken : AtKey(p, k)

LEMMA SeenFrom ==
    ASSUME NEW p \in Leaders, Alone(p) PROVE MonInv <=> AtInv(p)
<1>1. AllIdle <=> pass[p].at = "idle"
  BY DEF Alone, AllIdle
<1>2. Over <=> OverAt(p)
  BY <1>1 DEF Over, OverAt
<1>3. (\E o \in Leaders : pass[o].at = "disable") <=> pass[p].at = "disable"
  BY DEF Alone
<1>4. \A k : (\E o \in Leaders : Tells(o) /\ pass[o].key = k) <=> Tells(p) /\ pass[p].key = k
  BY DEF Alone, Tells
<1>5. \A k : (\E o \in Leaders : (Tells(o) \/ pass[o].at = "disable") /\ pass[o].key = k)
             <=> (Tells(p) \/ pass[p].at = "disable") /\ pass[p].key = k
  BY DEF Alone, Tells
<1>6. (\A o \in Leaders : pass[o].at \in {"idle", "disable"}) <=> pass[p].at \in {"idle", "disable"}
  BY DEF Alone
<1>7. (\A o \in Leaders : PassPart(o)) <=> PassPart(p)
  BY DEF Alone, PassPart, Reading, Tells
<1>8. MonPart <=> AtMon(p)
  BY <1>1, <1>2, <1>3 DEF MonPart, AtMon
<1>9. \A k : KeyPart(k) <=> AtKey(p, k)
  BY <1>2, <1>4, <1>5 DEF KeyPart, AtKey
<1>10. ToldPart <=> AtTold(p)
  BY <1>4, <1>6 DEF ToldPart, AtTold
<1>11. QED  BY <1>7, <1>8, <1>9, <1>10 DEF MonInv, AtInv

LEMMA SeenByAll == \A p \in Leaders : Alone(p) => (MonInv <=> AtInv(p))
BY SeenFrom

LEMMA SeenAfter == (\A p \in Leaders : Alone(p) => (MonInv <=> AtInv(p)))'
BY SeenByAll, PTL

-----------------------------------------------------------------------------
(* Each step of a pass.                                                                *)

\* What the steps of a pass have in common.
Step(p, q) ==
    /\ pass' = [pass EXCEPT ![p] = q]
    /\ proc' = proc /\ mon'.pattern = mon.pattern
    /\ q.at # "idle" => lease' = p

LEMMA StepAlone ==
    ASSUME MonTypes, NEW p \in Leaders, Alone(p), NEW q, Step(p, q)
    PROVE  /\ pass'[p] = q /\ Alone(p)'
           /\ \A i \in Pieces : Worthy(i)' <=> Worthy(i)
           /\ Text' = Text
<1>1. pass \in [Leaders -> Pass]
  BY MonShape DEF MonTypes
<1>2. pass'[p] = q /\ \A o \in Leaders : o # p => pass'[o] = pass[o]
  BY <1>1 DEF Step
<1>3. QED  BY <1>2 DEF Alone, Worthy, Text, Step

\* A pass that ends before it has told anything, with the monitor as it was or switched off.
LEMMA QuietEnd ==
    ASSUME MonTypes, NEW p \in Leaders, AtInv(p), Ends(p), pass[p].at \in {"listed", "fire", "skip"},
           UNCHANGED <<proc, woken, told, kept>>, mon' = mon \/ mon' = Disabled(mon)
    PROVE  AtInv(p)'
<1>. mon \in Mon /\ mon.at # "none"
  BY MonShape DEF MonTypes, AtInv, AtMon
<1>1. /\ mon'.cursor = mon.cursor /\ mon'.from = mon.from /\ mon'.pattern = mon.pattern
      /\ mon'.at # "none"
  BY DEF Disabled, Mon
<1>2. Step(p, NoPass) /\ NoPass.at = "idle"
  BY <1>1, NoPassType DEF Ends, Step
<1>3. Alone(p)
  BY DEF AtInv
<1>4. /\ pass'[p] = NoPass /\ Alone(p)' /\ Text' = Text
      /\ \A i \in Pieces : Worthy(i)' <=> Worthy(i)
  BY <1>2, <1>3, StepAlone
<1>5. pass'[p].at = "idle" /\ ~Tells(p) /\ ~Reading(p)' /\ ~Tells(p)' /\ pass[p].at \notin {"idle", "disable"}
  BY <1>2, <1>4 DEF Tells, Reading
<1>6. AtMon(p)'
  BY <1>1, <1>4, <1>5 DEF AtInv, AtMon, OverAt
<1>7. PassPart(p)'
  BY <1>5 DEF PassPart
<1>8. AtTold(p)'
  BY <1>1, <1>4, <1>5 DEF AtInv, AtTold
<1>9. ASSUME NEW k \in woken' PROVE AtKey(p, k)'
  BY <1>1, <1>5, <1>9 DEF AtInv, AtKey, OverAt
<1>10. QED  BY <1>4, <1>6, <1>7, <1>8, <1>9 DEF AtInv

\* The end of a pass that has switched the monitor off.
LEMMA LastEnds ==
    ASSUME MonTypes, NEW p \in Leaders, AtInv(p), PassDisables(p)
    PROVE  AtInv(p)'
<1>. mon \in Mon /\ mon.at # "none"
  BY MonShape DEF MonTypes, AtInv, AtMon, PassDisables
<1>1. /\ mon'.cursor = mon.cursor /\ mon'.from = mon.from /\ mon'.pattern = mon.pattern
      /\ mon'.at \in {"off", "gone"}
  BY DEF Disabled, Mon, PassDisables
<1>2. Step(p, NoPass) /\ NoPass.at = "idle"
  BY <1>1, NoPassType DEF Ends, Step, PassDisables
<1>3. Alone(p)
  BY DEF AtInv
<1>4. /\ pass'[p] = NoPass /\ Alone(p)' /\ Text' = Text
      /\ \A i \in Pieces : Worthy(i)' <=> Worthy(i)
  BY <1>2, <1>3, StepAlone
<1>5. pass'[p].at = "idle" /\ ~Tells(p) /\ ~Reading(p)' /\ ~Tells(p)'
  BY <1>2, <1>4 DEF Tells, Reading, PassDisables
<1>6. AtMon(p)'
  BY <1>1, <1>4, <1>5 DEF AtInv, AtMon, OverAt, PassDisables
<1>7. PassPart(p)'
  BY <1>5 DEF PassPart
<1>8. AtTold(p)'
  BY <1>1, <1>4, <1>5 DEF AtInv, AtTold, PassDisables
<1>9. ASSUME NEW k \in woken' PROVE AtKey(p, k)'
  BY <1>1, <1>5, <1>9 DEF AtKey, OverAt
<1>10. QED  BY <1>4, <1>6, <1>7, <1>8, <1>9 DEF AtInv, PassDisables

\* A pass starts where the monitor stands.
LEMMA StartsKeep ==
    ASSUME MonTypes, NEW p \in Leaders, AtInv(p), PassStarts(p)
    PROVE  AtInv(p)'
<1>. mon \in Mon /\ mon.at = "on"
  BY MonShape DEF MonTypes, PassStarts, Watched
<1>1. PICK c \in Cursors, d \in Cursors, n \in Nat : c = mon.cursor /\ d = mon.from /\ n = mon.fired
  BY DEF Mon
<1>. PICK q : q = Listed(c, d, n)
  OBVIOUS
<1>2. q \in Pass /\ q.at = "listed" /\ q.cursor = c /\ q.from = d /\ q.key = NoKey
  BY ListedType
<1>3. Step(p, q)
  BY <1>1 DEF PassStarts, Listed, Step
<1>4. Alone(p)
  BY DEF AtInv
<1>5. /\ pass'[p] = q /\ Alone(p)' /\ Text' = Text
      /\ \A i \in Pieces : Worthy(i)' <=> Worthy(i)
  BY <1>3, <1>4, StepAlone
<1>6. pass'[p].at = "listed" /\ ~Tells(p) /\ ~Reading(p)' /\ ~Tells(p)' /\ ~OverAt(p) /\ pass[p].at = "idle"
  BY <1>2, <1>5 DEF Tells, Reading, PassStarts, OverAt
<1>7. UNCHANGED <<proc, mon, woken, told, kept>> /\ lease' = p
  BY DEF PassStarts
<1>8. AtMon(p)'
  BY <1>5, <1>6, <1>7 DEF AtInv, AtMon
<1>9. PassPart(p)'
  BY <1>1, <1>2, <1>5, <1>6, <1>7 DEF PassPart
<1>10. AtTold(p)'
  BY <1>5, <1>6, <1>7 DEF AtInv, AtTold
<1>11. ASSUME NEW k \in woken' PROVE AtKey(p, k)'
  BY <1>6, <1>7, <1>11 DEF AtInv, AtKey
<1>12. QED  BY <1>5, <1>7, <1>8, <1>9, <1>10, <1>11 DEF AtInv

\* What the decision of a pass rests on: the output it found and where the rest begins.
LEMMA ReadFacts ==
    ASSUME MonTypes, NEW p \in Leaders, AtInv(p), pass[p].at = "listed",
           NEW last \in BOOLEAN, NEW t \in Cursors, t = TailFrom(pass[p], proc.len, last)
    PROVE  /\ mon.cursor <= proc.len
           /\ Events(pass[p], proc.len, last) = {i \in Pieces : mon.from < i /\ i <= t /\ Worthy(i)}
           /\ ~last /\ Events(pass[p], proc.len, last) # {} => mon.cursor < proc.len
<1>. /\ proc \in Proc /\ mon \in Mon /\ pass \in [Leaders -> Pass]
  BY MonShape DEF MonTypes
<1>. PICK q \in Pass : q = pass[p]
  OBVIOUS
<1>. PICK u \in Cursors : u = proc.len
  BY DEF Proc
<1>1. q.from = mon.from /\ AtMon(p) /\ ~OverAt(p)
  BY DEF AtInv, PassPart, OverAt
<1>2. /\ t \in Nat /\ u \in Nat /\ mon.from \in Nat /\ mon.cursor \in Nat /\ q.from \in Cursors
      /\ \A i \in Pieces : i \in Nat
  BY DEF Cursors, Mon, Pass, Pieces
<1>3. mon.from <= mon.cursor /\ mon.cursor <= u /\ mon.from <= u
  BY <1>1, <1>2 DEF AtMon
<1>4. Text \in [Pieces -> PieceKinds] /\ mon.pattern \in BOOLEAN
  BY DEF Text, Proc, Mon
<1>5. /\ q.from <= t /\ t <= u
      /\ t = q.from \/ t = u \/ Text[t] # "half"
      /\ mon.pattern /\ ~last => t = q.from \/ Text[t] # "half"
  <2>1. t = TailFrom(q, u, last)
    OBVIOUS
  <2>2. QED  BY <1>1, <1>2, <1>3, <1>4, <2>1, TailFacts
<1>6. Events(q, u, last) = {i \in Pieces : mon.from < i /\ i <= t /\ Worthy(i)}
  BY <1>1, <1>2, <1>5 DEF Events, Raw
<1>7. ASSUME ~last, Events(q, u, last) # {}, ~(mon.cursor < u) PROVE FALSE
  <2>1. mon.cursor = u
    BY <1>2, <1>3, <1>7
  <2>2. PICK i \in Pieces : mon.from < i /\ i <= t
    BY <1>6, <1>7
  <2>3. mon.from < t /\ t <= mon.cursor /\ t \in Pieces
    BY <1>1, <1>2, <1>5, <2>1, <2>2 DEF Cursors, Pieces
  <2>4. Text[t] = "half" /\ mon.pattern /\ t # q.from
    BY <1>1, <1>2, <2>3 DEF AtMon
  <2>5. QED  BY <1>5, <1>7, <2>4
<1>8. QED  BY <1>3, <1>6, <1>7

LEMMA TailOfIs ==
    ASSUME NEW q, NEW m, q.from = m.from
    PROVE  \A u : TailFrom(q, u, FALSE) = TailFrom(m, u, FALSE)
BY DEF TailFrom, LastEnd, Raw

\* What a pass fires for.
LEMMA ReadsKeep ==
    ASSUME MonTypes, NEW p \in Leaders, AtInv(p), PassReads(p)
    PROVE  AtInv(p)'
<1>. /\ proc \in Proc /\ mon \in Mon /\ pass \in [Leaders -> Pass] /\ MonTypeOK
  BY MonShape DEF MonTypes
<1>1. /\ proc' = proc /\ mon' = mon /\ woken' = woken /\ told' = told /\ kept' = kept
      /\ cut' = cut /\ monFaults' = monFaults /\ pass[p].at = "listed"
  BY ReadsOutcome
<1>2. CASE Ends(p)
  BY <1>1, <1>2, QuietEnd
<1>. PICK r \in Pass : r = pass[p]
  OBVIOUS
<1>. PICK u \in Cursors : u = proc.len
  BY DEF Proc
<1>3. ASSUME NEW q \in Pass, NEW t \in Cursors, pass' = [pass EXCEPT ![p] = q], lease' = lease,
             q.at \in {"fire", "skip"}, q.cursor = r.cursor, q.from = r.from, q.upto = u, q.tail = t,
             t = TailFrom(q, u, IsLast(q.key)), q.at = "skip" => q.key = NoKey,
             q.key[1] \in {"none", "quiet"} => Events(r, u, FALSE) = {},
             q.key[1] = "output" => q.key = OutputKey(r.cursor) /\ Events(r, u, FALSE) # {}
      PROVE  AtInv(p)'
  <2>1. Alone(p) /\ lease = p /\ ~Tells(p) /\ r.cursor = mon.cursor /\ r.from = mon.from /\ ~OverAt(p)
    BY <1>1 DEF AtInv, PassPart, Tells, OverAt
  <2>2. Step(p, q)
    BY <1>1, <1>3, <2>1 DEF Step
  <2>3. /\ pass'[p] = q /\ Alone(p)' /\ Text' = Text
        /\ \A i \in Pieces : Worthy(i)' <=> Worthy(i)
    BY <2>1, <2>2, StepAlone
  <2>4. ~Tells(p)' /\ Reading(p)' /\ ~OverAt(p)'
    BY <1>3, <2>3 DEF Tells, Reading, OverAt
  <2>5. AtMon(p)'
    BY <1>1, <1>3, <2>1, <2>3 DEF AtInv, AtMon
  <2>6. AtTold(p)'
    BY <1>1, <2>1, <2>3 DEF AtInv, AtTold
  <2>7. ASSUME NEW k \in woken' PROVE AtKey(p, k)'
    BY <1>1, <2>1, <2>7 DEF AtInv, AtKey
  <2>8. mon.cursor <= u /\ u <= proc.len
    <3>1. PICK z \in Cursors : z = TailFrom(r, u, FALSE)
      <4>1. Text \in [Pieces -> PieceKinds] /\ mon.pattern \in BOOLEAN /\ r.from \in Cursors
        BY DEF Text, Proc, Mon, Pass
      <4>2. QED  BY <4>1, TailFacts
    <3>2. mon.cursor <= u
      BY <1>1, <3>1, ReadFacts
    <3>3. u \in Nat
      BY DEF Cursors
    <3>4. QED  BY <3>2, <3>3
  <2>9. TailOf(q)' = t
    <3>1. TailOf(q) = t
      BY <1>3 DEF TailOf
    <3>2. TailOf(q)' = TailOf(q)
      BY <1>1 DEF TailOf, TailFrom, LastEnd, Raw
    <3>3. QED  BY <3>1, <3>2
  <2>t. TailFrom(q, u, FALSE) = TailFrom(r, u, FALSE)
    <3>1. q.from = r.from
      BY <1>3
    <3>2. QED  BY <3>1, TailOfIs
  <2>10. IsLast(q.key) = FALSE => Events(r, u, FALSE) = {i \in Pieces : mon.from < i /\ i <= t /\ Worthy(i)}
    <3>1. SUFFICES ASSUME IsLast(q.key) = FALSE PROVE Events(r, u, FALSE) = {i \in Pieces : mon.from < i /\ i <= t /\ Worthy(i)}
      OBVIOUS
    <3>2. t = TailFrom(r, u, FALSE)
      BY <1>3, <3>1, <2>t
    <3>3. QED  BY <1>1, <3>2, ReadFacts
  <2>11. q.key[1] \in {"none", "quiet"} => {i \in Pieces : mon.from < i /\ i <= t /\ Worthy(i)} = {}
    <3>1. SUFFICES ASSUME q.key[1] \in {"none", "quiet"} PROVE {i \in Pieces : mon.from < i /\ i <= t /\ Worthy(i)} = {}
      OBVIOUS
    <3>2. IsLast(q.key) = FALSE
      BY <3>1 DEF IsLast, LastKeys
    <3>3. QED  BY <1>3, <2>10, <3>1, <3>2
  <2>12. q.key[1] = "output" => q.key = OutputKey(mon.cursor) /\ mon.cursor < u
    <3>1. SUFFICES ASSUME q.key[1] = "output" PROVE q.key = OutputKey(mon.cursor) /\ mon.cursor < u
      OBVIOUS
    <3>2. IsLast(q.key) = FALSE
      BY <3>1 DEF IsLast, LastKeys
    <3>3. t = TailFrom(r, u, FALSE)
      BY <1>3, <3>2, <2>t
    <3>4. QED  BY <1>1, <1>3, <2>1, <3>1, <3>3, ReadFacts
  <2>13. Fresh(q)' = {i \in Pieces : mon.from < i /\ i <= t /\ Worthy(i)}
    BY <1>3, <2>1, <2>3 DEF Fresh
  <2>14. ReadPart(p)'
    BY <1>1, <1>3, <2>3, <2>8, <2>9, <2>11, <2>12, <2>13 DEF ReadPart
  <2>15. PassPart(p)'
    BY <1>1, <1>3, <2>1, <2>3, <2>4, <2>14 DEF PassPart
  <2>16. QED  BY <1>1, <2>3, <2>5, <2>6, <2>7, <2>15 DEF AtInv
<1>4. ASSUME NEW k \in FireKeys, NEW t \in Cursors, FiresFor(p, k, t), lease' = lease,
             pass' = [pass EXCEPT ![p] = [pass[p] EXCEPT !.at = "fire", !.key = k, !.upto = proc.len, !.tail = t]]
      PROVE  AtInv(p)'
  <2>1. PICK q \in Pass : q = [r EXCEPT !.at = "fire", !.key = k, !.upto = u, !.tail = t]
    BY PassUpdates
  <2>2. /\ q.at = "fire" /\ q.cursor = r.cursor /\ q.from = r.from /\ q.upto = u /\ q.tail = t /\ q.key = k
    BY <2>1 DEF Pass
  <2>3. t = TailFrom(r, u, IsLast(k)) /\ TailFrom(q, u, IsLast(k)) = TailFrom(r, u, IsLast(k))
    <3>1. q.from = r.from
      BY <2>2
    <3>2. t = TailFrom(r, u, IsLast(k))
      BY <1>4 DEF FiresFor
    <3>3. TailFrom(q, u, IsLast(k)) = TailFrom(r, u, IsLast(k))
      BY <3>1 DEF TailFrom, LastEnd, Raw
    <3>4. QED  BY <3>2, <3>3
  <2>4. k[1] # "none"
    BY DEF FireKeys
  <2>5. k[1] \in {"none", "quiet"} => Events(r, u, FALSE) = {}
    <3>1. OutputKey(r.cursor)[1] = "output"
      BY DEF OutputKey
    <3>2. k[1] = "quiet" => ~IsLast(k)
      BY DEF IsLast, LastKeys
    <3>3. k[1] = "quiet" => k # OutputKey(r.cursor)
      BY <3>1
    <3>4. QED  BY <1>4, <2>4, <3>2, <3>3 DEF FiresFor
  <2>6. k[1] = "output" => k = OutputKey(r.cursor) /\ Events(r, u, FALSE) # {}
    BY <1>4 DEF FiresFor, IsLast, LastKeys
  <2>7. pass' = [pass EXCEPT ![p] = q]
    BY <1>4, <2>1
  <2>8. QED  BY <1>3, <1>4, <2>2, <2>3, <2>5, <2>6, <2>7
<1>5. ASSUME NEW t \in Cursors, t = TailFrom(pass[p], proc.len, FALSE), lease' = lease, Events(pass[p], proc.len, FALSE) = {},
             pass' = [pass EXCEPT ![p] = [pass[p] EXCEPT !.at = "skip", !.upto = proc.len, !.tail = t]]
      PROVE  AtInv(p)'
  <2>1. PICK q \in Pass : q = [r EXCEPT !.at = "skip", !.upto = u, !.tail = t]
    BY PassUpdates
  <2>2. /\ q.at = "skip" /\ q.cursor = r.cursor /\ q.from = r.from /\ q.upto = u /\ q.tail = t /\ q.key = r.key
    BY <2>1 DEF Pass
  <2>3. r.key = NoKey /\ IsLast(NoKey) = FALSE /\ NoKey[1] = "none"
    BY <1>1 DEF AtInv, PassPart, IsLast, LastKeys, NoKey
  <2>4. t = TailFrom(q, u, FALSE)
    <3>1. q.from = r.from
      BY <2>2
    <3>2. QED  BY <1>5, <3>1, TailOfIs
  <2>5. pass' = [pass EXCEPT ![p] = q]
    BY <1>5, <2>1
  <2>6. q.key = NoKey /\ IsLast(q.key) = FALSE /\ q.key[1] # "output"
    BY <2>2, <2>3
  <2>7. t = TailFrom(q, u, IsLast(q.key))
    BY <2>4, <2>6
  <2>8. QED  BY <1>3, <1>5, <2>2, <2>5, <2>6, <2>7
<1>6. QED
  BY <1>2, <1>4, <1>5, ReadsOutcome

\* What a pass that has read knows, with the types that the arithmetic needs.
LEMMA ReadingFacts ==
    ASSUME MonTypes, NEW p \in Leaders, AtInv(p), Reading(p), NEW q \in Pass, q = pass[p]
    PROVE  /\ q.from = mon.from /\ mon.from <= mon.cursor /\ mon.cursor <= q.upto /\ q.upto <= proc.len
           /\ q.from <= q.tail /\ q.tail <= q.upto
           /\ q.tail = TailFrom(q, q.upto, IsLast(q.key))
           /\ ~mon.pattern => q.tail = q.upto
           /\ mon.pattern => q.key[1] \in LastKeys \cup {"lost"} \/ q.tail = q.from \/ Text[q.tail] # "half"
           /\ \A i \in Pieces : q.tail < i /\ i <= q.upto => Text[i] = "half"
           /\ {mon.from, mon.cursor, q.from, q.upto, q.tail} \subseteq Nat
<1>. /\ proc \in Proc /\ mon \in Mon /\ pass \in [Leaders -> Pass]
  BY MonShape DEF MonTypes
<1>1. PassPart(p) /\ ReadPart(p) /\ AtMon(p) /\ q.from = mon.from
  BY DEF AtInv, PassPart, Reading
<1>2. /\ mon.from \in Nat /\ mon.cursor \in Nat /\ q.upto \in Nat /\ q.tail \in Nat /\ proc.len \in Nat
      /\ q.from \in Cursors /\ q.from \in Nat /\ q.upto \in Cursors /\ q.tail \in Cursors
  BY DEF Cursors, Mon, Pass, Proc
<1>3. Text \in [Pieces -> PieceKinds] /\ mon.pattern \in BOOLEAN
  BY DEF Text, Proc, Mon
<1>4. q.tail = TailFrom(q, q.upto, IsLast(q.key))
  BY <1>1 DEF ReadPart, TailOf
<1>5. mon.from <= mon.cursor /\ mon.cursor <= q.upto /\ q.upto <= proc.len
  BY <1>1 DEF AtMon, ReadPart
<1>6. PICK last \in BOOLEAN : last = IsLast(q.key)
  <2>1. IsLast(q.key) \in BOOLEAN
    BY DEF IsLast
  <2>2. QED  BY <2>1
<1>7. q.tail = TailFrom(q, q.upto, last)
  BY <1>4, <1>6
<1>8. /\ q.from <= q.upto => q.from <= q.tail /\ q.tail <= q.upto
      /\ last \/ ~mon.pattern => q.tail = q.upto
      /\ mon.pattern /\ ~last => q.tail = q.from \/ Text[q.tail] # "half"
      /\ \A i \in Pieces : q.tail < i /\ i <= q.upto => Text[i] = "half"
  <2>. PICK u \in Cursors, t \in Cursors : u = q.upto /\ t = q.tail
    BY <1>2
  <2>1. t = TailFrom(q, u, last)
    BY <1>7
  <2>2. QED  BY <1>2, <1>3, <2>1, TailFacts
<1>9. last <=> q.key[1] \in LastKeys \cup {"lost"}
  BY <1>6 DEF IsLast
<1>10. QED  BY <1>1, <1>2, <1>4, <1>5, <1>8, <1>9

\* A turn is woken with the output that the pass found.
LEMMA InputIs ==
    ASSUME MonTypes, NEW p \in Leaders, AtInv(p), pass[p].at = "fire"
    PROVE  Input(p) = IF pass[p].key[1] \in {"lost", "quiet"} THEN {} ELSE Fresh(pass[p])
<1>. pass \in [Leaders -> Pass] /\ Keyed
  BY MonShape DEF MonTypes
<1>. PICK q \in Pass : q = pass[p]
  OBVIOUS
<1>1. q.key \in FireKeys
  BY DEF Keyed
<1>2. q.key[1] \in {"lost", "quiet", "output", "exit", "expired"}
  BY <1>1 DEF FireKeys
<1>3. CASE q.key[1] \in {"lost", "quiet"}
  BY <1>3 DEF Input
<1>4. Reading(p)
  BY DEF Reading
<1>5. q.tail = TailFrom(q, q.upto, IsLast(q.key)) /\ q.tail <= q.upto /\ {q.from, q.upto, q.tail} \subseteq Nat
  BY <1>4, ReadingFacts
<1>6. CASE q.key[1] = "output"
  <2>1. IsLast(q.key) = FALSE
    BY <1>6 DEF IsLast, LastKeys
  <2>2. q.tail = TailFrom(q, q.upto, FALSE)
    BY <1>5, <2>1
  <2>3. Input(p) = Events(q, q.upto, FALSE)
    BY <1>6 DEF Input
  <2>4. Events(q, q.upto, FALSE) = Fresh(q)
    <3>1. \A i : i \in Events(q, q.upto, FALSE) <=>
                   i \in Pieces /\ q.from < i /\ i <= q.upto /\ i <= TailFrom(q, q.upto, FALSE) /\ Worthy(i)
      BY DEF Events, Raw
    <3>2. \A i \in Pieces : i <= q.tail => i <= q.upto
      BY <1>5 DEF Pieces
    <3>3. QED  BY <2>2, <3>1, <3>2 DEF Fresh
  <2>5. QED  BY <1>6, <2>3, <2>4
<1>7. CASE q.key[1] \in LastKeys
  <2>1. IsLast(q.key) = TRUE
    BY <1>7 DEF IsLast, LastKeys
  <2>2. q.tail = TailFrom(q, q.upto, TRUE)
    BY <1>5, <2>1
  <2>3. Input(p) = Events(q, q.upto, TRUE)
    BY <1>7 DEF Input, LastKeys
  <2>4. Events(q, q.upto, TRUE) = Fresh(q)
    <3>1. \A i : i \in Events(q, q.upto, TRUE) <=>
                   i \in Pieces /\ q.from < i /\ i <= q.upto /\ i <= TailFrom(q, q.upto, TRUE) /\ Worthy(i)
      BY DEF Events, Raw
    <3>2. \A i \in Pieces : i <= q.tail => i <= q.upto
      BY <1>5 DEF Pieces
    <3>3. QED  BY <2>2, <3>1, <3>2 DEF Fresh
  <2>5. QED  BY <1>7, <2>3, <2>4 DEF LastKeys
<1>8. QED  BY <1>2, <1>3, <1>6, <1>7 DEF LastKeys

\* A half that a turn is told comes with its other half.
LEMMA FreshWhole ==
    ASSUME MonTypes, NEW p \in Leaders, AtInv(p), pass[p].at = "fire", pass[p].key[1] = "output",
           mon.pattern, NEW i \in Pieces, Text[i] = "half"
    PROVE  i \in Fresh(pass[p]) <=> i + 1 \in Fresh(pass[p])
<1>. pass \in [Leaders -> Pass]
  BY MonShape DEF MonTypes
<1>. PICK q \in Pass : q = pass[p]
  OBVIOUS
<1>1. Reading(p) /\ ~OverAt(p)
  BY DEF Reading, OverAt
<1>2. q.from = mon.from /\ {q.from, q.tail} \subseteq Nat /\ (q.tail = q.from \/ Text[q.tail] # "half")
  BY <1>1, ReadingFacts DEF LastKeys
<1>3. mon.from = 0 \/ Text[mon.from] # "half"
  BY <1>1 DEF AtInv, AtMon
<1>4. i \in Nat /\ i # 0 /\ i + 1 \in Pieces /\ Text[i + 1] = "line"
  <2>1. i \in Nat /\ i # 0
    BY DEF Pieces
  <2>2. i + 1 \in Pieces /\ Text[i + 1] = "line"
    BY DEF AtInv, AtMon
  <2>3. QED  BY <2>1, <2>2
<1>5. Worthy(i) /\ Worthy(i + 1)
  BY <1>4 DEF Worthy, Text
<1>6. i # q.from /\ (i = q.tail => q.tail = q.from)
  BY <1>2, <1>3, <1>4
<1>7. q.from < i /\ i <= q.tail <=> q.from < i + 1 /\ i + 1 <= q.tail
  BY <1>2, <1>4, <1>6
<1>8. QED  BY <1>4, <1>5, <1>7 DEF Fresh

\* A pass that moves on without touching the monitor.
LEMMA NextAt ==
    ASSUME MonTypes, NEW p \in Leaders, AtInv(p), NEW at \in PassAts,
           pass' = [pass EXCEPT ![p] = [pass[p] EXCEPT !.at = at]], UNCHANGED <<proc, mon, lease>>,
           pass[p].at # "idle"
    PROVE  \E q \in Pass : /\ pass'[p] = q /\ q.at = at /\ q.key = pass[p].key /\ q.from = pass[p].from
                           /\ q.cursor = pass[p].cursor /\ q.upto = pass[p].upto /\ q.tail = pass[p].tail
                           /\ Fresh(q) = Fresh(pass[p]) /\ Fresh(q)' = Fresh(q)
                           /\ (ReadPart(p) => ReadPart(p)')
                           /\ Alone(p)' /\ Text' = Text /\ lease' = p
                           /\ \A i \in Pieces : Worthy(i)' <=> Worthy(i)
<1>. pass \in [Leaders -> Pass]
  BY MonShape DEF MonTypes
<1>. PICK r \in Pass : r = pass[p]
  OBVIOUS
<1>1. PICK q \in Pass : q = [r EXCEPT !.at = at]
  BY PassUpdates
<1>2. q.at = at /\ q.key = r.key /\ q.from = r.from /\ q.cursor = r.cursor /\ q.upto = r.upto /\ q.tail = r.tail
  BY <1>1 DEF Pass
<1>3. Alone(p) /\ lease = p
  BY DEF AtInv, Alone
<1>4. Step(p, q)
  BY <1>1, <1>3 DEF Step
<1>5. /\ pass'[p] = q /\ Alone(p)' /\ Text' = Text
      /\ \A i \in Pieces : Worthy(i)' <=> Worthy(i)
  BY <1>3, <1>4, StepAlone
<1>6. Fresh(q) = Fresh(r) /\ Fresh(q)' = Fresh(q)
  BY <1>2, <1>5 DEF Fresh
<1>7. TailOf(q)' = TailOf(r)
  BY <1>2 DEF TailOf, TailFrom, LastEnd, Raw, IsLast
<1>8. ReadPart(p) => ReadPart(p)'
  BY <1>2, <1>5, <1>6, <1>7 DEF ReadPart
<1>9. QED  BY <1>2, <1>3, <1>5, <1>6, <1>8

\* What is in the turn of a pass that fires: a turn that is there already is joined.
LEMMA FiresTold ==
    ASSUME MonTypes, NEW p \in Leaders, AtInv(p), pass[p].at = "fire", NEW k, k = pass[p].key,
           k \in woken
    PROVE  k[1] \in {"quiet", "lost"} /\ told[k] = {} /\ (k[1] = "quiet" => Fresh(pass[p]) = {})
<1>. pass \in [Leaders -> Pass] /\ Keyed /\ mon \in Mon
  BY MonShape DEF MonTypes
<1>1. k \in FireKeys
  BY DEF Keyed
<1>2. AtKey(p, k) /\ ~OverAt(p) /\ ~Tells(p) /\ ReadPart(p)
  BY DEF AtInv, OverAt, Tells, PassPart, Reading
<1>3. mon.cursor \in Nat
  BY DEF Mon, Cursors
<1>4. k[1] # "output"
  BY <1>2, <1>3 DEF AtKey, ReadPart, OutputKey
<1>5. k[1] \notin LastKeys
  BY <1>2 DEF AtKey
<1>6. k[1] \in {"quiet", "lost"}
  BY <1>1, <1>4, <1>5 DEF FireKeys, LastKeys
<1>7. QED  BY <1>1, <1>2, <1>6 DEF AtInv, AtTold, ReadPart

LEMMA FiresKeep ==
    ASSUME MonTypes, NEW p \in Leaders, AtInv(p), PassFires(p)
    PROVE  AtInv(p)'
<1>1. PICK at \in {"wait", "after"} : pass' = [pass EXCEPT ![p] = [pass[p] EXCEPT !.at = at]]
  BY DEF PassFires
<1>2. UNCHANGED <<proc, mon, lease, kept>> /\ pass[p].at = "fire" /\ at \in PassAts
  BY DEF PassFires, PassAts
<1>n. UNCHANGED <<proc, mon, lease>> /\ pass[p].at # "idle"
  BY <1>2
<1>3. PICK q \in Pass : /\ pass'[p] = q /\ q.at = at /\ q.key = pass[p].key /\ q.from = pass[p].from
                        /\ q.cursor = pass[p].cursor /\ Fresh(q) = Fresh(pass[p]) /\ Fresh(q)' = Fresh(q)
                        /\ (ReadPart(p) => ReadPart(p)')
                        /\ Alone(p)' /\ Text' = Text /\ lease' = p
                        /\ \A i \in Pieces : Worthy(i)' <=> Worthy(i)
  BY <1>1, <1>2, <1>n, NextAt
<1>. /\ proc \in Proc /\ mon \in Mon /\ pass \in [Leaders -> Pass] /\ Keyed
     /\ woken \subseteq FireKeys /\ told \in [FireKeys -> SUBSET Pieces]
  BY MonShape DEF MonTypes
<1>. PICK k \in FireKeys : k = pass[p].key
  BY DEF PassFires, Keyed
<1>4. /\ Tells(p)' /\ Reading(p)' /\ ~OverAt(p) /\ ~Tells(p) /\ ReadPart(p) /\ kept \subseteq woken
      /\ pass[p].from = mon.from /\ pass[p].cursor = mon.cursor /\ AtMon(p) /\ AtTold(p)
  BY <1>2, <1>3 DEF Tells, Reading, OverAt, AtInv, PassPart
<1>5. k \in woken' /\ woken \subseteq woken' /\ woken' \subseteq woken \cup {k}
  BY <1>4 DEF PassFires
<1>6. /\ \A l \in FireKeys : l # k => told'[l] = told[l]
      /\ told'[k] = (IF k[1] = "lost" THEN {} ELSE Fresh(pass[p]))
      /\ k[1] \in {"quiet", "lost"} => told'[k] = {}
      /\ k \in woken => told' = told
      /\ k \notin woken => told[k] = {}
  <2>1. CASE k \in woken
    <3>1. told' = told
      BY <1>4, <2>1 DEF PassFires
    <3>2. QED  BY <1>2, <2>1, <3>1, FiresTold
  <2>2. CASE k \notin woken
    <3>1. told' = [told EXCEPT ![k] = Input(p)]
      BY <1>4, <2>2 DEF PassFires
    <3>2. Input(p) = (IF k[1] \in {"lost", "quiet"} THEN {} ELSE Fresh(pass[p]))
      BY <1>2, InputIs
    <3>3. k[1] = "quiet" => Fresh(pass[p]) = {}
      BY <1>4 DEF ReadPart
    <3>4. told[k] = {}
      BY <1>4, <2>2 DEF AtTold
    <3>5. QED  BY <2>2, <3>1, <3>2, <3>3, <3>4
  <2>3. QED  BY <2>1, <2>2
<1>7. AtMon(p)'
  BY <1>2, <1>3, <1>4, <1>5 DEF AtMon
<1>8. PassPart(p)'
  BY <1>1, <1>2, <1>3, <1>4, <1>5, <1>6 DEF PassPart
<1>9. AtTold(p)'
  <2>0. /\ mon.from \in Nat /\ \A i \in Pieces : i \in Nat
        /\ \A i \in Fresh(pass[p]) : mon.from < i
    BY <1>4 DEF Mon, Cursors, Pieces, Fresh
  <2>1. ASSUME NEW l \in FireKeys, NEW i \in Pieces, i \in told'[l]
        PROVE  i <= mon'.from \/ (Tells(p)' /\ pass'[p].key = l)
    BY <1>2, <1>3, <1>4, <1>6, <2>1 DEF AtTold
  <2>2. \A l \in FireKeys : l \notin woken' \/ l[1] \in {"quiet", "lost"} => told'[l] = {}
    BY <1>4, <1>5, <1>6 DEF AtTold
  <2>3. ASSUME NEW i \in Pieces, NEW l \in FireKeys, l # k PROVE ~(i \in told'[k] /\ i \in told'[l])
    <3>1. i \in told[l] => i <= mon.from
      BY <1>2, <1>4 DEF AtTold
    <3>2. i \in told'[k] => mon.from < i
      BY <1>6, <2>0
    <3>3. told'[l] = told[l]
      BY <1>6, <2>3
    <3>4. QED  BY <2>0, <3>1, <3>2, <3>3
  <2>4. \A i \in Pieces, l \in FireKeys, m \in FireKeys : i \in told'[l] /\ i \in told'[m] => l = m
    <3>1. \A i \in Pieces, l \in FireKeys, m \in FireKeys : i \in told[l] /\ i \in told[m] => l = m
      BY <1>4 DEF AtTold
    <3>2. \A l \in FireKeys : l # k => told'[l] = told[l]
      BY <1>6
    <3>3. QED  BY <2>3, <3>1, <3>2
  <2>5. ASSUME NEW i \in Pieces, i <= mon'.from, Worthy(i)' PROVE \E l \in FireKeys : i \in told'[l]
    <3>1. PICK l \in FireKeys : i \in told[l]
      BY <1>2, <1>3, <1>4, <2>5 DEF AtTold
    <3>2. told'[l] = told[l]
      BY <1>6, <3>1
    <3>3. QED  BY <3>1, <3>2
  <2>6. ASSUME mon'.pattern, NEW l \in FireKeys, NEW i \in Pieces, l[1] = "output", Text'[i] = "half"
        PROVE  i \in told'[l] <=> i + 1 \in told'[l]
    <3>1. CASE l = k
      <4>1. told'[k] = Fresh(pass[p])
        BY <1>6, <2>6, <3>1
      <4>2. i \in Fresh(pass[p]) <=> i + 1 \in Fresh(pass[p])
        BY <1>2, <1>3, <2>6, <3>1, FreshWhole
      <4>3. QED  BY <3>1, <4>1, <4>2
    <3>2. CASE l # k
      BY <1>2, <1>3, <1>4, <1>6, <2>6, <3>2 DEF AtTold
    <3>3. QED  BY <3>1, <3>2
  <2>7. QED  BY <2>1, <2>2, <2>4, <2>5, <2>6 DEF AtTold
<1>10. ASSUME NEW l \in woken' PROVE AtKey(p, l)'
  <2>1. CASE l = k
    BY <1>3, <1>4, <2>1 DEF AtKey
  <2>2. CASE l \in woken /\ l # k
    <3>1. AtKey(p, l)
      BY <2>2 DEF AtInv
    <3>2. pass[p].at # "disable"
      BY <1>2
    <3>3. QED  BY <1>2, <1>4, <3>1, <3>2 DEF AtKey
  <2>3. QED  BY <1>5, <2>1, <2>2
<1>11. QED  BY <1>2, <1>3, <1>4, <1>5, <1>7, <1>8, <1>9, <1>10 DEF AtInv

LEMMA CommitsKeep ==
    ASSUME MonTypes, NEW p \in Leaders, AtInv(p), PassCommits(p)
    PROVE  AtInv(p)'
<1>1. /\ UNCHANGED <<proc, mon, lease, woken, told>> /\ pass[p].at = "wait"
      /\ pass' = [pass EXCEPT ![p] = [pass[p] EXCEPT !.at = "after"]] /\ "after" \in PassAts
  BY DEF PassCommits, PassAts
<1>2. PICK q \in Pass : /\ pass'[p] = q /\ q.at = "after" /\ q.key = pass[p].key /\ q.from = pass[p].from
                        /\ q.cursor = pass[p].cursor /\ Fresh(q) = Fresh(pass[p]) /\ Fresh(q)' = Fresh(q)
                        /\ (ReadPart(p) => ReadPart(p)')
                        /\ Alone(p)' /\ Text' = Text /\ lease' = p
                        /\ \A i \in Pieces : Worthy(i)' <=> Worthy(i)
  BY <1>1, NextAt, ZenonT(60)
<1>3. Tells(p) /\ Tells(p)' /\ Reading(p) /\ Reading(p)' /\ ~OverAt(p)
  BY <1>1, <1>2 DEF Tells, Reading, OverAt
<1>4. kept' \subseteq woken'
  BY <1>1, <1>3 DEF AtInv, PassPart, PassCommits
<1>5. AtMon(p)'
  BY <1>1, <1>2, <1>3 DEF AtInv, AtMon
<1>6. PassPart(p)'
  BY <1>1, <1>2, <1>3 DEF AtInv, PassPart
<1>7. AtTold(p)'
  BY <1>1, <1>2, <1>3 DEF AtInv, AtTold
<1>8. ASSUME NEW k \in woken' PROVE AtKey(p, k)'
  BY <1>1, <1>2, <1>3, <1>8 DEF AtInv, AtKey
<1>9. QED  BY <1>2, <1>4, <1>5, <1>6, <1>7, <1>8 DEF AtInv

\* The cursor moves past what the turn was told.
LEMMA AdvancesKeep ==
    ASSUME MonTypes, NEW p \in Leaders, AtInv(p), PassAdvances(p)
    PROVE  AtInv(p)'
<1>. /\ proc \in Proc /\ mon \in Mon /\ pass \in [Leaders -> Pass] /\ Keyed
  BY MonShape DEF MonTypes
<1>. PICK r \in Pass : r = pass[p]
  OBVIOUS
<1>1. UNCHANGED <<proc, woken, told, kept>> /\ r.at \in {"after", "skip"}
  BY DEF PassAdvances
<1>2. /\ Reading(p) /\ ~OverAt(p) /\ ReadPart(p) /\ AtMon(p) /\ AtTold(p) /\ Alone(p) /\ PassPart(p) /\ lease = p
      /\ mon.at # "none" /\ kept \subseteq woken
  BY <1>1 DEF Reading, OverAt, AtInv, PassPart, AtMon
<1>3. mon' = mon \/ mon' = Disabled(mon)
      \/ \E n : mon' = [mon EXCEPT !.cursor = r.upto, !.from = r.tail, !.fired = n]
  BY DEF PassAdvances
<1>4. mon'.pattern = mon.pattern /\ mon'.at # "none"
  BY <1>2, <1>3 DEF Disabled, Mon
<1>5. PICK q : /\ pass' = [pass EXCEPT ![p] = q] /\ (q.at # "idle" => lease' = p)
               /\ \/ q.at = "idle" /\ r.key[1] \notin LastKeys
                  \/ q.at = "disable" /\ q.key = r.key /\ r.key[1] \in LastKeys
  <2>1. CASE r.key[1] \in LastKeys
    <3>1. PICK q \in Pass : q = [r EXCEPT !.at = "disable"]
      BY PassUpdates DEF PassAts
    <3>2. q.at = "disable" /\ q.key = r.key
      BY <3>1 DEF Pass
    <3>3. pass' = [pass EXCEPT ![p] = q] /\ lease' = lease
      BY <2>1, <3>1 DEF PassAdvances, LastKeys
    <3>4. QED  BY <1>2, <2>1, <3>2, <3>3
  <2>2. CASE r.key[1] \notin LastKeys
    <3>1. pass' = [pass EXCEPT ![p] = NoPass]
      BY <2>2 DEF PassAdvances, LastKeys, Ends
    <3>2. QED  BY <2>2, <3>1, NoPassType
  <2>3. QED  BY <2>1, <2>2
<1>6. Step(p, q)
  BY <1>1, <1>4, <1>5 DEF Step
<1>7. /\ pass'[p] = q /\ Alone(p)' /\ Text' = Text
      /\ \A i \in Pieces : Worthy(i)' <=> Worthy(i)
  BY <1>2, <1>6, StepAlone
<1>8. ~Tells(p)' /\ ~Reading(p)' /\ pass'[p].at \in {"idle", "disable"}
  BY <1>5, <1>7 DEF Tells, Reading
<1>9. PassPart(p)'
  BY <1>5, <1>7, <1>8 DEF PassPart
<1>10. /\ Tells(p) => told[r.key] = (IF r.key[1] = "lost" THEN {} ELSE Fresh(r))
       /\ ~Tells(p) => r.key = NoKey /\ Fresh(r) = {}
  <2>1. ~Tells(p) => r.at = "skip"
    BY <1>1 DEF Tells
  <2>2. r.at = "skip" => r.key = NoKey
    BY <1>2 DEF PassPart
  <2>3. r.key = NoKey => Fresh(r) = {}
    BY <1>2 DEF ReadPart, NoKey
  <2>4. QED  BY <1>2, <2>1, <2>2, <2>3 DEF PassPart
\* The monitor is gone, or goes with its lost job.
<1>11. CASE mon'.at \in {"off", "gone"} /\ mon'.cursor = mon.cursor /\ mon'.from = mon.from
  <2>1. AtMon(p)'
    BY <1>1, <1>2, <1>4, <1>7, <1>8, <1>11 DEF AtMon, OverAt
  <2>2. AtTold(p)'
    BY <1>1, <1>2, <1>4, <1>7, <1>8, <1>11 DEF AtTold
  <2>3. ASSUME NEW k \in woken' PROVE AtKey(p, k)'
    <3>1. AtKey(p, k)
      BY <1>1, <2>3 DEF AtInv
    <3>2. pass[p].at # "disable"
      BY <1>1
    <3>3. CASE pass'[p].at = "idle"
      BY <1>11, <3>3 DEF AtKey, OverAt
    <3>4. CASE pass'[p].at = "disable"
      <4>1. pass'[p].key = r.key /\ r.key[1] \in LastKeys
        BY <1>5, <1>7, <3>4
      <4>2. k[1] = "output" => k[2] < mon'.cursor
        BY <1>2, <1>11, <3>1, <4>1 DEF AtKey, LastKeys
      <4>3. k[1] \in LastKeys => pass'[p].key = k
        BY <1>2, <3>1, <3>2, <4>1 DEF AtKey
      <4>4. QED  BY <3>4, <4>2, <4>3 DEF AtKey
    <3>5. QED  BY <1>8, <3>3, <3>4
  <2>4. QED  BY <1>1, <1>2, <1>7, <1>9, <2>1, <2>2, <2>3 DEF AtInv
\* It goes on.
<1>12. CASE mon'.at = mon.at /\ mon'.cursor = r.upto /\ mon'.from = r.tail /\ r.key[1] # "lost"
  <2>1. /\ r.from = mon.from /\ mon.from <= mon.cursor /\ mon.cursor <= r.upto /\ r.upto <= proc.len
        /\ r.from <= r.tail /\ r.tail <= r.upto
        /\ ~mon.pattern => r.tail = r.upto
        /\ mon.pattern => r.key[1] \in LastKeys \cup {"lost"} \/ r.tail = r.from \/ Text[r.tail] # "half"
        /\ \A i \in Pieces : r.tail < i /\ i <= r.upto => Text[i] = "half"
        /\ {mon.from, mon.cursor, r.from, r.upto, r.tail} \subseteq Nat
    BY <1>2, ReadingFacts
  <2>2. mon.pattern => mon.from = 0 \/ Text[mon.from] # "half"
    BY <1>1, <1>2 DEF AtMon
  <2>3. mon.pattern => r.tail = 0 \/ Text[r.tail] # "half" \/ pass'[p].at = "disable"
    <3>1. r.key[1] \in LastKeys => pass'[p].at = "disable"
      BY <1>5, <1>7
    <3>2. QED  BY <1>12, <2>1, <2>2, <3>1
  <2>4. AtMon(p)'
    <3>1. /\ r.tail <= r.upto /\ r.upto <= proc.len
          /\ ~mon.pattern => r.tail = r.upto
          /\ \A i \in Pieces : r.tail < i /\ i <= r.upto => Text[i] = "half"
      BY <2>1
    <3>2. \A i \in Pieces : Text[i] = "half" => i + 1 \in Pieces /\ Text[i + 1] = "line"
      BY <1>2 DEF AtMon
    <3>3. QED  BY <1>1, <1>4, <1>7, <1>12, <2>3, <3>1, <3>2 DEF AtMon
  <2>5. AtTold(p)'
    <3>0. mon.from <= r.tail /\ \A i \in Pieces : i \in Nat
      BY <2>1 DEF Pieces
    <3>1. ASSUME NEW k \in FireKeys, NEW i \in Pieces, i \in told[k] PROVE i <= r.tail
      <4>1. i <= mon.from \/ (Tells(p) /\ r.key = k)
        BY <1>1, <1>2, <3>1 DEF AtTold
      <4>2. Tells(p) /\ r.key = k => i \in Fresh(r)
        BY <1>10, <3>1
      <4>3. QED  BY <2>1, <3>0, <4>1, <4>2 DEF Fresh
    <3>2. ASSUME NEW i \in Pieces, i <= r.tail, Worthy(i) PROVE \E k \in FireKeys : i \in told[k]
      <4>1. CASE i <= mon.from
        BY <1>2, <3>2, <4>1 DEF AtTold
      <4>2. CASE mon.from < i
        <5>1. i \in Fresh(r)
          BY <2>1, <3>2, <4>2 DEF Fresh
        <5>2. Tells(p) /\ told[r.key] = Fresh(r)
          BY <1>10, <1>12, <5>1
        <5>3. r.key \in FireKeys
          BY <5>2 DEF Tells, Keyed
        <5>4. QED  BY <5>1, <5>2, <5>3
      <4>3. QED  BY <2>1, <3>0, <4>1, <4>2
    <3>3. /\ \A k \in FireKeys : k \notin woken \/ k[1] \in {"quiet", "lost"} => told[k] = {}
          /\ \A i \in Pieces, k \in FireKeys, l \in FireKeys : i \in told[k] /\ i \in told[l] => k = l
          /\ mon.pattern => \A k \in FireKeys, i \in Pieces :
                k[1] = "output" /\ Text[i] = "half" => (i \in told[k] <=> i + 1 \in told[k])
      BY <1>2 DEF AtTold
    <3>4. QED  BY <1>1, <1>4, <1>7, <1>12, <3>1, <3>2, <3>3 DEF AtTold
  <2>6. ASSUME NEW k \in woken' PROVE AtKey(p, k)'
    <3>1. AtKey(p, k) /\ pass[p].at # "disable"
      BY <1>1, <2>6 DEF AtInv
    <3>2. ASSUME k[1] = "output" PROVE k[2] < r.upto
      <4>1. k[2] < mon.cursor \/ (Tells(p) /\ r.key = k)
        BY <1>2, <3>1, <3>2 DEF AtKey
      <4>2. CASE r.key = k
        BY <1>2, <3>2, <4>2 DEF ReadPart, OutputKey
      <4>3. CASE k[2] < mon.cursor
        <5>1. k \in FireKeys
          BY <1>1, <2>6, MonShape DEF MonTypes
        <5>2. k[2] \in Nat
          BY <3>2, <5>1 DEF FireKeys, Cursors
        <5>3. QED  BY <2>1, <4>3, <5>2
      <4>4. QED  BY <4>1, <4>2, <4>3
    <3>3. ASSUME k[1] \in LastKeys PROVE pass'[p].at = "disable" /\ pass'[p].key = k
      <4>1. r.key = k
        BY <1>2, <3>1, <3>3 DEF AtKey
      <4>2. QED  BY <1>5, <1>7, <3>3, <4>1
    <3>4. QED  BY <1>12, <3>2, <3>3 DEF AtKey
  <2>7. QED  BY <1>1, <1>2, <1>7, <1>9, <2>4, <2>5, <2>6 DEF AtInv
<1>13. QED
  <2>1. CASE mon.at = "gone"
    <3>1. mon' = mon
      BY <2>1 DEF PassAdvances
    <3>2. QED  BY <1>11, <2>1, <3>1
  <2>2. CASE mon.at # "gone" /\ r.key[1] = "lost"
    <3>1. mon' = Disabled(mon)
      BY <2>2 DEF PassAdvances
    <3>2. mon'.at \in {"off", "gone"} /\ mon'.cursor = mon.cursor /\ mon'.from = mon.from
      BY <1>2, <2>2, <3>1 DEF Disabled, Mon
    <3>3. QED  BY <1>11, <3>2
  <2>3. CASE mon.at # "gone" /\ r.key[1] # "lost"
    <3>1. PICK n : mon' = [mon EXCEPT !.cursor = r.upto, !.from = r.tail, !.fired = n]
      BY <2>3 DEF PassAdvances
    <3>2. mon'.at = mon.at /\ mon'.cursor = r.upto /\ mon'.from = r.tail
      BY <3>1 DEF Mon
    <3>3. QED  BY <1>12, <2>3, <3>2
  <2>4. QED  BY <2>1, <2>2, <2>3

-----------------------------------------------------------------------------
(* All of them.                                                                        *)

\* As long as no pass is cut off after its fire and no lease is lost under a pass.
MonSound == ~cut => MonInv

LEMMA PassKeeps ==
    ASSUME MonTypes, MonInv, ~cut', NEW p \in Leaders,
           PassStarts(p) \/ PassSteps(p) \/ PassDenied(p) \/ PassBreaks(p)
    PROVE  MonInv'
<1>1. Alone(p)
  <2>1. CASE PassStarts(p)
    <3>1. lease = NoLeader /\ NoLeader \notin Leaders
      BY <2>1, MonitorAssumption DEF PassStarts
    <3>2. \A o \in Leaders : pass[o].at = "idle"
      BY <3>1 DEF MonInv, PassPart
    <3>3. QED  BY <3>2 DEF Alone
  <2>2. CASE pass[p].at # "idle"
    BY <2>2, OthersIdle DEF Alone
  <2>3. QED
    BY <2>1, <2>2 DEF PassSteps, PassReads, PassFires, PassCommits, PassAdvances, PassDisables, PassDenied, PassBreaks
<1>2. AtInv(p)
  BY <1>1, SeenFrom
<1>3. AtInv(p)'
  <2>1. CASE PassStarts(p)
    BY <1>2, <2>1, StartsKeep
  <2>2. CASE PassReads(p)
    BY <1>2, <2>2, ReadsKeep
  <2>3. CASE PassFires(p)
    BY <1>2, <2>3, FiresKeep
  <2>4. CASE PassCommits(p)
    BY <1>2, <2>4, CommitsKeep
  <2>5. CASE PassAdvances(p)
    BY <1>2, <2>5, AdvancesKeep
  <2>6. CASE PassDisables(p)
    BY <1>2, <2>6, LastEnds
  <2>7. CASE PassDenied(p)
    <3>1. /\ Ends(p) /\ pass[p].at \in {"listed", "fire", "skip"} /\ UNCHANGED <<proc, woken, told, kept>>
          /\ mon' = Disabled(mon)
      BY <2>7 DEF PassDenied
    <3>2. QED  BY <1>2, <3>1, QuietEnd
  <2>8. CASE PassBreaks(p)
    <3>1. pass[p].at \in PassAts
      BY MonShape DEF MonTypes, Pass
    <3>2. /\ Ends(p) /\ pass[p].at \in {"listed", "fire", "skip"} /\ UNCHANGED <<proc, woken, told, kept>>
          /\ mon' = mon
      BY <2>8, <3>1 DEF PassBreaks, PassAts
    <3>3. QED  BY <1>2, <3>2, QuietEnd
  <2>9. QED  BY <2>1, <2>2, <2>3, <2>4, <2>5, <2>6, <2>7, <2>8 DEF PassSteps
<1>4. Alone(p)'
  BY <1>3 DEF AtInv
<1>5. MonInv' <=> AtInv(p)'
  BY <1>4, SeenAfter
<1>6. QED  BY <1>3, <1>5

LEMMA MonSoundInit == MonInit => MonSound
<1>. SUFFICES ASSUME MonInit PROVE MonInv
  BY DEF MonSound
<1>1. PICK text \in [Pieces -> PieceKinds], pattern \in BOOLEAN :
        /\ \A i \in Pieces : text[i] = "half" => i < MaxPieces /\ text[i + 1] = "line"
        /\ proc = [text |-> text, len |-> 0, at |-> "running"]
        /\ mon = [at |-> "none", pattern |-> pattern, late |-> FALSE, cursor |-> 0, from |-> 0, fired |-> 0]
  BY DEF MonInit
<1>2. /\ pass = [p \in Leaders |-> NoPass] /\ woken = {} /\ told = [k \in FireKeys |-> {}] /\ kept = {}
  BY DEF MonInit
<1>3. mon.from = 0 /\ mon.cursor = 0 /\ proc.len = 0 /\ Text = text
  BY <1>1 DEF Text
<1>4. \A i \in Pieces : i \in Nat /\ i # 0 /\ (i < MaxPieces => i + 1 \in Pieces)
  BY MonitorAssumption DEF Pieces
<1>5. AllIdle
  BY <1>2, NoPassType DEF AllIdle
<1>6. MonPart
  <2>1. \A i \in Pieces : Text[i] = "half" => i + 1 \in Pieces /\ Text[i + 1] = "line"
    BY <1>1, <1>3, <1>4
  <2>2. \A i \in Pieces : ~(mon.from < i /\ i <= mon.cursor)
    BY <1>3, <1>4
  <2>3. mon.from <= mon.cursor /\ mon.cursor <= proc.len
    BY <1>3
  <2>4. QED  BY <1>2, <1>3, <1>5, <2>1, <2>2, <2>3 DEF MonPart
<1>7. ToldPart
  <2>1. \A k \in FireKeys : told[k] = {}
    BY <1>2
  <2>2. \A i \in Pieces : ~(i <= mon.from)
    BY <1>3, <1>4
  <2>3. QED  BY <2>1, <2>2 DEF ToldPart
<1>8. \A p \in Leaders : PassPart(p)
  BY <1>5 DEF AllIdle, PassPart, Reading, Tells
<1>9. QED  BY <1>2, <1>6, <1>7, <1>8 DEF MonInv

LEMMA MonSoundStep == MonTypes /\ MonSound /\ [MonNext]_monVars => MonSound'
<1>. SUFFICES ASSUME MonTypes, MonSound, [MonNext]_monVars, ~cut' PROVE MonInv'
  BY DEF MonSound
<1>1. ~cut
  <2>1. CASE UNCHANGED monVars
    BY <2>1 DEF monVars
  <2>2. CASE MonNext
    BY <2>2 DEF MonNext, Watches, Writes, Exits, IsLost, Expires, Unwatches, PassStarts, PassSteps, PassReads,
                PassFires, PassCommits, PassAdvances, PassDisables, PassDenied, PassBreaks, LeaseLost
  <2>3. QED  BY <2>1, <2>2
<1>2. MonInv
  BY <1>1 DEF MonSound
<1>3. proc' \in Proc /\ proc \in Proc
  <2>1. MonTypes'
    BY MonStepType
  <2>2. QED  BY <2>1, MonShape DEF MonTypes, MonTypeOK, Proc
<1>4. CASE Watches \/ Writes \/ Exits \/ IsLost \/ Expires \/ Unwatches
  BY <1>2, <1>3, <1>4, WorldActions, WorldKeeps
<1>5. CASE UNCHANGED monVars
  <2>1. WorldStep
    <3>1. proc.len \in Nat
      BY <1>3 DEF Proc, Cursors
    <3>2. QED  BY <1>5, <3>1 DEF monVars, WorldStep, Text
  <2>2. QED  BY <1>2, <1>3, <2>1, WorldKeeps
<1>6. ASSUME NEW p \in Leaders, PassStarts(p) \/ PassSteps(p) \/ PassDenied(p) \/ PassBreaks(p) PROVE MonInv'
  BY <1>2, <1>6, PassKeeps
<1>7. ASSUME NEW p \in Leaders, LeaseLost(p) PROVE MonInv'
  BY <1>7 DEF LeaseLost
<1>8. QED  BY <1>4, <1>5, <1>6, <1>7 DEF MonNext

\* The invariant that the two theorems about what is told rest on.
THEOREM WatchSound == MonSpec => [](MonTypes /\ MonSound)
<1>1. MonInit => MonTypes
  BY MonInitType, NoPassType DEF MonTypes, MonInit, Keyed
<1>2. QED  BY <1>1, MonSoundInit, MonStepType, MonSoundStep, PTL DEF MonSpec

\* Output is told once and nothing that the cursor has passed is left out, however many
\* pieces, processes and heartbeats there are.
THEOREM OutputToldOnce == MonSpec => []ToldOnce
<1>1. MonTypes /\ MonSound => ToldOnce
  <2>. SUFFICES ASSUME MonTypes, MonSound, ~cut, NEW i \in Pieces
                PROVE  /\ Cardinality(ToldIn(i)) <= 1
                       /\ i <= mon.from /\ Worthy(i) => ToldIn(i) # {}
    BY DEF ToldOnce
  <2>1. ToldPart
    BY DEF MonSound, MonInv
  <2>2. i <= mon.from /\ Worthy(i) => ToldIn(i) # {}
    BY <2>1 DEF ToldPart, ToldIn
  <2>3. \A k \in ToldIn(i), l \in ToldIn(i) : k = l
    BY <2>1 DEF ToldPart, ToldIn
  <2>4. CASE ToldIn(i) = {}
    BY <2>2, <2>4, FS_EmptySet
  <2>5. ASSUME NEW k \in ToldIn(i) PROVE Cardinality(ToldIn(i)) <= 1
    <3>1. ToldIn(i) = {k}
      BY <2>3
    <3>2. QED  BY <3>1, FS_Singleton
  <2>6. QED  BY <2>2, <2>4, <2>5
<1>2. QED  BY <1>1, WatchSound, PTL

\* A turn that is woken for output is told both halves of a line or neither.
THEOREM HalvesTogether == MonSpec => []LinesStayWhole
<1>1. MonTypes /\ MonSound => LinesStayWhole
  BY DEF MonSound, MonInv, ToldPart, LinesStayWhole, Text
<1>2. QED  BY <1>1, WatchSound, PTL

-----------------------------------------------------------------------------
(* The composition of MCSignals: what TLC explores of each component is    *)
(* what the component's own specification allows.                          *)

\* Every behaviour of the composition is one of each of its components.
THEOREM WordsStandAlone == MCSpec => SigSpec /\ MonSpec /\ AskSpec
<1>1. MCInit => SigInit /\ MonInit /\ AskInit
  BY DEF MCInit
<1>2. ASSUME [MCNext]_<<part, sigVars, monVars, askVars>>
      PROVE  [SigNext]_sigVars /\ [MonNext]_monVars /\ [AskNext]_askVars
  <2>1. CASE UNCHANGED <<part, sigVars, monVars, askVars>>
    BY <2>1
  <2>2. CASE MCNext
    <3>1. [SigNext]_sigVars
      BY <2>2 DEF MCNext, StandsStill
    <3>2. [MonNext]_monVars
      BY <2>2 DEF MCNext, StandsStill
    <3>3. [AskNext]_askVars
      BY <2>2 DEF MCNext, StandsStill
    <3>4. QED  BY <3>1, <3>2, <3>3
  <2>3. QED  BY <1>2, <2>1, <2>2
<1>3. QED  BY <1>1, <1>2, PTL DEF MCSpec, SigSpec, MonSpec, AskSpec

\* So the tables of signals, watches and asks keep their shape, whatever fails.
THEOREM WordTypesCorrect == MCSpec => []WordTypesOK
<1>1. SigTypeOK /\ MonTypeOK /\ AskTypeOK => WordTypesOK
  BY DEF WordTypesOK
<1>2. QED  BY <1>1, WordsStandAlone, SigTypeCorrect, MonTypeCorrect, AskTypeCorrect, PTL
=============================================================================
