---------------------------- MODULE KeychainAsks ----------------------------
(***************************************************************************)
(* Asking somebody for the use of a credential (credentials/keychain.ts,   *)
(* api/routes/keychain.ts).  The owner approves or declines the ask, grants *)
(* the credential in the room, or lets the ask expire; the asker is then   *)
(* told by a turn in the thread of the ask, or by a plain message when the *)
(* turn does not land (triggers/keychain-ask.ts).  The route that resolved *)
(* the ask fires that turn; a sweep, which rides on the scheduler's tick,  *)
(* fires for every resolved ask that is not marked notified.  An ask need  *)
(* not have a destination, and the asker may not be let see the one it     *)
(* has: then there is no plain message, and the ask is marked all the same.*)
(*                                                                         *)
(* An ask is read and written by statements of their own.  A fire's key is *)
(* the ask and the status it was read with; the keys in flight are known   *)
(* to one process, the keys that are done and the runs to all of them.     *)
(***************************************************************************)
EXTENDS Naturals, FiniteSets

CONSTANTS
    Asks,
    Callers,      \* calls of the owner
    AskAnswers,   \* what the owner does, a subset of OwnerAnswers
    Cores,        \* core processes, each of which may sweep
    MaxAskFaults  \* bound on what throws, turns that are not allowed and processes that die

OwnerAnswers == {"approved", "declined", "adopted"}

ASSUME AsksAssumption ==
    Asks # {} /\ MaxAskFaults \in Nat /\ Callers \cap Cores = {} /\ AskAnswers \subseteq OwnerAnswers

VARIABLES
    ask,        \* the asks in the store
    answer,     \* the owner's calls
    sweep,      \* each process's copy of the asks that its sweep goes through
    fire,       \* the fire of each call and of each sweep
    askRun,     \* the run of each key
    doneKeys,   \* keys whose turn is over
    fallback,   \* keys whose plain message was enqueued
    unreached,  \* history: asks whose plain message had nowhere to go once
    askFaults

askVars == <<ask, answer, sweep, fire, askRun, doneKeys, fallback, unreached, askFaults>>

Resolved == {"approved", "declined", "expired"}
AskKeys  == Asks \X Resolved
Firers   == Callers \cup Cores

\* "late" is a pending ask whose time is over.
Statuses == {"none", "pending", "late", "gone"} \cup Resolved
NoAnswer(p) == [at |-> "idle", kind |-> "approved", of |-> CHOOSE a \in Asks : TRUE, on |-> p]
NoFire   == [at |-> "idle", key |-> CHOOSE k \in AskKeys : TRUE]

AskFault == askFaults < MaxAskFaults /\ askFaults' = askFaults + 1

AskInit ==
    /\ ask = [a \in Asks |-> [st |-> "none", told |-> FALSE]]
    /\ \E home \in [Callers -> Cores] : answer = [c \in Callers |-> NoAnswer(home[c])]
    /\ sweep = [p \in Cores |-> [a \in Asks |-> "none"]]
    /\ fire = [f \in Firers |-> NoFire]
    /\ askRun = [k \in AskKeys |-> "none"]
    /\ doneKeys = {} /\ fallback = {} /\ unreached = {} /\ askFaults = 0

\* merge
Merged(a, st) == [ask EXCEPT ![a].st = st]

-----------------------------------------------------------------------------
(* Asks and answers.                                                       *)

Creates(a) ==
    /\ ask[a].st = "none"
    /\ ask' = [ask EXCEPT ![a].st = "pending"]
    /\ UNCHANGED <<answer, sweep, fire, askRun, doneKeys, fallback, unreached, askFaults>>

ExpiryPasses(a) ==
    /\ ask[a].st = "pending"
    /\ ask' = [ask EXCEPT ![a].st = "late"]
    /\ UNCHANGED <<answer, sweep, fire, askRun, doneKeys, fallback, unreached, askFaults>>

\* approveAsk, declineAsk, and a grant in the room that adopts the ask: the ask is read
\* and must be pending; one that is late is marked expired by freshAsk and answered no
\* more.
AnswerReads(c, a, kind) ==
    /\ answer[c].at = "idle" /\ ask[a].st \in {"pending", "late"}
    /\ answer' = [answer EXCEPT ![c] = [@ EXCEPT !.at = IF ask[a].st = "late" THEN "expire" ELSE "merge",
                                                 !.kind = kind, !.of = a]]
    /\ UNCHANGED <<ask, sweep, fire, askRun, doneKeys, fallback, unreached, askFaults>>

AnswerExpires(c) ==
    /\ answer[c].at = "expire"
    /\ ask' = Merged(answer[c].of, "expired")
    /\ answer' = [answer EXCEPT ![c].at = "refused"]
    /\ UNCHANGED <<sweep, fire, askRun, doneKeys, fallback, unreached, askFaults>>

StatusOf(kind) == IF kind = "adopted" THEN "approved" ELSE kind

\* The grant, if any, is minted and the answer written; the turn is fired without
\* waiting for it.  An ask that is adopted counts as notified.
AnswerMerges(c) ==
    /\ answer[c].at = "merge"
    /\ LET a == answer[c].of
           st == StatusOf(answer[c].kind) IN
       IF answer[c].kind = "adopted"
       THEN /\ ask' = [Merged(a, st) EXCEPT ![a].told = TRUE]
            /\ UNCHANGED fire
       ELSE /\ ask' = Merged(a, st)
            /\ fire' = [fire EXCEPT ![c] = [at |-> "once", key |-> <<a, st>>]]
    /\ answer' = [answer EXCEPT ![c].at = "over"]
    /\ UNCHANGED <<sweep, askRun, doneKeys, fallback, unreached, askFaults>>

-----------------------------------------------------------------------------
(* The sweep.                                                              *)

\* What the sweep has to do about an ask.
Due(a) == IF ask[a].st = "late" \/ (ask[a].st \in Resolved /\ ~ask[a].told) THEN ask[a].st ELSE "none"

\* unnotifiedResolvedAsks reads the asks; those that were told long ago are deleted.
SweepLists(p) ==
    /\ \A a \in Asks : sweep[p][a] = "none"
    /\ \E a \in Asks : Due(a) # "none"
    /\ sweep' = [sweep EXCEPT ![p] = [a \in Asks |-> Due(a)]]
    /\ UNCHANGED <<ask, answer, fire, askRun, doneKeys, fallback, unreached, askFaults>>

SweepExpires(p, a) ==
    /\ sweep[p][a] = "late"
    /\ ask' = Merged(a, "expired")
    /\ sweep' = [sweep EXCEPT ![p][a] = "expired"]
    /\ UNCHANGED <<answer, fire, askRun, doneKeys, fallback, unreached, askFaults>>

SweepFires(p, a) ==
    /\ fire[p].at = "idle" /\ sweep[p][a] \in Resolved
    /\ \A b \in Asks : sweep[p][b] # "late"
    /\ fire' = [fire EXCEPT ![p] = [at |-> "once", key |-> <<a, sweep[p][a]>>]]
    /\ sweep' = [sweep EXCEPT ![p][a] = "none"]
    /\ UNCHANGED <<ask, answer, askRun, doneKeys, fallback, unreached, askFaults>>

\* Days later there is no call, sweep or fire about the ask.
Prunes(a) ==
    /\ ask[a].st \in Resolved /\ ask[a].told
    /\ \A p \in Cores : sweep[p][a] = "none"
    /\ \A c \in Callers : answer[c].of = a => answer[c].at \notin {"expire", "merge"}
    /\ \A f \in Firers : fire[f].key[1] = a => fire[f].at = "idle"
    /\ ask' = [ask EXCEPT ![a].st = "gone"]
    /\ UNCHANGED <<answer, sweep, fire, askRun, doneKeys, fallback, unreached, askFaults>>

-----------------------------------------------------------------------------
(* fireAskResolution.                                                      *)

On(f) == IF f \in Cores THEN f ELSE answer[f].on

InFlight(p) == {fire[g].key : g \in {h \in Firers : On(h) = p /\ fire[h].at \in {"look", "wait"}}}

Goes(f, at) == fire' = [fire EXCEPT ![f].at = at]

\* once: a key in flight in this process is not run.
FireOnce(f) ==
    /\ fire[f].at = "once"
    /\ Goes(f, IF fire[f].key \in InFlight(On(f)) THEN "check" ELSE "look")
    /\ UNCHANGED <<ask, answer, sweep, askRun, doneKeys, fallback, unreached, askFaults>>

\* The owner of the turn may be internal no more.
FireDenied(f) ==
    /\ fire[f].at = "once" /\ AskFault
    /\ Goes(f, "fallback")
    /\ UNCHANGED <<ask, answer, sweep, askRun, doneKeys, fallback, unreached>>

\* He may have left the room of the ask: nothing is run, though the key is done.
FireBarred(f) ==
    /\ fire[f].at = "look" /\ fire[f].key \notin doneKeys /\ AskFault
    /\ doneKeys' = doneKeys \cup {fire[f].key}
    /\ Goes(f, "fallback")
    /\ UNCHANGED <<ask, answer, sweep, askRun, fallback, unreached>>

\* A key that is done is not run either; otherwise the turn is started, or joined if
\* there is a run of that key.
FireLooks(f) ==
    /\ fire[f].at = "look"
    /\ LET k == fire[f].key IN
       IF k \in doneKeys
       THEN Goes(f, "check") /\ UNCHANGED askRun
       ELSE Goes(f, "wait") /\ askRun' = [askRun EXCEPT ![k] = IF @ = "none" THEN "running" ELSE @]
    /\ UNCHANGED <<ask, answer, sweep, doneKeys, fallback, unreached, askFaults>>

\* The run ends (modelled in RunQueue), with an answer or without one.
AskRunEnds(k) ==
    /\ askRun[k] = "running"
    /\ \E e \in {"ok", "failed"} : askRun' = [askRun EXCEPT ![k] = e]
    /\ UNCHANGED <<ask, answer, sweep, fire, doneKeys, fallback, unreached, askFaults>>

\* Mutated form: a turn that did not land tells nobody.
AfterRunAlwaysMark(e) == "mark"

AfterRun(e) == IF e = "ok" THEN "mark" ELSE "fallback"

FireReturns(f) ==
    /\ fire[f].at = "wait" /\ askRun[fire[f].key] \in {"ok", "failed"}
    /\ doneKeys' = doneKeys \cup {fire[f].key}
    /\ Goes(f, AfterRun(askRun[fire[f].key]))
    /\ UNCHANGED <<ask, answer, sweep, askRun, fallback, unreached, askFaults>>

\* What did not run and is not marked notified gets the plain message.
FireChecks(f) ==
    /\ fire[f].at = "check"
    /\ Goes(f, IF ask[fire[f].key[1]].told THEN "mark" ELSE "fallback")
    /\ UNCHANGED <<ask, answer, sweep, askRun, doneKeys, fallback, unreached, askFaults>>

\* The plain message, if the ask has a destination and the directory lets the asker see it.
FallsBack(f) ==
    /\ fire[f].at = "fallback"
    /\ \/ fallback' = fallback \cup {fire[f].key} /\ UNCHANGED unreached
       \/ unreached' = unreached \cup {fire[f].key[1]} /\ UNCHANGED fallback
    /\ Goes(f, "mark")
    /\ UNCHANGED <<ask, answer, sweep, askRun, doneKeys, askFaults>>

\* Mutated form: the mark is not written.
ToldNot(a) == ask

Told(a) == [ask EXCEPT ![a].told = TRUE]

\* markAskNotified, by the route or the sweep.
Marks(f) ==
    /\ fire[f].at = "mark"
    /\ ask' = Told(fire[f].key[1])
    /\ fire' = [fire EXCEPT ![f] = NoFire]
    /\ UNCHANGED <<answer, sweep, askRun, doneKeys, fallback, unreached, askFaults>>

\* Something throws: the ask is left to the next sweep.
FireThrows(f) ==
    /\ fire[f].at # "idle" /\ AskFault
    /\ fire' = [fire EXCEPT ![f] = NoFire]
    /\ UNCHANGED <<ask, answer, sweep, askRun, doneKeys, fallback, unreached>>

\* A process dies: its calls, its sweep and its fires are gone.  Runs are taken up by
\* the worker of another one.
CoreDies(p) ==
    /\ AskFault
    /\ answer' = [c \in Callers |-> IF On(c) = p /\ answer[c].at \in {"expire", "merge"}
                                    THEN [answer[c] EXCEPT !.at = "dead"] ELSE answer[c]]
    /\ sweep' = [sweep EXCEPT ![p] = [a \in Asks |-> "none"]]
    /\ fire' = [f \in Firers |-> IF On(f) = p THEN NoFire ELSE fire[f]]
    /\ UNCHANGED <<ask, askRun, doneKeys, fallback, unreached>>

-----------------------------------------------------------------------------
FireSteps(f) ==
    \/ FireOnce(f) \/ FireLooks(f) \/ FireReturns(f) \/ FireChecks(f) \/ FallsBack(f) \/ Marks(f)
SweepSteps(p) == SweepLists(p) \/ \E a \in Asks : SweepExpires(p, a) \/ SweepFires(p, a)

AskNext ==
    \/ \E a \in Asks : Creates(a) \/ ExpiryPasses(a) \/ Prunes(a)
    \/ \E c \in Callers :
         \/ AnswerExpires(c) \/ AnswerMerges(c)
         \/ \E a \in Asks, kind \in AskAnswers : AnswerReads(c, a, kind)
    \/ \E p \in Cores : SweepSteps(p) \/ CoreDies(p)
    \/ \E f \in Firers : FireSteps(f) \/ FireDenied(f) \/ FireBarred(f) \/ FireThrows(f)
    \/ \E k \in AskKeys : AskRunEnds(k)

AskSpec == AskInit /\ [][AskNext]_askVars

AskProgress ==
    \/ \E f \in Firers : FireSteps(f)
    \/ \E p \in Cores : SweepSteps(p)
    \/ \E k \in AskKeys : AskRunEnds(k)

\* The scheduler ticks in every process, promises settle and runs end.  There are
\* finitely many of these steps, so that it is enough that one of them is taken whenever
\* one can be.
AskFairness == WF_askVars(AskProgress)
-----------------------------------------------------------------------------
AskTypeOK ==
    /\ ask \in [Asks -> [st : Statuses, told : BOOLEAN]]
    /\ sweep \in [Cores -> [Asks -> {"none", "late"} \cup Resolved]]
    /\ answer \in [Callers -> [at : {"idle", "expire", "merge", "over", "refused", "dead"},
                               of : Asks, on : Cores, kind : OwnerAnswers]]
    /\ fire \in [Firers -> [at : {"idle", "once", "look", "wait", "check", "fallback", "mark"},
                            key : AskKeys]]
    /\ askRun \in [AskKeys -> {"none", "running", "ok", "failed"}]
    /\ doneKeys \cup fallback \subseteq AskKeys /\ unreached \subseteq Asks /\ askFaults \in 0 .. MaxAskFaults

\* An adoption that came too late is refused and tells nobody.
Adopts(c, a) == answer[c].kind = "adopted" /\ answer[c].of = a /\ answer[c].at = "over"

\* An ask that is marked notified has had its turn end well in the thread of the ask, or
\* the plain message enqueued, or was adopted in the asker's own room, or else a fire came
\* to the plain message and had nowhere to send it (no destination, or none that the
\* asker can see).  No crash, exception, late answer or race of the route with the sweep
\* marks an ask before one of these.  (The reply of the turn itself goes out under the
\* same condition on the destination as the plain message.)
NotifiedWasTold ==
    \A a \in Asks : ask[a].told =>
        \/ \E st \in Resolved : askRun[<<a, st>>] = "ok" \/ <<a, st>> \in fallback
        \/ a \in unreached
        \/ \E c \in Callers : Adopts(c, a)

\* An ask that is answered or late waits until it is marked notified, though not for ever.
AsksWait == \E a \in Asks : ask[a].st \in Resolved \cup {"late"} /\ ~ask[a].told

\* Who is told by the turn is not told as well that the task could not be resumed.
NoFallbackOnSuccess == \A k \in AskKeys : ~(k \in fallback /\ askRun[k] = "ok")
=============================================================================
