----------------------------- MODULE SpendBudget -----------------------------
(***************************************************************************)
(* The budget of money a principal, and everybody together, may spend in a *)
(* window of time (ratelimit/budget.ts and postgres-budget.ts).  It is     *)
(* read before a turn, by two statements, and written while and after the  *)
(* turn runs, by calls nobody waits for (core/orchestrator.ts).            *)
(*                                                                         *)
(* A turn stands for one attempt of a run in any process; its model calls  *)
(* cost it MaxCost at most.  The table's rows are kept dollar by dollar:   *)
(* when the n-th dollar of a turn was spent, as far as the key's rows say. *)
(***************************************************************************)
EXTENDS Integers, FiniteSets

CONSTANTS
    Principals, Org,     \* "@org" is the key that everybody's spend is added to
    Turns,
    Budget, OrgBudget, BudgetWindow,  \* limitUsd, orgLimitUsd, windowMs
    MaxCost,             \* the most that a turn costs
    MaxClock,            \* bound on time
    MaxBudgetFaults      \* bound on spend the store fails to record

ASSUME BudgetAssumption ==
    /\ IsFiniteSet(Turns) /\ IsFiniteSet(Principals) /\ Org \notin Principals
    /\ {Budget, OrgBudget, BudgetWindow, MaxCost, MaxClock, MaxBudgetFaults} \subseteq Nat

VARIABLES
    instant,
    flow,          \* the turns
    posts,         \* spend that is on its way to the store
    spend,         \* the rows of each key
    peak,          \* history: the most turns of a key that were under way at once
    budgetFaults

budgetVars == <<instant, flow, posts, spend, peak, budgetFaults>>

Clocks  == 0 .. MaxClock
Unspent == -1
Dollars == Turns \X (1 .. MaxCost)
Keys    == Principals \cup {Org}
Posting == [turn : Turns, upto : 1 .. MaxCost, usd : 1 .. MaxCost, at : Clocks, key : Keys]

BudgetInit ==
    /\ instant = 0
    /\ flow = [u \in Turns |-> [at |-> "none", who |-> Org, cost |-> 0]]
    /\ posts = {}
    /\ spend = [k \in Keys |-> [d \in Dollars |-> Unspent]]
    /\ peak = [k \in Keys |-> 0]
    /\ budgetFaults = 0

ClockTicks ==
    /\ instant < MaxClock /\ instant' = instant + 1
    /\ UNCHANGED <<flow, posts, spend, peak, budgetFaults>>

Limit(k) == IF k = Org THEN OrgBudget ELSE Budget

\* What a key has spent within the window.
Held(k)  == {d \in Dollars : spend[k][d] # Unspent /\ spend[k][d] >= instant - BudgetWindow}
Spent(k) == Cardinality(Held(k))

\* Mutated form: who has spent the limit may start another turn.
WithinUpTo(k) == Spent(k) <= Limit(k)

Within(k) == Spent(k) < Limit(k)

\* The turns that were found within the budget of a key, and whose spend is not all
\* recorded yet.
UnderWay(k) ==
    {u \in Turns : /\ k \in {flow[u].who, Org}
                   /\ \/ flow[u].at = "running"
                      \/ flow[u].at = "checked" /\ k # Org
                      \/ \E q \in posts : q.turn = u}

Grown(k) == LET n == Cardinality(UnderWay(k)) + 1 IN IF n > peak[k] THEN n ELSE peak[k]

\* check: the principal's own spend, when the turn arrives ...
ChecksOwn(u, p) ==
    /\ flow[u].at = "none"
    /\ IF Within(p)
       THEN /\ flow' = [flow EXCEPT ![u].at = "checked", ![u].who = p]
            /\ peak' = [peak EXCEPT ![p] = Grown(p)]
       ELSE flow' = [flow EXCEPT ![u].at = "over"] /\ UNCHANGED peak
    /\ UNCHANGED <<instant, posts, spend, budgetFaults>>

\* ... and then everybody's.
ChecksOrg(u) ==
    /\ flow[u].at = "checked"
    /\ IF Within(Org)
       THEN /\ flow' = [flow EXCEPT ![u].at = "running"]
            /\ peak' = [peak EXCEPT ![Org] = Grown(Org)]
       ELSE flow' = [flow EXCEPT ![u].at = "over"] /\ UNCHANGED peak
    /\ UNCHANGED <<instant, posts, spend, budgetFaults>>

\* A model call of the turn is metered: record is called and not waited for.
Meters(u, usd) ==
    /\ flow[u].at = "running" /\ flow[u].cost + usd <= MaxCost
    /\ flow' = [flow EXCEPT ![u].cost = @ + usd]
    /\ posts' = posts \cup {[turn |-> u, upto |-> flow'[u].cost, usd |-> usd, at |-> instant, key |-> flow[u].who]}
    /\ UNCHANGED <<instant, spend, peak, budgetFaults>>

\* The dollars of a posting.
Paid(q) == {q.turn} \X (q.upto - q.usd + 1 .. q.upto)

Added(q) == [spend EXCEPT ![q.key] = [d \in Dollars |-> IF d \in Paid(q) THEN q.at ELSE @[d]]]

\* The spend is recorded for the principal, then for everybody.
Records(q) ==
    /\ spend' = Added(q)
    /\ posts' = (posts \ {q}) \cup IF q.key = Org THEN {} ELSE {[q EXCEPT !.key = Org]}
    /\ UNCHANGED <<instant, flow, peak, budgetFaults>>

\* A statement fails: the rest of the record is only logged.
RecordFails(q) ==
    /\ budgetFaults < MaxBudgetFaults /\ budgetFaults' = budgetFaults + 1
    /\ posts' = posts \ {q}
    /\ UNCHANGED <<instant, flow, spend, peak>>

TurnOver(u) ==
    /\ flow[u].at = "running"
    /\ flow' = [flow EXCEPT ![u].at = "over"]
    /\ UNCHANGED <<instant, posts, spend, peak, budgetFaults>>

BudgetNext ==
    \/ ClockTicks
    \/ \E u \in Turns :
         \/ ChecksOrg(u) \/ TurnOver(u)
         \/ \E p \in Principals : ChecksOwn(u, p)
         \/ \E usd \in 1 .. MaxCost : Meters(u, usd)
    \/ \E q \in posts : Records(q) \/ RecordFails(q)

BudgetSpec == BudgetInit /\ [][BudgetNext]_budgetVars
-----------------------------------------------------------------------------
BudgetTypeOK ==
    /\ instant \in Clocks /\ posts \subseteq Posting /\ budgetFaults \in 0 .. MaxBudgetFaults
    /\ flow \in [Turns -> [at : {"none", "checked", "running", "over"}, who : Keys,
                           cost : 0 .. MaxCost]]
    /\ spend \in [Keys -> [Dollars -> Clocks \cup {Unspent}]] /\ peak \in [Keys -> 0 .. Cardinality(Turns)]

\* The budget is checked before and recorded after, so that turns which are under way
\* together pass it; but not by more than what so many turns cost, for a principal as for
\* the organisation, while spend lands late and the window moves on.
OverrunBounded == \A k \in Keys : Spent(k) = 0 \/ Spent(k) < Limit(k) + MaxCost * peak[k]
=============================================================================
