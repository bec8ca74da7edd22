----------------------------- MODULE MCServices -----------------------------
(***************************************************************************)
(* Small instances of the services that share no state with each other.   *)
(* A behaviour is one of the service `part` and the others stay in one     *)
(* initial state, so that the state space is the sum of theirs and not the *)
(* product.  The processes, workers and callers of a service are           *)
(* interchangeable.                                                        *)
(***************************************************************************)
EXTENDS DeliveryOutbox, Compaction, CronScheduler, RateLimiter, SpendBudget, DurableMap,
        DeployService, SandboxMove, TLC

VARIABLE part

MCInit ==
    /\ part \in {"outbox", "compaction", "cron", "rate", "budget", "map", "deploy", "move"}
    /\ Init /\ CompactionInit /\ CronInit /\ RateInit /\ BudgetInit /\ MapInit /\ DeployInit
    /\ MoveInit
    /\ part # "move" => \A p \in Procs : built[p] = Backends
    /\ part # "cron" => \A c \in Crons : crons[c].sched = [kind |-> "once", first |-> 1]

StandsStill(p, v) == part # p => UNCHANGED v

\* An entry in quarantine is hidden wherever it stands: only the second of a log is one.
SecondHidden == \A i \in DOMAIN log : log[i].kind = "tainted" => i = 2

\* The claims of CronScheduler are about crons that are not rescheduled, and those of
\* DeployService hold until a setter without the lock puts back a stale record: no step does so here.
MCNext ==
    /\ UNCHANGED part
    /\ \/ part = "outbox" /\ Next
       \/ part = "compaction" /\ CompactionNext /\ SecondHidden'
       \/ part = "cron" /\ edited = {} /\ CronNext
       \/ part = "rate" /\ RateNext
       \/ part = "budget" /\ BudgetNext
       \/ part = "map" /\ MapNext
       \/ part = "deploy" /\ DeployNext /\ ~StalePut
       \/ part = "move" /\ MoveNext
    /\ StandsStill("outbox", vars) /\ StandsStill("compaction", compactionVars)
    /\ StandsStill("cron", cronVars) /\ StandsStill("rate", rateVars)
    /\ StandsStill("budget", budgetVars) /\ StandsStill("map", mapVars)
    /\ StandsStill("deploy", deployVars) /\ StandsStill("move", moveVars)

MCSpec == MCInit /\ [][MCNext]_<<part, vars, compactionVars, cronVars, rateVars, budgetVars, mapVars,
                              deployVars, moveVars>>

\* Every service keeps its state in the shape its tables and maps have, whatever fails.
TypesOK ==
    /\ TypeOK /\ CompactionTypeOK /\ CronTypeOK
    /\ RateTypeOK /\ BudgetTypeOK /\ MapTypeOK
    /\ DeployTypeOK /\ MoveTypeOK

\* One set of model values stands for the processes, workers and callers of all services.
Symmetry == Permutations(Procs)
=============================================================================
