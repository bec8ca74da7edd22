------------------------- MODULE CompositionProofs -------------------------
(***************************************************************************)
(* The composition of MCServices: what TLC explores of each service is     *)
(* what the service's own specification allows.  In the published app no   *)
(* setter without the lock puts back a stale record.                       *)
(***************************************************************************)
EXTENDS OutboxProofs, ServiceProofs, MCServices

\* Every behaviour of the composition is one of each of its services.
THEOREM ServicesStandAlone ==
    MCSpec => /\ Spec /\ CompactionSpec /\ CronSpec /\ RateSpec /\ BudgetSpec /\ MapSpec /\ MoveSpec
              /\ DeploySpec /\ [][~StalePut]_deployVars
<1>1. MCInit => /\ Init /\ CompactionInit /\ CronInit /\ RateInit /\ BudgetInit /\ MapInit /\ DeployInit
                /\ MoveInit
  BY DEF MCInit
<1>. DEFINE all == <<part, vars, compactionVars, cronVars, rateVars, budgetVars, mapVars, deployVars, moveVars>>
<1>2. ASSUME [MCNext]_all
      PROVE  /\ [Next]_vars /\ [CompactionNext]_compactionVars /\ [CronNext]_cronVars /\ [RateNext]_rateVars
             /\ [BudgetNext]_budgetVars /\ [MapNext]_mapVars /\ [MoveNext]_moveVars
             /\ [DeployNext]_deployVars /\ [~StalePut]_deployVars
  <2>1. CASE UNCHANGED all
    BY <2>1
  <2>2. CASE MCNext
    <3>1. [Next]_vars /\ [CompactionNext]_compactionVars
      BY <2>2 DEF MCNext, StandsStill
    <3>2. [CronNext]_cronVars /\ [RateNext]_rateVars
      BY <2>2 DEF MCNext, StandsStill
    <3>3. [BudgetNext]_budgetVars /\ [MapNext]_mapVars
      BY <2>2 DEF MCNext, StandsStill
    <3>4. [MoveNext]_moveVars
      BY <2>2 DEF MCNext, StandsStill
    <3>5. [DeployNext]_deployVars /\ [~StalePut]_deployVars
      BY <2>2 DEF MCNext, StandsStill
    <3>6. QED  BY <3>1, <3>2, <3>3, <3>4, <3>5
  <2>3. QED  BY <1>2, <2>1, <2>2
<1>3. QED
  BY <1>1, <1>2, PTL
  DEF MCSpec, Spec, CompactionSpec, CronSpec, RateSpec, BudgetSpec, MapSpec, MoveSpec, DeploySpec

\* So every service keeps its state in the shape of its tables and maps, whatever fails.
THEOREM ServiceTypesCorrect == MCSpec => []TypesOK
<1>1. MapInv => MapTypeOK
  BY DEF MapInv
<1>2. TypeOK /\ CompactionTypeOK /\ CronTypeOK /\ RateTypeOK /\ BudgetTypeOK /\ MapTypeOK /\ DeployTypeOK
      /\ MoveTypeOK => TypesOK
  BY DEF TypesOK
<1>3. QED
  BY <1>1, <1>2, ServicesStandAlone, OutboxTypeCorrect, CompactionTypeCorrect, CronTypeCorrect, RateTypeCorrect,
     BudgetTypeCorrect, MapInvariant, DeployUntilStale, DeployInvTypes, MoveTypeCorrect, PTL
=============================================================================
