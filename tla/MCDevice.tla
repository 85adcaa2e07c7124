------------------------------ MODULE MCDevice ------------------------------
(***************************************************************************)
(* What runs on a device besides SecAgg: the federated computation over    *)
(* either protocol, one run of a plan, the operational statistics and the  *)
(* resource cache.  Which of them a behavior is about is chosen at the     *)
(* start.                                                                  *)
(***************************************************************************)
EXTENDS FlRunner, PlanRun, OpStats, ResourceCache

VARIABLE part  \* "computation", "plan", "opstats" or "cache"

\* The default of federated_training_permanent_error_codes, and both values of
\* the flag for multiple task assignments.
DefaultPermanentCodes == {"NotFound", "InvalidArgument", "Unimplemented"}
BothFlags == {TRUE, FALSE}

SmallSizes == [c \in Resources |-> IF c = "mid" THEN 2 ELSE 1]

allParts == <<vars, planVars, opsVars, cacheVars, part>>

DeviceInit ==
  /\ part \in {"computation", "plan", "opstats", "cache"}
  /\ Init /\ (part # "computation" => transport = "http" /\ ~multiple)
  /\ PlanInit /\ (part # "plan" => planCaller = "local" /\ engine = "tf" /\ plan = GoodPlan)
  /\ OpStatsInit /\ CacheInit

DeviceNext ==
  \/ part = "computation" /\ Next /\ UNCHANGED <<planVars, opsVars, cacheVars, part>>
  \/ part = "plan" /\ PlanNext /\ UNCHANGED <<vars, opsVars, cacheVars, part>>
  \/ part = "opstats" /\ OpStatsNext /\ UNCHANGED <<vars, planVars, cacheVars, part>>
  \/ part = "cache" /\ CacheNext /\ UNCHANGED <<vars, planVars, opsVars, part>>

DeviceSpec == DeviceInit /\ [][DeviceNext]_allParts
=============================================================================
