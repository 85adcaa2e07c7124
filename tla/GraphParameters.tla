-------------------------- MODULE GraphParameters --------------------------
(***************************************************************************)
(* SecAggServer::Create: how many neighbors share a client's keys and how  *)
(* many of their shares are asked for, from the rates of the threat model  *)
(* (graph_parameter_finder.cc, distribution_utilities.cc).  Rates are in   *)
(* percent, so that the bounds the code rounds are exact, and              *)
(* probabilities are counts of samples over all samples.                   *)
(***************************************************************************)
EXTENDS Integers, FiniteSetsExt, Combinatorics

CONSTANTS
  kSecurityParameter,    \* 40 in the code
  kCorrectnessParameter  \* 20 in the code

ASSUME ParametersPositive ==
  kSecurityParameter \in Nat \ {0} /\ kCorrectnessParameter \in Nat \ {0}

\* FAILED_PRECONDITION.
Refused == [degree |-> 0, threshold |-> 0]

FloorRate(rate, n) == (rate * n) \div 100
CeilRate(rate, n) == (rate * n + 99) \div 100

\* HypergeometricDistribution: of total clients, marked are marked; how many
\* samples of the given size have x marked ones, or at most x.
PMF(total, marked, sampled, x) ==
  IF x < 0 \/ x > sampled \/ x > marked \/ total + x < marked + sampled THEN 0
  ELSE choose(marked, x) * choose(total - marked, sampled - x)
CDF(total, marked, sampled, x) ==
  MapThenSumSet(LAMBDA y : PMF(total, marked, sampled, y), 0..x)

\* The event is rarer than 2^-bits for each of the clients.
Rare(count, total, sampled, bits) == count * 2^bits * total < choose(total, sampled)

\* FindQuantileImpl: the last value whose distribution is below the quantile.
FindQuantileImpl(total, counted, sampled, bits) ==
  Min({x \in -1..sampled :
         x = sampled \/ ~Rare(CDF(total, counted, sampled, x), total, sampled, bits)}) - 1
FindQuantile(total, marked, sampled, bits, complement) ==
  IF complement THEN sampled - FindQuantileImpl(total, total - marked, sampled, bits) - 1
  ELSE FindQuantileImpl(total, marked, sampled, bits)

\* HararyGraphParameterFinder::Create.
Feasible(n, m) ==
  /\ n > 0
  /\ m.adversarial \in 0..99 /\ m.dropout \in 0..99
  /\ m.class = "NONE" => m.adversarial = 0
  /\ m.adversarial + (IF m.class = "SEMI_MALICIOUS" THEN 2 ELSE 1) * m.dropout <= 90

\* LogProbOfDisconnectedRandomHarary against its bound: half of the neighbors
\* in two places of the ring must all be bad.
MayDisconnect(n, neighbors, m) ==
  LET bad == FloorRate(m.adversarial, n) + FloorRate(m.dropout, n) IN
  /\ neighbors <= bad
  /\ n * (n - neighbors - 1) * choose(n - neighbors, bad - neighbors)
       * 2^(kSecurityParameter + 1) >= 2 * choose(n, bad)

\* Mutant: the bound on adversarial neighbors is itself taken for the threshold.
CheckNumberOfNeighborsAtBound(n, neighbors, m) ==
  LET q1 == FindQuantile(n, FloorRate(m.adversarial, n), neighbors,
                         kSecurityParameter + 1, TRUE)
  IN  IF MayDisconnect(n, neighbors, m) \/ q1 >= neighbors THEN 0 ELSE Max({q1, 2})

\* CheckNumberOfNeighbors: the threshold, or 0 for nullopt.
CheckNumberOfNeighbors(n, neighbors, m) ==
  LET surviving == CeilRate(100 - m.dropout, n)
      q1 == FindQuantile(n, FloorRate(m.adversarial, n), neighbors,
                         kSecurityParameter + 1, TRUE)
      q2 == FindQuantile(n, surviving, neighbors, kCorrectnessParameter, FALSE)
      t2 == IF Rare(CDF(n, surviving, neighbors, q2), n, neighbors, kCorrectnessParameter)
            THEN q2 + 1 ELSE q2
      t1 == IF m.class = "SEMI_MALICIOUS"
            THEN (4 * q1 + 4 * neighbors - 5 + 7) \div 8 ELSE q1
  IN  IF MayDisconnect(n, neighbors, m) \/ t2 <= t1 THEN 0 ELSE Max({t1 + 1, 2})

\* ComputeDegreeAndThreshold: the fewest neighbors that do.
ComputeHararyGraphParameters(n, m) ==
  LET fit == {k \in 2..n-2 : k % 2 = 0 /\ CheckNumberOfNeighbors(n, k, m) # 0} IN
  IF ~Feasible(n, m) \/ fit = {} THEN Refused
  ELSE [degree |-> Min(fit), threshold |-> CheckNumberOfNeighbors(n, Min(fit), m)]

CheckFullGraphParameters(n, threshold, m) ==
  /\ n > 0 /\ threshold > 1 /\ threshold <= n
  /\ m.adversarial \in 0..99 /\ m.dropout \in 0..99
  /\ threshold >= CeilRate(100 - m.dropout, n)
  /\ m.class = "CURIOUS" => threshold > CeilRate(m.adversarial, n)
  /\ m.class = "SEMI_MALICIOUS" => threshold > (100 * n + m.adversarial * n + 199) \div 200

\* Create: the Harary graph's degree counts the client itself; without
\* parameters for one, all clients are neighbors.
SecAggServerCreate(minimum, n, m, experiment) ==
  LET model == IF experiment = "curious_server" THEN [m EXCEPT !.class = "CURIOUS"] ELSE m
      half  == n \div 2
      forced == IF half % 2 = 0 THEN half + 1 ELSE half
      found == CASE experiment = "full_graph" -> Refused
                 [] experiment = "force_subgraph" ->
                      [degree |-> forced - 1, threshold |-> Max({2, forced \div 2})]
                 [] OTHER -> ComputeHararyGraphParameters(n, model)
      proceed == Max({minimum, CeilRate(100 - m.dropout, n)})
  IN  CASE found # Refused -> [graph |-> "harary", degree |-> found.degree + 1,
                               threshold |-> found.threshold, minimum |-> proceed]
        [] found = Refused /\ CheckFullGraphParameters(n, proceed, m) ->
             [graph |-> "complete", degree |-> n, threshold |-> proceed, minimum |-> proceed]
        [] OTHER -> [graph |-> "none", degree |-> 0, threshold |-> 0, minimum |-> 0]
=============================================================================
