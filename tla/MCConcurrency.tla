---------------------------- MODULE MCConcurrency ----------------------------
(***************************************************************************)
(* What runs on several threads: the accumulator by itself, under the      *)
(* asynchronous round 2 and under PRNG_RUNNING, the thread pool, and the   *)
(* clocks.  Which of them a behavior is about is chosen at the start.      *)
(***************************************************************************)
EXTENDS MaskedInputCollection, PrngRunning, ThreadPool, Clock

VARIABLE part  \* "accumulator", "collection", "prng", "pool" or "clock"

\* Two tasks on each of two workers and one on the pool; two of the tasks
\* schedule another.
SmallPlan == <<[task |-> 1, on |-> "w1"], [task |-> 2, on |-> "w1"], [task |-> 3, on |-> "w2"]>>
SmallChild == [t \in 1..5 |-> CASE t = 1 -> [task |-> 4, on |-> "w1"]
                                [] t = 3 -> [task |-> 5, on |-> "pool"]
                                [] OTHER -> NoChild]

allParts == <<allVars, stateVars, poolVars, clockVars, part>>

\* Without PRNG_RUNNING an observer called Prng is one like any other.
ConcurrencyInit ==
  /\ part \in {"accumulator", "collection", "prng", "pool", "clock"}
  /\ CollectionInit /\ PoolInit /\ ClockInit
  /\ part # "clock" => kind = "real"
  /\ prngPhase = "entering" /\ completion = None /\ doneCallback = None /\ token = FALSE
  /\ step = (IF part = "prng" THEN "none" ELSE "called")
  /\ toCall = None /\ calls = [k \in Callbacks |-> IF part = "prng" THEN 0 ELSE 1]

Only(p, A) == part = p /\ A /\ UNCHANGED part

AccumulatorStep(A) == Only("accumulator", A) /\ UNCHANGED <<inputVars, stateVars, poolVars, clockVars>>
CollectionStep(A)  == Only("collection", A) /\ UNCHANGED <<stateVars, poolVars, clockVars>>
PrngStep(A)        == Only("prng", A) /\ UNCHANGED <<inputVars, poolVars, clockVars>>
PoolStep(A)        == Only("pool", A) /\ UNCHANGED <<allVars, stateVars, clockVars>>
ClockStep(A)       == Only("clock", A) /\ UNCHANGED <<allVars, stateVars, poolVars>>

ConcurrencyNext ==
  \/ AccumulatorStep(Next) \/ CollectionStep(CollectionNext) \/ PrngStep(PrngNext)
  \/ PoolStep(PoolNext) \/ ClockStep(ClockNext)

\* The fairness of each part, for its own behaviors.
ConcurrencyFairness ==
  /\ \A t \in Tasks :
       /\ WF_allParts(AccumulatorStep(PoolThread(t)))
       /\ WF_allParts(CollectionStep(Pool(t) \/ TakeMaskedInputQueue(t)))
       /\ WF_allParts(PrngStep(PoolThread(t) /\ UNCHANGED stateVars))
  /\ WF_allParts(AccumulatorStep(SequentialThread)) /\ WF_allParts(AccumulatorStep(CancelWake))
  /\ WF_allParts(CollectionStep(SequentialThread /\ UNCHANGED inputVars))
  /\ WF_allParts(CollectionStep(ScheduleTask)) /\ WF_allParts(CollectionStep(CollectionWake))
  /\ WF_allParts(PrngStep(EnterState)) /\ WF_allParts(PrngStep(AbortReturns))
  /\ WF_allParts(PrngStep(Waking)) /\ WF_allParts(PrngStep(Sequential))
  /\ WF_allParts(PoolStep(OwnerNext))
  /\ \A t \in Threads : WF_allParts(PoolStep(ThreadSteps(t)))
  /\ WF_allParts(ClockStep(Tick)) /\ WF_allParts(ClockStep(WorkerLoop))
  /\ WF_allParts(ClockStep(AdvanceTime))
  /\ \A d \in ClockThreads : WF_allParts(ClockStep(DispatchWakeups(d)))

ConcurrencySpec == ConcurrencyInit /\ [][ConcurrencyNext]_allParts /\ ConcurrencyFairness
=============================================================================
