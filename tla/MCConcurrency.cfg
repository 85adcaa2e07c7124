SPECIFICATION ConcurrencySpec
CONSTANTS
  Tasks = {t1, t2, t3}
  Observers = {prng, k1}
  Prng = prng
  Clients = {c1, c2, c3}
  None = None
  Threads = {"t1", "t2"}
  Workers = {"w1", "w2"}
  Plan <- SmallPlan
  Child <- SmallChild
  Users = {"u1", "u2"}
  MaxTime = 3
INVARIANTS ResultHasAllMasks OneTaskPerWorker
PROPERTIES ResultComplete CancelReturns Implements InputsReachSum CallbackCalled PoolFinishes WaitersWoken
CHECK_DEADLOCK FALSE
