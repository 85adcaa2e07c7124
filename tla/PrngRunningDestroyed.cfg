SPECIFICATION PrngSpec
CONSTANTS
  Tasks = {t1, t2}
  Prng = prng
  Observers = {prng, k1}
  None = None
INVARIANTS StateOutlivesObserver
CHECK_DEADLOCK FALSE
