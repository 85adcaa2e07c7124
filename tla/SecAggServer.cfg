SPECIFICATION Spec
CONSTANTS
  Graph <- Complete3
  MinimumClients = 2
  Threshold = 2
  AsyncRound2 = TRUE
  None = None
INVARIANTS NeverStuck InputsIncluded
CHECK_DEADLOCK FALSE
