SPECIFICATION SessionSpec
CONSTANTS
  Graph <- Ring4
  MinimumClients = 2
  Threshold = 2
  AsyncRound2 = FALSE
  None = None
  Aborters = {}
  Droppable = {}
  MayAbort = FALSE
INVARIANT ReconstructionSucceeds
CHECK_DEADLOCK FALSE
