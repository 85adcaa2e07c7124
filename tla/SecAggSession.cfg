SPECIFICATION FairSession
CONSTANTS
  Graph <- Complete3
  MinimumClients = 2
  Threshold = 2
  AsyncRound2 = TRUE
  None = None
  Aborters = {0}
  Droppable = {0, 1}
  MayAbort = TRUE
INVARIANTS SumUnmasked CompletedIncluded MessagesExpected
  ReconstructionSucceeds
PROPERTY SessionEnds
CHECK_DEADLOCK FALSE
