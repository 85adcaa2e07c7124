SPECIFICATION DeviceSpec
CONSTANTS
  PermanentCodes <- DefaultPermanentCodes
  MultipleTaskFlags <- BothFlags
  Datasets = {"d1", "d2"}
  MaxExamples = 2
  NumRuns = 3
  Ttl = 3
  MaxBytes = 3
  MaxEvents = 2
  LastTime = 5
  DbFaults = {}
  CacheIds = {"a", "b", "c"}
  Resources = {"small", "mid"}
  Size <- SmallSizes
  MaxSize = 4
  MaxAge = 1
  MaxNow = 2
  FileFaults = TRUE
INVARIANTS ChecksHold PhasesClosed  OutcomeExplained CacheWithinLimit 
PROPERTY CreateRepairs
CHECK_DEADLOCK FALSE
