SPECIFICATION AggregationSpec
CONSTANTS
  MaxClients = 3
  NumIntrinsics = 2
  None = None
  Keys <- SmallKeys
  TensorValues = {1}
  Rows = 2
  MaxInputs = 3
INVARIANTS ResultExact ReportsRight StringsKept
PROPERTIES EveryClientClosed
CHECK_DEADLOCK FALSE
