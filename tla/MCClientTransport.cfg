SPECIFICATION TransportSpec
CONSTANTS
  Clients = {0}
  Names = {0, 1, 2}
  MaxNeighbors = 3
  Threshold = 2
  None = None
  Transports = {"http", "grpc"}
  NumRequests = 2
  Replies <- SmallReplies
  HttpClients = {"curl", "java"}
  Script <- SmallScript
  Chunk = 2
  Window = 2
INVARIANTS AnswersConsistent SubmittedWhole CallbackContract 
PROPERTIES InterruptHeeded AbortHeeded StreamDelivers
CHECK_DEADLOCK FALSE
