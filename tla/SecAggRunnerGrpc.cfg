SPECIFICATION RunnerSpec
CONSTANTS
  Transports = {"grpc"}
PROPERTY InterruptEndsRun
CHECK_DEADLOCK FALSE
