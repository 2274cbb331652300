SPECIFICATION Spec
CONSTANTS
  Invocations <- MCInvocations
  Fleet <- MCFleet
  OtherCommands <- MCOtherCommands
  RateLimit = 2
  SendBuffer = 2
  FramesToRead = 2
  Uint32 <- MCUint32
  MaxBroadcasts = 2
  MaxOthers = 1
INVARIANTS
  ErrorChecksPass
  SentAsAsked
  HeardIsTrue
PROPERTIES
  ToolTerminates
CHECK_DEADLOCK FALSE
