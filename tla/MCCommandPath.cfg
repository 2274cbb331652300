\* Two clients that race on one id and one vehicle; one command per tick.
SPECIFICATION Spec
CONSTANTS
  CommandIds = {c1}
  VehicleIds = {v1}
  Timeout = 1
  RateLimit = 1
  RateWindow = 1
  MaxCommands = 2
  MaxTime = 2
  Clients = {a, b}
  Commands <- MCCommands
  CapabilitySets <- MCCapabilitySets
INVARIANTS PendingIsRoutedOrSent SentNeverWithdrawn
PROPERTIES UndeclaredIsNotSent AcceptedIsAnswered ImplementsCommandLife
CHECK_DEADLOCK FALSE
