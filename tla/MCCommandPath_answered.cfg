\* One client, one command, a vehicle that answers at once.
SPECIFICATION SafetySpec
CONSTANTS
  CommandIds = {c1}
  VehicleIds = {v1}
  Timeout = 1
  RateLimit = 2
  RateWindow = 1
  MaxCommands = 2
  MaxTime = 2
  Clients = {a}
  Commands <- MCCommands
  CapabilitySets <- MCCapabilitySets
PROPERTIES TimeoutMeansNoResponse
CHECK_DEADLOCK FALSE
