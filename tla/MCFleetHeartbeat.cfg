\* One vehicle, whose heartbeats are remembered.
SPECIFICATION HeartbeatSpec
CONSTANTS
  VehicleIds = {v1}
  HalfSpace = 2
  StandbyTimeout = 2
  OfflineTimeout = 3
  MaxLag = 1
  MaxTime = 6
  MaxTransitions = 4
CHECK_DEADLOCK FALSE
PROPERTIES HeartbeatKeepsOnline
