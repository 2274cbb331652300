\* One vehicle: its status does not depend on the others'.
SPECIFICATION Spec
CONSTANTS
  VehicleIds = {v1}
  HalfSpace = 2
  StandbyTimeout = 1
  OfflineTimeout = 3
  MaxLag = 1
  MaxTime = 6
  MaxTransitions = 4
CHECK_DEADLOCK FALSE
INVARIANTS StatusMeansSilence MarkIsSinceReturn ViewIsCurrent
PROPERTIES MarkLostOnlyOnReturn SilentGoesOffline
