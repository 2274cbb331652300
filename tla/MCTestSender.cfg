SPECIFICATION Spec
CONSTANTS
  Vehicles <- MCVehicles
  CommandLines <- MCCommandLines
  HeadingStep = 90
  SeqSpace = 2
  StartBattery = 21
  Latitudes <- MCLatitudes
  Longitudes <- MCLongitudes
  TelemetryBytes = 120
  HeartbeatBytes = 260
INVARIANTS
  DecodedWithinLimits
PROPERTIES
  CapabilitiesAreLearned
CHECK_DEADLOCK FALSE
