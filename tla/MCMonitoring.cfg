SPECIFICATION Spec
CONSTANTS
  Vehicles <- MCVehicles
  MaxHeard = 3
PROPERTIES
  QuietPageAddsUp
  GaugesCatchUp
