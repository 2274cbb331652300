\* Two vehicles, four wire numbers, up to ten packets: two wrap-arounds.
SPECIFICATION DedupSpec
CONSTANTS
  VehicleIds = {v1, v2}
  HalfSpace = 2
  Skew = 2
  MaxSent = 10
INVARIANTS AcceptsExactlyNewer
PROPERTIES ImplementsOrderedDelivery
CHECK_DEADLOCK FALSE
