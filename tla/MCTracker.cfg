\* Two ids, which callers use again; safety and liveness, so no symmetry.
SPECIFICATION TrackerSpec
CONSTANTS
  CommandIds = {c1, c2}
  VehicleIds = {v1, v2}
  Timeout = 2
  RateLimit = 2
  RateWindow = 2
  MaxCommands = 3
  MaxTime = 4
INVARIANTS RateBound PendingHasTimer OneFramePerExpiry TimeoutNotEarly NoOrphanTimer
PROPERTIES EveryCommandResolved
