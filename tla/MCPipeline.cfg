\* Two sources, queues of one frame, three datagrams.
SPECIFICATION PipelineSpec
CONSTANTS
  Sources = {s1, s2}
  v1 = v1
  Vehicles <- MCVehicles
  Messages <- MCMessages
  SourceBuffer = 1
  SharedBuffer = 1
  MaxArrivals = 3
INVARIANTS SourceOrderKept RecordedBeforeBroadcast FramesAreValid NoPanicInService
PROPERTIES QueuedIsBroadcast
CHECK_DEADLOCK FALSE
