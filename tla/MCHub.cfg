\* Two clients, queues of one, so that two frames can overflow either; liveness too, so no symmetry.
SPECIFICATION HubSpec
CONSTANTS
  Clients = {a, b}
  SendBuffer = 1
  BroadcastBuffer = 1
  MaxFrames = 2
  MaxMessages = 2
  MaxDisconnects = 1
INVARIANTS WelcomeFirst NoPanicInService EveryFrameAccounted
PROPERTIES LoopNeverStalls DeadConnectionsLeave
CHECK_DEADLOCK FALSE
