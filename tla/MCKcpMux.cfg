SPECIFICATION MCSpec
CONSTANTS
  IdSpace = 4
  AcceptBacklog = 1
  MaxActiveStreams = 1
  MaxInc = 3
  MaxFired = 1
  Accepters = {a1}
  FrameWorkers = {i1}
  StreamClosers = {c1}
INVARIANTS ActiveExact QueuedReachable ClosedEmpty
PROPERTIES ClosedStreamsLeave AcceptReturns
CHECK_DEADLOCK FALSE
