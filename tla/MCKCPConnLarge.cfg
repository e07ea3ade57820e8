\* One message longer than the 64 KiB buffer of drainRecv.
SPECIFICATION MCSpec
CONSTANTS
  Scenarios = {"any"}
  ReadCloser = c1
  MainWriter = w1
  Readers = {r1}
  Writers = {}
  Inputters = {i1}
  Closers = {}
  InputCap = 1
  WriteCap = 1
  MaxUnits = 2
  MaxWrites = 1
  MaxTime = 1
  LargeUnits = {1}
INVARIANT
  RecvDrained
CHECK_DEADLOCK FALSE
