\* One reader and one closer.
SPECIFICATION MCFairSpec
CONSTANTS
  Scenarios = {"any"}
  ReadCloser = c1
  MainWriter = w1
  Readers = {r1}
  Writers = {}
  Inputters = {i1}
  Closers = {c1}
  InputCap = 1
  WriteCap = 1
  MaxUnits = 1
  MaxWrites = 1
  MaxTime = 1
  LargeUnits = {}
PROPERTY
  CloseWakesReader
CHECK_DEADLOCK FALSE
