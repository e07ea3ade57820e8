\* Readers with a deadline, an inputter and a closer around one runLoop, and
\* writers with two closers around one runLoop.
SPECIFICATION MCFairSpec
CONSTANTS
  Scenarios = {"read", "write"}
  ReadCloser = c1
  MainWriter = w1
  Readers = {r1, r2}
  Writers = {w1, w2}
  Inputters = {i1}
  Closers = {c1, c2}
  InputCap = 1
  WriteCap = 1
  MaxUnits = 2
  MaxWrites = 2
  MaxTime = 2
  LargeUnits = {}
INVARIANTS
  StreamConserved
  WritesInOrder
PROPERTIES
  DataWakesReader
  CallsReturn
CHECK_DEADLOCK FALSE
