\* Three handshakes and a Connect overlap on two workers; no application calls.
SPECIFICATION Spec
CONSTANTS
  w1 = w1
  w2 = w2
  Peers = {p1}
  Addr = {a1}
  Workers <- MCWorkers
  Callers = {c1}
  Apps = {}
  AllowUnknown = TRUE
  MaxIndex = 3
  MaxOps = 1
  NoPeer = NoPeer
  NoAddr = NoAddr
SYMMETRY Symmetry
INVARIANTS
  SessionsIndexed
  DoneNeverBlocks
CHECK_DEADLOCK FALSE
