\* A close notice overlaps a new handshake of the same peer.
SPECIFICATION Spec
CONSTANTS
  w1 = w1
  w2 = w2
  Peers = {p1}
  Addr = {a1}
  Workers <- MCWorkers
  Callers = {}
  Apps = {}
  AllowUnknown = TRUE
  MaxIndex = 2
  MaxOps = 1
  NoPeer = NoPeer
  NoAddr = NoAddr
PROPERTY
  StaleCloseIgnored
CHECK_DEADLOCK FALSE
