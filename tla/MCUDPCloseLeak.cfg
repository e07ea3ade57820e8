\* A handshake is handled while UDP.Close runs.
SPECIFICATION Spec
CONSTANTS
  w1 = w1
  w2 = w2
  Peers = {p1}
  Addr = {a1}
  Workers <- MCWorkers
  Callers = {}
  Apps = {}
  AllowUnknown = TRUE
  MaxIndex = 1
  MaxOps = 0
  NoPeer = NoPeer
  NoAddr = NoAddr
INVARIANT
  CloseClosesAllMuxes
CHECK_DEADLOCK FALSE
