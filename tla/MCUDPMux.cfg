\* Service-mux generations against close notices, a Connect and UDP.Close.
SPECIFICATION FairSpec
CONSTANTS
  w1 = w1
  w2 = w2
  Peers = {p1}
  Addr = {a1}
  Workers <- MCWorkers
  Callers = {c1}
  Apps = {g1}
  AllowUnknown = TRUE
  MaxIndex = 1
  MaxOps = 2
  NoPeer = NoPeer
  NoAddr = NoAddr
INVARIANTS
  EstablishedHasSession
  NoOrphanMux
PROPERTY
  CloseTerminates
CHECK_DEADLOCK FALSE
