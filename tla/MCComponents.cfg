\* Each of the components by itself, with its own concurrency and failures.
SPECIFICATION AllSpec
CONSTANTS
  Focus = {"conn", "listener", "services", "giznet", "gears", "peers", "depot", "login", "buffer",
           "session", "mixer", "ring"}
  MaxId = 5
  MaxPending = 1
  Keys = {k1, k2}
  NoKey = NoKey
  MaxIndex = 2
  ReadyQueue = 1
  MaxConns = 2
  Services = {s1}
  Users = {u1, u2}
  Enders = {e1, e2}
  MaxStates = 2
  GPeers = {p1}
  Callers = {a1, a2}
  EventCap = 2
  MaxHandles = 3
  MaxGens = 3
  Gears = {g1, g2}
  Device = g1
  Identifiers = {n1}
  Requests = {r1, r2}
  Links = {l1, l2, l3}
  NoLink = NoLink
  NoGear = NoGear
  Builds = {1, 2}
  NoBuild = 0
  MaxDepotOps = 2
  Logins = {o1, o2}
  Assertions = {t1, t2}
  NoAssertion = NoAssertion
  SessionTTL = 2
  MaxClock = 3
  BufKinds = {"block", "ring", "growable"}
  Size = 2
  BufReaders = {b1}
  BufWriters = {w1}
  MaxValues = 5
  MaxSlice = 4
  Senders = {n1, n2}
  Workers = {d1, d2}
  WordBits = 2
  replayWindowWords = 2
  NonceMod = 7
  MaxCalls = 6
  MaxCorrupt = 1
  Tracks = {x1, x2}
  MixReaders = {y1, y2}
  TrackWriters = {z1}
  Formats = {native}
  OutFormat = native
  FirstFormat = native
  FrameLen = 1
  SourceLen = 1
  MaxMade = 1
  RingSize = 1
  MaxChunk = 1
  SilenceGap = 1
  AutoClose = TRUE
  Reporting = TRUE
  MaxWrites = 1
  MaxInputs = 1
  RingLen = 3
  MaxSamples = 4
  MaxPut = 12
INVARIANTS
  AllTypeOK
  EstablishedHasCurrent
  MapsInverse
  EndedStaysEnded
  OneActiveConn
  StoreSound
  LatestConnActive
  OneSessionPerAssertion
  BufferInOrder
  BufferWakes
  FilterExact
  NonceUsedOnce
  ReportedOnce
PROPERTIES
  HandshakesNotMixed
  ImplementsAtomicDepot
  ImplementsAntiReplay
  RingIsFifo
CHECK_DEADLOCK FALSE
