\* A transport packet is delivered while Listener.Close runs.
SPECIFICATION AllSpec
CONSTANTS
  Focus = {"listener"}
  MaxId = 2
  MaxPending = 0
  Keys = {k1}
  NoKey = NoKey
  MaxIndex = 1
  ReadyQueue = 1
  MaxConns = 1
  Services = {s1}
  Users = {u1}
  Enders = {e1}
  MaxStates = 1
  GPeers = {p1}
  Callers = {a1}
  EventCap = 1
  MaxHandles = 1
  MaxGens = 1
  Gears = {g1, g2}
  Device = g1
  Identifiers = {n1}
  Requests = {r1}
  Links = {l1}
  NoLink = NoLink
  NoGear = NoGear
  Builds = {1, 2}
  NoBuild = 0
  MaxDepotOps = 2
  Logins = {o1, o2}
  Assertions = {t1, t2}
  NoAssertion = NoAssertion
  SessionTTL = 2
  MaxClock = 3
  BufKinds = {"block"}
  Size = 1
  BufReaders = {b1}
  BufWriters = {w1}
  MaxValues = 0
  MaxSlice = 0
  Senders = {s1}
  Workers = {d1}
  WordBits = 2
  replayWindowWords = 2
  NonceMod = 6
  MaxCalls = 1
  MaxCorrupt = 1
  Tracks = {x1}
  MixReaders = {y1}
  TrackWriters = {z1}
  Formats = {native}
  OutFormat = native
  FirstFormat = native
  FrameLen = 1
  SourceLen = 1
  MaxMade = 1
  RingSize = 1
  MaxChunk = 1
  SilenceGap = 1
  AutoClose = TRUE
  Reporting = TRUE
  MaxWrites = 1
  MaxInputs = 1
  RingLen = 3
  MaxSamples = 4
  MaxPut = 1
INVARIANT
  DeliverNeverPanics
CHECK_DEADLOCK FALSE
