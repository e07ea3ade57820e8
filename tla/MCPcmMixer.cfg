\* One track between a playback loop and two writers, over a direct and a resampled input.
SPECIFICATION MCFairSpec
CONSTANTS
  Tracks = {t1}
  MixReaders = {r1}
  TrackWriters = {w1, w2}
  Formats = {native, other}
  OutFormat = native
  FirstFormat = native
  FrameLen = 1
  SourceLen = 1
  MaxMade = 2
  RingSize = 1
  MaxChunk = 2
  SilenceGap = 0
  AutoClose = FALSE
  Reporting = TRUE
  MaxWrites = 2
  MaxInputs = 2
INVARIANTS
  NativeHeadPlayed
  SleepersServed
  TrackWakesReader
PROPERTY
  WritesReturn
CHECK_DEADLOCK FALSE
