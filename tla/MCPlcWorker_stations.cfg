CONSTANTS
  N = 1
  Variador = FALSE
  Frec = {0}
  Poll = 1
  Reassert = 3
  SpeedInterval = 2
  Deadband = 2
  HeartbeatEvery = 2
  Slack = 2
  Jitter = 1
  Stalls = {0, 2}
  MaxTime = 8
  MaxCount = 1
SPECIFICATION Spec
INVARIANTS
  RecordIsSampled
  SegmentUnderCap
  BeatUnderCap
  NeverOvercounts
