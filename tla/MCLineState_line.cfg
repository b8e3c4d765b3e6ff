CONSTANTS
  N = 0
  Variador = TRUE
  Frec = {0, 1, 2}
  Poll = 1
  Reassert = 3
  SpeedInterval = 2
  Deadband = 2
  HeartbeatEvery = 9
  Slack = 0
  Jitter = 0
  Stalls = {0, 1}
  MaxTime = 5
  MaxCount = 0
  Grace = 2
  Lag = 1
SPECIFICATION LineSpec
INVARIANTS
  SpeedUnderCap
  StampIsFresh
  StampIsKnown
