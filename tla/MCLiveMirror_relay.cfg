CONSTANTS
  w1 = w1
  Plc = {w1}
  Puesto = {1}
  Ip <- AllOfOne
  Variador = {w1}
  Topologies <- Shrinks
  Reassert = 2
  Ttl = 3
  Retry = 2
  LiveEvery = 2
  MainEvery = 2
  Stale = 3
  Faults = {"redis", "plc", "crash"}
  MaxFaults = 1
  MaxFlips = 2
SPECIFICATION Spec
INVARIANTS
  HeldIsShown
  KeysTellTheTruth
  ExactIsTrue
  LineIsShown
