CONSTANTS
  w1 = w1
  w2 = w2
  p1 = p1
  noria = noria
  Puesto = {p1}
  Noria = noria
  Plc = {w1, w2}
  Ip <- OneEach
  QueueSize = 1
  MaxSaid = 2
  MaxUnread = 1
  WireSize = 1
  MaxFetch = 1
  Faults = {"read", "db", "plc", "key", "mirror", "drop", "crash"}
  Cost <- Costs
  MaxFaults = 1
SPECIFICATION FairSpec
INVARIANTS
  TypeOK
  QuietScreenIsTrue
  ChronoIsHonest
PROPERTIES
  KeysReachTheScreen
