CONSTANTS
  w1 = w1
  w2 = w2
  Environments <- Environs
  Plc = {w1, w2}
  Mute = {w2}
  Tables <- AllTables
  MaxBuffer = 2
  MaxPublished = 3
  Faults = {"redis", "db", "hang", "writer", "kill"}
  MaxFaults = 3
SPECIFICATION FairSpec
INVARIANTS
  LostOnlyInOutage
PROPERTIES
  StopEnds
  Recovers
CHECK_DEADLOCK FALSE
