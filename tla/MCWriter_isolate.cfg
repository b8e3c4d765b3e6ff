CONSTANTS
  g1 = g1
  g2 = g2
  bad = bad
  poison = poison
  live = live
  Event = {g1, bad, poison}
  Bad = {bad}
  Poison = {poison}
  Ephemeral = {}
  MaxLen = 4
  BatchMax = 4
  MaxStream = 4
  Faults = {"db", "ack", "crash", "stop"}
  MaxFaults = 2
SPECIFICATION FairSpec
INVARIANTS
  PendingIsTheBatch
  AckedRefusedIsParked
PROPERTIES
  DrainLeavesNothing
  DeliversOnce
  EveryEntrySettles
