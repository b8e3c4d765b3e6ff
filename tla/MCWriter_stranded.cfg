CONSTANTS
  g1 = g1
  g2 = g2
  bad = bad
  poison = poison
  live = live
  Event = {g1}
  Bad = {}
  Poison = {}
  Ephemeral = {}
  MaxLen = 3
  BatchMax = 2
  MaxStream = 2
  Faults = {"read"}
  MaxFaults = 1
SPECIFICATION FairSpec
PROPERTIES
  EveryEntrySettles
