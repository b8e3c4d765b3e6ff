CONSTANTS
  g1 = g1
  g2 = g2
  bad = bad
  poison = poison
  live = live
  Event = {g1, g2, bad, poison, live}
  Bad = {bad}
  Poison = {poison}
  Ephemeral = {live}
  MaxLen = 2
  BatchMax = 2
  MaxStream = 3
  Faults = {"read", "db", "ack", "reject", "crash", "stop"}
  MaxFaults = 3
SPECIFICATION Spec
SYMMETRY GoodSymmetry
INVARIANTS
  AckedIsStored
  NoDoubleRow
  OnlyRefusedAreParked
