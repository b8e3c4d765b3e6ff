CONSTANTS
  w1 = w1
  w2 = w2
  Thread = {w1}
  Event <- MCEvent
  MaxLen = 100
  BufferSize = 3
  MaxPublish = 4
  MaxFaults = 3
  Samples = TRUE
  MaxDrop = 2
SPECIFICATION FairSpec
INVARIANTS
  LossAccounted
  InOrder
  OneFailurePerInterval
PROPERTIES
  BufferDrains
