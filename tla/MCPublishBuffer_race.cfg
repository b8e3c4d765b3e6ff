CONSTANTS
  w1 = w1
  w2 = w2
  Thread = {w1, w2}
  Event <- MCEvent
  MaxLen = 100
  BufferSize = 4
  MaxPublish = 2
  MaxFaults = 2
  Samples = FALSE
  MaxDrop = 2
SPECIFICATION Spec
CHECK_DEADLOCK FALSE
INVARIANTS
  LossAccounted
