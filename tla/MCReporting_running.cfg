CONSTANTS
  p1 = p1
  p2 = p2
  Line = Line
  Stations <- Both
  MaxSegment = 2
  Reassert = 1
  Day = 6
  Slot = 3
  ShiftStart = 1
  Reach = 3
  MaxTime = 8
  MaxRows <- RowsOfLine
  MaxLosses <- LossesOfLine
  Casts <- CastsOfLine
SPECIFICATION Spec
CHECK_DEADLOCK FALSE
INVARIANT RunningTimeIsCounted
