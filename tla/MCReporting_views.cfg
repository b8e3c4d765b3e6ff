CONSTANTS
  p1 = p1
  p2 = p2
  Line = Line
  Stations <- Both
  MaxSegment = 4
  Reassert = 1
  Day = 6
  Slot = 3
  ShiftStart = 1
  Reach = 4
  MaxTime = 8
  MaxRows <- RowsOfViews
  MaxLosses <- LossesOfViews
  Casts <- CastsOfViews
SPECIFICATION Spec
CHECK_DEADLOCK FALSE
INVARIANTS
  ReportedIsHeld
  StopsAreSeen
  FusedIsUnion
  SlotsHoldTheirTime
  MonitorAgrees
  QueryCountsWindow
  LineStopsAreTrue
