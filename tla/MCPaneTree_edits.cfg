\* Three panes in windows with room to spare, with little room and with none.
SPECIFICATION Spec
CONSTANTS
  Unit = 24
  MinCols = 5
  MinRows = 2
  p1 = p1
  p2 = p2
  p3 = p3
  PaneIds = {p1, p2, p3}
  Windows <- Sizes
  Ratios <- HalfAndThird
  Deltas <- ToTheLimit
SYMMETRY IdSymmetry
INVARIANTS
  TypeOK
  PanesTileTheWindow
  CloseUndoesSplit
  NavigationIsAdjacent
  BordersCanBeGrabbed
  TreesThatFitDoNotPanic
PROPERTIES
  OthersStayPut
  RoomIsKept
CHECK_DEADLOCK FALSE
