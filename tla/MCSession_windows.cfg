\* Three windows, four panes, two sizes of window.
SPECIFICATION Spec
CONSTANTS
  Unit = 24
  MinCols = 5
  MinRows = 2
  w1 = w1
  w2 = w2
  w3 = w3
  p1 = p1
  p2 = p2
  p3 = p3
  p4 = p4
  WindowIds = {w1, w2, w3}
  PaneIds = {p1, p2, p3, p4}
  Sizes <- TwoSizes
  Ratios <- Half
SYMMETRY IdSymmetry
INVARIANTS
  ActiveWindowExists
  
PROPERTY
  ViewIsKept
CHECK_DEADLOCK FALSE
