SPECIFICATION FairSpec
CONSTANTS
  c1 = c1
  c2 = c2
  c3 = c3
  p1 = p1
  p2 = p2
  p3 = p3
  Width = 1
  Values = {0, 1}
  Blank = 0
  NoFrame = NoFrame
  Chunks <- WriteOnce
  Clients = {c1, c2}
  NoClient = NoClient
  Viewer = c1
  PaneIds = {p1}
  Panes = {p1}
  Visible <- OnePane
  ActivePane = p1
  InputKinds = {}
  Signals = {}
  InboxCapacity = 1
  ClientCapacity = 2
INVARIANT
  CleanPanesAreSent
PROPERTIES
  ChangesArePainted
  ViewerCatchesUp
  WriterEndsWithItsClient
CHECK_DEADLOCK FALSE
