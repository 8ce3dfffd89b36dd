SPECIFICATION Spec
CONSTANTS
  c1 = c1
  c2 = c2
  c3 = c3
  p1 = p1
  p2 = p2
  p3 = p3
  Width = 1
  Values = {0}
  Blank = 0
  NoFrame = NoFrame
  Chunks = {}
  Clients = {c1, c2, c3}
  NoClient = NoClient
  Viewer = c1
  PaneIds = {p1}
  Panes = {p1}
  Visible <- OnePane
  ActivePane = p1
  InputKinds = {"KeyEvent"}
  Signals = {"HostResize", "Shutdown"}
  InboxCapacity = 2
  ClientCapacity = 1
SYMMETRY ClientSymmetry
INVARIANTS
  FocusIsRegistered
  OneTypistAtATime
CHECK_DEADLOCK FALSE
