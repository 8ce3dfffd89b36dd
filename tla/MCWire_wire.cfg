\* A client writes while the server reads, sweeps, removes and shuts down.
SPECIFICATION FairSpec
CONSTANTS
  c1 = c1
  Clients = {c1}
  Messages <- ShortAndLong
  Base = 3
  HeaderBytes = 2
  MaxMessageSize = 2
  SocketBytes = 3
  MaxSent = 3
INVARIANTS
  FramesSurvive
  EndedReadersHaveAll
PROPERTIES
  OnlyBufferedIsSwept
  EverythingArrives
CHECK_DEADLOCK FALSE
