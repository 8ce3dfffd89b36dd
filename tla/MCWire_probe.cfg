\* The server looks for dead connections while a message is on its way.
SPECIFICATION Spec
CONSTANTS
  c1 = c1
  Clients = {c1}
  Messages <- ShortAndLong
  Base = 3
  HeaderBytes = 2
  MaxMessageSize = 2
  SocketBytes = 3
  MaxSent = 2
INVARIANT
  SweepsAreHarmless
CHECK_DEADLOCK FALSE
