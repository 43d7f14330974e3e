SPECIFICATION Spec
CONSTANTS
  c1 = c1
  c2 = c2
  c3 = c3
  p1 = p1
  p2 = p2
  Conn <- MCConn
  Port <- MCPort
  V6 <- MCV6
  NoConn = NoConn
  NoPort = NoPort
  PortsExclusive = FALSE
  MaxCrashes = 0
INVARIANT AcceptFindsRemote
CHECK_DEADLOCK FALSE
