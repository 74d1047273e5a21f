CONSTANTS
  Conns = {c1, c2}
  Handles = {h1, h2}
  INVALID_SOCKET = INVALID_SOCKET
  Main = Main
  Overlong = TRUE
SPECIFICATION HandleSpec
INVARIANTS
  HandleStaysOurs
  SocketStaysOpen
  NoSocketLost
CHECK_DEADLOCK FALSE
