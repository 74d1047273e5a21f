CONSTANTS
  Conns = {c1, c2}
  Handles = {h1, h2}
  INVALID_SOCKET = INVALID_SOCKET
  Main = Main
  Overlong = FALSE
SPECIFICATION HandleSpec
INVARIANT ReplyGoesHome
CHECK_DEADLOCK FALSE
