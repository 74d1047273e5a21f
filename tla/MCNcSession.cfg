CONSTANTS
  BSocks = {s1, s2}
  BObjs = {b1, b2}
  BSOCK_SIZE_MAX = 1
  BOBJ_SIZE_MAX = 1
  DataLen = 3
  AddrCells = 1
  Requests <- MCRequests
  Commands <- MCCommands
  ResponseLen = 3
  Replies = TRUE
  None = None
SPECIFICATION NcFairSpec
INVARIANTS
  NcTypeOK
  NcPaired
  RequestTakenWhole
  ResponseInOrder
PROPERTY
  RequestSettled
CHECK_DEADLOCK FALSE
