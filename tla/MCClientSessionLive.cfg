CONSTANTS
  RSocks = {r1}
  RObjs = {o1, o2}
  BObjs = {b1, b2}
  Workers = {w1, w2}
  RSOCK_SIZE_MAX = 1
  ROBJ_SIZE_MAX = 1
  BOBJ_SIZE_MAX = 1
  ReplySize = 2
  MaxBatch = 2
  Handlers = {"external"}
  None = None
SPECIFICATION FairSpec
PROPERTIES
  CommandFinishes
  SessionReclaimed
  ImplementsSendQueue
  ImplementsSharedLife
CHECK_DEADLOCK FALSE
