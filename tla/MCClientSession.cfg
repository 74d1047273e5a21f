CONSTANTS
  RSocks = {r1, r2}
  RObjs = {o1, o2}
  BObjs = {b1, b2, b3}
  Workers = {w1, w2}
  RSOCK_SIZE_MAX = 1
  ROBJ_SIZE_MAX = 1
  BOBJ_SIZE_MAX = 1
  ReplySize = 1
  MaxBatch = 2
  Handlers = {"empty", "external"}
  None = None
SPECIFICATION Spec
SYMMETRY Symmetry
INVARIANTS
  TypeOK
  RefCountExact
  NoUseAfterFree
  ForgottenOnlyIfDropped
  ReclaimExclusive
  HeldByOne
  OneSenderPerList
  OldestIsSent
CHECK_DEADLOCK FALSE
