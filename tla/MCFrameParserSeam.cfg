CONSTANTS
  Bufsize = 16
  AddrSpace = 4
  ByteBase = 16
  MarkFB = 14
  MarkFC = 15
  Cr = 13
  MaxFrames = 1
  GoodScripts <- MCGoodScripts
  LastFrames = {}
  StaleBytes = {15}
SPECIFICATION Spec
INVARIANT
  WellFormedNotClosed
CHECK_DEADLOCK FALSE
