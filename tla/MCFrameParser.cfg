CONSTANTS
  Bufsize = 16
  AddrSpace = 4
  ByteBase = 16
  MarkFB = 14
  MarkFC = 15
  Cr = 13
  MaxFrames = 3
  GoodScripts <- MCGoodScripts
  LastFrames <- MCLastFrames
  StaleBytes = {15}
SPECIFICATION FairSpec
INVARIANTS
  RingTypeOK
  FlagsAgree
  RecvNeverOverwrites
  FrameIntegrity
  PositionsMatchStream
  NoFrameLeftBehind
  ClosedOnlyAtSeam
PROPERTIES
  LoopConsumes
  RingRefined
  BadFrameEndsSession
CHECK_DEADLOCK FALSE
