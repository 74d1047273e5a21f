CONSTANTS
  Listeners = 2
  Conns = {c1, c2, c3}
  Keys = {k1, k2}
  Batch = 1
  SweepLimit = 0
  MaxClients = 2
  MaxFaults = 1
  None = None
SPECIFICATION ListenerFairSpec
INVARIANTS
  EntriesAreLive
  SweepFindsAll
  SweepSparesUnconnected
  PostsBounded
PROPERTY
  WaitingIsAccepted
CHECK_DEADLOCK FALSE
