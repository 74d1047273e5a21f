CONSTANTS
  Listeners = 2
  Conns = {c1, c2, c3, c4}
  Keys = {k1, k2}
  Batch = 1
  SweepLimit = 0
  MaxClients = 3
  MaxFaults = 1
  None = None
SPECIFICATION ListenerSpec
SYMMETRY Symmetry
INVARIANTS
  TraversalUndisturbed
CHECK_DEADLOCK FALSE
