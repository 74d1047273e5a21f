CONSTANTS
  Procs = {p1, p2, p3}
  Listeners = 2
  Leftovers = {1}
  MaxFaults = 2
  Nobody = Nobody
SPECIFICATION StartupFairSpec
INVARIANTS
  ServingListens
  OneServer
PROPERTY
  SomebodyServes
