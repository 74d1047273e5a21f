CONSTANTS
  Threads = {t1, t2, t3}
  DB_LINK_MIN = 1
  DB_LINK_MAX = 2
  None = None
SPECIFICATION DbSpec
INVARIANT
  LinkUsable
