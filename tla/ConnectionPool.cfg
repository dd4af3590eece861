SPECIFICATION FairSpec
CONSTANTS
  p1 = p1
  p2 = p2
  p3 = p3
  None = None
  Procs = {p1, p2, p3}
  PoolSize = 2
INVARIANTS TypeOK StuckOnlyOnReload
PROPERTY CallsAnswered
CHECK_DEADLOCK FALSE
