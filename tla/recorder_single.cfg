SPECIFICATION FairSpec
CONSTANTS
  Procs = {p1}
  Hooks = {t1}
  Homes = {h1, cwd}
  Cwd = cwd
  DefaultHome = h1
  Recorders = {p1}
  Readers = {}
  Stoppable = {p1}
  MaxEvents = 2
  MaxBytes = 2
  SegFloor = 0
  Batch = 2
  Retention = 0
  Grace = 0
  CleanupInterval = 0
  NEvents = 3
  MaxTime = 1
  MaxSegs = 3
  MaxFaults = 1
  MaxCrashes = 1
INVARIANTS CleanedWithinBudget
PROPERTIES EventuallyWritten DeletesExpiredOrOver ImplementsLog
CHECK_DEADLOCK FALSE
