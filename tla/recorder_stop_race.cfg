SPECIFICATION Spec
CONSTANTS
  Procs = {p1}
  Hooks = {t1}
  Homes = {h1, cwd}
  Cwd = cwd
  DefaultHome = h1
  Recorders = {p1}
  Readers = {}
  Stoppable = {p1}
  MaxEvents = 3
  MaxBytes = 2
  SegFloor = 0
  Batch = 2
  Retention = 1
  Grace = 0
  CleanupInterval = 0
  NEvents = 3
  MaxTime = 0
  MaxSegs = 2
  MaxFaults = 0
  MaxCrashes = 0
INVARIANTS StopAlwaysWrites
CHECK_DEADLOCK FALSE
