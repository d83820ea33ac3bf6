SPECIFICATION Spec
CONSTANTS
  Procs = {p1, p2}
  Hooks = {t1}
  Homes = {h1, cwd}
  Cwd = cwd
  DefaultHome = h1
  Recorders = {p1}
  Readers = {p2}
  Stoppable = {}
  MaxEvents = 3
  MaxBytes = 2
  SegFloor = 0
  Batch = 2
  Retention = 0
  Grace = 0
  CleanupInterval = 0
  NEvents = 3
  MaxTime = 1
  MaxSegs = 2
  MaxFaults = 1
  MaxCrashes = 0
INVARIANTS TypeOK WrittenOnce FiledByProfile
PROPERTIES FreezeComplete
CHECK_DEADLOCK FALSE
