SPECIFICATION Spec
CONSTANTS
  Procs = {p1}
  Hooks = {t1, t2}
  Homes = {h1, h2, cwd}
  Cwd = cwd
  DefaultHome = h1
  Recorders = {p1}
  Readers = {p1}
  Stoppable = {p1}
  MaxEvents = 2
  MaxBytes = 2
  SegFloor = 1
  Batch = 2
  Retention = 9
  Grace = 0
  CleanupInterval = 0
  NEvents = 3
  MaxTime = 0
  MaxSegs = 2
  MaxFaults = 0
  MaxCrashes = 0
INVARIANTS FiledByProfile Accounted FreezePrivate StopWrites NoLostWakeup
PROPERTIES FreezeComplete
CHECK_DEADLOCK FALSE
