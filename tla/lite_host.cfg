SPECIFICATION Spec
CONSTANTS
  big = big
  small = small
  other = other
  f1 = f1
  f2 = f2
  Procs = {"p1"}
  Targets = {big, small}
  Fingerprints = {f1}
  Fp <- FpOfHosts
  Slots <- SlotsOfHosts
  TTL = 1
  MaxEntries = 1
  Drop = 1
  MaxTime = 2
  MaxRuns = 1
INVARIANTS TestedTarget
CHECK_DEADLOCK FALSE
