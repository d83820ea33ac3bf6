SPECIFICATION Spec
CONSTANTS
  big = big
  small = small
  other = other
  f1 = f1
  f2 = f2
  Procs = {"p1"}
  Targets = {big, other}
  Fingerprints = {f1, f2}
  Fp <- FpOfModels
  Slots <- SlotsOfModels
  TTL = 1
  MaxEntries = 1
  Drop = 1
  MaxTime = 2
  MaxRuns = 2
INVARIANTS LiteTypeOK PassHasEvidence CacheBounded QuietServers
CHECK_DEADLOCK FALSE
