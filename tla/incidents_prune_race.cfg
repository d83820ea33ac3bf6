SPECIFICATION Spec
CONSTANTS
  Procs = {p1, p2}
  Incidents = {i1, i2}
  Drafts = {}
  CompactAt = 2
  Keep = 1
  Age = 0
  MaxIssue = 1
  MaxTime = 2
  MaxFaults = 0
PROPERTIES PruneKeepsLinked
CHECK_DEADLOCK FALSE
