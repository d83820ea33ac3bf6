SPECIFICATION ContribSpec
CONSTANTS
  Procs = {p1, p2}
  Contributors = {p1}
  Pruners = {p2}
  Incidents = {i1, i2}
  Drafts = {d1}
  CompactAt = 2
  Keep = 1
  Age = 0
  MaxIssue = 2
  MaxTime = 1
  MaxFaults = 1
  AllowChat = FALSE
SYMMETRY FileSymmetry
INVARIANTS ContribTypeOK PostedAsPreviewed LinkedToItsIssue LinkStays
PROPERTIES OnlyApproved ImplementsPublication
CHECK_DEADLOCK FALSE
