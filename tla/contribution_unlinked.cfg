SPECIFICATION ContribSpec
CONSTANTS
  Procs = {p1}
  Contributors = {p1}
  Pruners = {p1}
  Incidents = {i1}
  Drafts = {d1}
  CompactAt = 2
  Keep = 1
  Age = 0
  MaxIssue = 1
  MaxTime = 2
  MaxFaults = 0
  AllowChat = FALSE
INVARIANTS SaidIsLinked
CHECK_DEADLOCK FALSE
