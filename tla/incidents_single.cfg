SPECIFICATION Spec
CONSTANTS
  Procs = {p1}
  Incidents = {i1, i2, i3}
  Drafts = {d1}
  CompactAt = 2
  Keep = 1
  Age = 1
  MaxIssue = 1
  MaxTime = 4
  MaxFaults = 1
SYMMETRY IncidentSymmetry
INVARIANTS StoreTypeOK RowsHaveFiles ListedExists RecentListed IndexBounded
PROPERTIES PruneKeepsLinked
CHECK_DEADLOCK FALSE
