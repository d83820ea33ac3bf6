SPECIFICATION Spec
CONSTANTS
  c1 = c1
  c2 = c2
  a = a
  c3 = c3
  c4 = c4
  s1 = s1
  s2 = s2
  NoId = NoId
  NoKey = NoKey
  NoSession = NoSession
  NoCall = NoCall
  Sessions = {s1, s2}
  Calls = {c1, c2}
  IdOf <- OneId
  ToolOf <- OneTool
  Keys = {"k1", "k2"}
  Fails = {"k2"}
  Statuses = {503}
  Speeds = {"ok"}
  Pollers = {"poll"}
  LoopStreak = 2
  HangSeconds = 1
  ManyRejected = 2
  ManyErrors = 2
  ManyFailed = 2
  ManyPrepared = 3
  FewDispatched = 0
  ManyMissing = 2
  Samples = 2
  MaxEvents = 3
  MaxRows = 4
  Retention = 4
  Since = 3
  MaxTime = 4
  MaxOthers = 1
  MaxLost = 1
INVARIANTS DiagnosisTypeOK
PROPERTIES HangIsReal PassMeansFinished PassNotCut LoopIsReal
SYMMETRY Symmetry
VIEW Reported
CHECK_DEADLOCK FALSE
