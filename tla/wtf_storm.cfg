SPECIFICATION Spec
CONSTANTS
  c1 = c1
  c2 = c2
  a = a
  c3 = c3
  c4 = c4
  s1 = s1
  s2 = s2
  NoId = NoId
  NoKey = NoKey
  NoSession = NoSession
  NoCall = NoCall
  Sessions = {s1}
  Calls = {c1, c2, c3, c4}
  IdOf <- NoIds
  ToolOf <- TwoTools
  Keys = {"k1", "k2"}
  Fails = {"k2"}
  Statuses = {}
  Speeds = {"ok"}
  Pollers = {"poll"}
  LoopStreak = 5
  HangSeconds = 20
  ManyRejected = 2
  ManyErrors = 2
  ManyFailed = 1
  ManyPrepared = 9
  FewDispatched = 0
  ManyMissing = 2
  Samples = 2
  MaxEvents = 20
  MaxRows = 20
  Retention = 20
  Since = 20
  MaxTime = 7
  MaxOthers = 0
  MaxLost = 0
PROPERTIES StormIsFound
SYMMETRY SameTool
CONSTRAINT WtfLast
VIEW Reported
CHECK_DEADLOCK FALSE
