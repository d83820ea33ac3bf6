----------------------------- MODULE LoopProofs -----------------------------
(* That a tool loop is one (LoopIsReal), for every value of the constants.   *)
EXTENDS DiagnosisProofs

(* A session waits for its hook, so its executions are stamped and recorded  *)
(* in order: an execution is younger than all that came before the one       *)
(* before it.                                                               *)
OrderInv ==
  \A s \in Sessions :
    /\ \A i, j \in Ran(s) : i < j => \A h \in 1..i : log[h].ts < log[j].ts
    /\ hook[s].made # <<>> /\ hook[s].made[1].type = "tool.executed" =>
         \A i \in Ran(s) : \A h \in 1..i : log[h].ts < hook[s].made[1].ts

(* Of the executions, memory is what a freeze at the time cmd.at, with L     *)
(* rows in the log, had to copy.                                            *)
CopiedAt(L) ==
  \A i \in DOMAIN log : log[i].type = "tool.executed" =>
    (log[i] \in cmd.memory <=>
       /\ i <= L /\ log[i].ts <= cmd.at /\ log[i].ts >= cmd.at - Since
       /\ InScope(log[i], cmd.scope)
       /\ \E h \in 1..i : /\ L - h < MaxEvents /\ L - h < MaxRows
                          /\ log[h].ts >= cmd.at - Retention)

CopyInv ==
  cmd.pc = "frozen" =>
    cmd.memory = {} \/ \E L \in cmd.seen..Len(log) :
                         CopiedAt(L) /\ \A i \in 1..L : log[i].ts <= cmd.at

LoopInv == DiagnosisInv /\ OrderInv /\ CopyInv

-----------------------------------------------------------------------------
(* The steps, as far as the log, the hooks and the command are concerned.   *)
LEMMA StepKinds ==
  ASSUME DiagnosisInv, [Next]_vars
  PROVE  \/ \E s \in Sessions : \E events : Build(s, events)
         \/ \E s \in Sessions : Record(s)
         \/ UNCHANGED <<log, hook, cmd>>
         \/ \E gateway \in BOOLEAN, scope \in Sessions \cup {All}, n \in 0..Len(log) :
              WtfFreeze(gateway, scope, n)
         \/ \E s \in Sessions : RecordAstray(s)
         \/ \E n \in 0..Len(log) : \E lost \in SUBSET (1..n) : WtfAnalyse(n, lost)
<1>1. CASE UNCHANGED vars
  BY <1>1 DEF vars
<1>2. ASSUME NEW s \in Sessions, NEW q \in Emissions, NEW w \in Speeds, PostApiRequest(s, q, w)
      PROVE  \E events : Build(s, events)
  BY <1>2 DEF PostApiRequest, Enter
<1>3. ASSUME NEW s \in Sessions, NEW status \in Statuses, ApiRequestError(s, status)
      PROVE  \E events : Build(s, events)
  BY <1>3 DEF ApiRequestError, Enter
<1>4. ASSUME NEW c \in Calls, PreToolCall(c)
      PROVE  \E s \in Sessions : \E events : Build(s, events)
  BY <1>4, CallTyped DEF PreToolCall, Enter, DiagnosisInv
<1>5. ASSUME NEW c \in Calls, NEW k \in Keys, PostToolCall(c, k)
      PROVE  \E s \in Sessions : \E events : Build(s, events)
  BY <1>5, CallTyped DEF PostToolCall, Enter, DiagnosisInv
<1>6. ASSUME NEW s \in Sessions, AgentLoopStopped(s) \/ Note(s) \/ Stamp(s)
      PROVE  \E events : Build(s, events)
  BY <1>6 DEF AgentLoopStopped, Note, Stamp, Enter
<1>7. Tick => UNCHANGED <<log, hook, cmd>>
  BY DEF Tick
<1>8. QED
  BY <1>1, <1>2, <1>3, <1>4, <1>5, <1>6, <1>7 DEF Next

LEMMA BuildFacts ==
  ASSUME DiagnosisInv, DiagnosisInv', NEW s \in Sessions, NEW events, Build(s, events)
  PROVE  /\ UNCHANGED <<log, cmd>>
         /\ hook'[s].made[1].ts = now + 1
         /\ \A t \in Sessions \ {s} : hook'[t] = hook[t]
<1>1. UNCHANGED <<log, cmd>> /\ now \in Nat
  BY DEF Build, DiagnosisInv, DiagnosisTypeOK
<1>2. PICK e : e = [Head(events) EXCEPT !.ts = now + 1]
  OBVIOUS
<1>3. PICK todo : todo = Tail(events)
  OBVIOUS
<1>4. hook' = [hook EXCEPT ![s] = [made |-> <<e>>, todo |-> todo]]
  BY <1>2, <1>3 DEF Build
<1>5. DOMAIN hook = Sessions
  BY DEF DiagnosisInv, DiagnosisTypeOK
<1>6. hook'[s].made = <<e>> /\ \A t \in Sessions \ {s} : hook'[t] = hook[t]
  BY <1>4, <1>5
<1>7. e \in Events
  <2>1. hook'[s].made \in Seq(Events)
    BY DEF DiagnosisInv, DiagnosisTypeOK
  <2>2. QED
    BY <1>6, <2>1
<1>8. e.ts = now + 1
  <2>1. "ts" \in DOMAIN e
    BY <1>7 DEF Events
  <2>2. DOMAIN e = DOMAIN Head(events)
    BY <1>2
  <2>3. QED
    BY <1>2, <2>1, <2>2
<1>9. QED
  BY <1>1, <1>6, <1>8

(* The executions of a session, and its rows when there is one more.        *)
LEMMA RecordFacts ==
  ASSUME DiagnosisInv, NEW s \in Sessions, Record(s)
  PROVE  \E n \in Nat, e \in Events :
           /\ n = Len(log) /\ Len(log') = n + 1
           /\ DOMAIN log = 1..n /\ DOMAIN log' = 1..(n + 1)
           /\ e = hook[s].made[1] /\ hook[s].made # <<>> /\ Waits(s, e)
           /\ log'[n + 1] = e
           /\ \A i \in 1..n : log'[i] = log[i]
           /\ hook'[s].made = <<>>
           /\ \A t \in Sessions \ {s} : hook'[t] = hook[t]
           /\ cmd' = cmd
<1>1. PICK e : e = hook[s].made[1]
  OBVIOUS
<1>2. hook[s].made # <<>> /\ e \in Events /\ Waits(s, e)
  BY <1>1, WaitingTyped DEF Record, DiagnosisInv, HookInv
<1>3. PICK n \in Nat : n = Len(log)
  BY DEF DiagnosisInv, DiagnosisTypeOK
<1>4. log' = Append(log, e) /\ hook' = [hook EXCEPT ![s].made = <<>>] /\ cmd' = cmd
  BY <1>1 DEF Record
<1>5. /\ DOMAIN log = 1..n /\ DOMAIN log' = 1..(n + 1) /\ Len(log') = n + 1
      /\ log'[n + 1] = e
      /\ \A i \in 1..n : log'[i] = log[i]
  BY <1>2, <1>3, <1>4 DEF DiagnosisInv, DiagnosisTypeOK
<1>6. hook'[s].made = <<>> /\ \A t \in Sessions \ {s} : hook'[t] = hook[t]
  <2>1. hook \in [Sessions -> [made : Seq(Events), todo : Seq(Events)]]
    BY DEF DiagnosisInv, DiagnosisTypeOK
  <2>2. hook'[s] = [hook[s] EXCEPT !.made = <<>>] /\ \A t \in Sessions \ {s} : hook'[t] = hook[t]
    BY <1>4, <2>1
  <2>3. hook[s] \in [made : Seq(Events), todo : Seq(Events)]
    BY <2>1
  <2>4. QED
    BY <2>2, <2>3
<1>7. QED
  BY <1>1, <1>2, <1>3, <1>4, <1>5, <1>6

LEMMA SameOrder ==
  ASSUME OrderInv, UNCHANGED <<log, hook>>
  PROVE  OrderInv'
BY DEF OrderInv, Ran

LEMMA BuildOrder ==
  ASSUME DiagnosisInv, DiagnosisInv', OrderInv, NEW s \in Sessions, NEW events, Build(s, events)
  PROVE  OrderInv'
<1>1. log' = log /\ \A t \in Sessions : Ran(t)' = Ran(t)
  BY BuildFacts DEF Ran
<1>2. \A i \in DOMAIN log : \A h \in 1..i : h \in DOMAIN log /\ log[h].ts < now + 1
  <2> TAKE i \in DOMAIN log
  <2> TAKE h \in 1..i
  <2>1. h \in DOMAIN log /\ now \in Nat
    BY DEF DiagnosisInv, DiagnosisTypeOK
  <2>2. log[h].ts \in Nat /\ log[h].ts <= now
    BY <2>1, LoggedTyped DEF DiagnosisInv, LogInv
  <2>3. QED
    BY <2>1, <2>2
<1>3. ASSUME NEW t \in Sessions
      PROVE  /\ \A i, j \in Ran(t) : i < j => \A h \in 1..i : log[h].ts < log[j].ts
             /\ hook'[t].made # <<>> /\ hook'[t].made[1].type = "tool.executed" =>
                  \A i \in Ran(t) : \A h \in 1..i : log[h].ts < hook'[t].made[1].ts
  <2>1. CASE t = s
    <3>1. hook'[t].made[1].ts = now + 1
      BY <2>1, BuildFacts
    <3>2. Ran(t) \subseteq DOMAIN log
      BY DEF Ran
    <3>3. QED
      BY <1>2, <3>1, <3>2 DEF OrderInv
  <2>2. CASE t # s
    <3>1. hook'[t] = hook[t]
      BY <2>2, BuildFacts
    <3>2. QED
      BY <3>1 DEF OrderInv
  <2>3. QED
    BY <2>1, <2>2
<1>4. QED
  BY <1>1, <1>3 DEF OrderInv

(* A row that goes astray leaves nothing to be ordered. *)
LEMMA AstrayOrder ==
  ASSUME DiagnosisInv, OrderInv, NEW s \in Sessions, RecordAstray(s)
  PROVE  OrderInv'
<1>1. log' = log /\ hook' = [hook EXCEPT ![s].made = <<>>]
  BY DEF RecordAstray
<1>2. hook'[s].made = <<>> /\ \A t \in Sessions \ {s} : hook'[t] = hook[t]
  <2>1. hook \in [Sessions -> [made : Seq(Events), todo : Seq(Events)]]
    BY DEF DiagnosisInv, DiagnosisTypeOK
  <2>2. hook'[s] = [hook[s] EXCEPT !.made = <<>>] /\ \A t \in Sessions \ {s} : hook'[t] = hook[t]
    BY <1>1, <2>1
  <2>3. hook[s] \in [made : Seq(Events), todo : Seq(Events)]
    BY <2>1
  <2>4. QED
    BY <2>2, <2>3
<1>3. QED
  BY <1>1, <1>2 DEF OrderInv, Ran

LEMMA RecordOrder ==
  ASSUME DiagnosisInv, OrderInv, NEW s \in Sessions, Record(s)
  PROVE  OrderInv'
<1>1. PICK n \in Nat, e \in Events :
         /\ n = Len(log) /\ Len(log') = n + 1
         /\ DOMAIN log = 1..n /\ DOMAIN log' = 1..(n + 1)
         /\ e = hook[s].made[1] /\ hook[s].made # <<>> /\ Waits(s, e)
         /\ log'[n + 1] = e
         /\ \A i \in 1..n : log'[i] = log[i]
         /\ hook'[s].made = <<>>
         /\ \A t \in Sessions \ {s} : hook'[t] = hook[t]
         /\ cmd' = cmd
  BY RecordFacts
<1>2. e.type = "tool.executed" => e.session = s
  BY <1>1 DEF Waits, Tracked
<1>3. \A t \in Sessions : \A i \in Ran(t)' : i \in Ran(t) \/ (i = n + 1 /\ t = s /\ e.type = "tool.executed")
  BY <1>1, <1>2 DEF Ran
<1>4. \A t \in Sessions : Ran(t) \subseteq 1..n
  BY <1>1 DEF Ran
<1>5. \A i \in 1..n : \A h \in 1..i : h \in 1..n
  OBVIOUS
<1>6. ASSUME NEW t \in Sessions, NEW i \in Ran(t)', NEW j \in Ran(t)', i < j, NEW h \in 1..i
      PROVE  log'[h].ts < log'[j].ts
  <2>1. i \in 1..n /\ i \in Ran(t)
    <3>1. j \in 1..(n + 1)
      BY <1>1 DEF Ran
    <3>2. i \in 1..(n + 1)
      BY <1>1 DEF Ran
    <3>3. i # n + 1
      BY <1>6, <3>1, <3>2
    <3>4. QED
      BY <1>3, <1>4, <1>6, <3>3
  <2>2. h \in 1..n /\ log'[h] = log[h]
    BY <1>1, <1>5, <1>6, <2>1
  <2>3. CASE j \in Ran(t)
    BY <1>1, <1>4, <1>6, <2>1, <2>2, <2>3 DEF OrderInv
  <2>4. CASE j = n + 1 /\ t = s /\ e.type = "tool.executed"
    <3>1. log[h].ts < e.ts
      BY <1>1, <1>6, <2>1, <2>4 DEF OrderInv
    <3>2. QED
      BY <1>1, <2>2, <2>4, <3>1
  <2>5. QED
    BY <1>3, <1>6, <2>3, <2>4
<1>7. ASSUME NEW t \in Sessions, hook'[t].made # <<>>, hook'[t].made[1].type = "tool.executed",
             NEW i \in Ran(t)', NEW h \in 1..i
      PROVE  log'[h].ts < hook'[t].made[1].ts
  <2>1. t # s /\ hook'[t] = hook[t]
    BY <1>1, <1>7
  <2>2. i \in Ran(t) /\ i \in 1..n
    BY <1>3, <1>4, <1>7, <2>1
  <2>3. h \in 1..n /\ log'[h] = log[h]
    BY <1>1, <1>5, <1>7, <2>2
  <2>4. QED
    BY <1>7, <2>1, <2>2, <2>3 DEF OrderInv
<1>8. QED
  BY <1>6, <1>7 DEF OrderInv

-----------------------------------------------------------------------------
(* The copy *)

LEMMA RecordCopy ==
  ASSUME DiagnosisInv, DiagnosisInv', CopyInv, NEW s \in Sessions, Record(s)
  PROVE  CopyInv'
<1> SUFFICES ASSUME cmd'.pc = "frozen", cmd'.memory # {}
             PROVE  \E L \in cmd'.seen..Len(log') :
                      CopiedAt(L)' /\ \A i \in 1..L : log'[i].ts <= cmd'.at
  BY DEF CopyInv, CopiedAt
<1>1. PICK n \in Nat, e \in Events :
         /\ n = Len(log) /\ Len(log') = n + 1
         /\ DOMAIN log = 1..n /\ DOMAIN log' = 1..(n + 1)
         /\ e = hook[s].made[1] /\ hook[s].made # <<>> /\ Waits(s, e)
         /\ log'[n + 1] = e
         /\ \A i \in 1..n : log'[i] = log[i]
         /\ hook'[s].made = <<>>
         /\ \A t \in Sessions \ {s} : hook'[t] = hook[t]
         /\ cmd' = cmd
  BY RecordFacts
<1>2. PICK L \in cmd.seen..n : CopiedAt(L) /\ \A i \in 1..L : log[i].ts <= cmd.at
  BY <1>1 DEF CopyInv
<1>3. cmd.seen \in Nat /\ L \in Nat /\ L <= n
  BY <1>1 DEF DiagnosisInv, DiagnosisTypeOK
<1>4. \A i \in 1..L : log'[i].ts <= cmd'.at
  BY <1>1, <1>2, <1>3
<1>5. e.type = "tool.executed" => e \notin cmd.memory
  <2> SUFFICES ASSUME e.type = "tool.executed", e \in cmd.memory
               PROVE  FALSE
    OBVIOUS
  <2>1. PICK i \in 1..n : e = log[i]
    BY <1>1 DEF DiagnosisInv, FreezeInv
  <2>2. log'[i] = log'[n + 1] /\ i \in DOMAIN log' /\ n + 1 \in DOMAIN log'
    BY <1>1, <2>1
  <2>3. i = n + 1
    BY <1>1, <2>2 DEF DiagnosisInv, LogInv, Tracked
  <2>4. QED
    BY <2>3
<1>6. ASSUME NEW i \in 1..(n + 1), log'[i].type = "tool.executed"
      PROVE  log'[i] \in cmd'.memory <=>
               /\ i <= L /\ log'[i].ts <= cmd'.at /\ log'[i].ts >= cmd'.at - Since
               /\ InScope(log'[i], cmd'.scope)
               /\ \E h \in 1..i : /\ L - h < MaxEvents /\ L - h < MaxRows
                                  /\ log'[h].ts >= cmd'.at - Retention
  <2>1. CASE i = n + 1
    BY <1>1, <1>3, <1>5, <1>6, <2>1
  <2>2. CASE i \in 1..n
    <3>1. log'[i] = log[i] /\ cmd' = cmd /\ \A h \in 1..i : log'[h] = log[h]
      BY <1>1, <2>2
    <3>2. log[i] \in cmd.memory <=>
               /\ i <= L /\ log[i].ts <= cmd.at /\ log[i].ts >= cmd.at - Since
               /\ InScope(log[i], cmd.scope)
               /\ \E h \in 1..i : /\ L - h < MaxEvents /\ L - h < MaxRows
                                  /\ log[h].ts >= cmd.at - Retention
      BY <1>1, <1>2, <1>6, <2>2, <3>1 DEF CopiedAt
    <3>3. QED
      BY <3>1, <3>2
  <2>3. QED
    BY <2>1, <2>2
<1>7. CopiedAt(L)'
  BY <1>1, <1>6 DEF CopiedAt, InScope
<1>8. L \in cmd'.seen..Len(log')
  BY <1>1, <1>3
<1>9. QED
  BY <1>4, <1>7, <1>8

LEMMA FreezeCopy ==
  ASSUME DiagnosisInv, NEW gateway \in BOOLEAN, NEW scope \in Sessions \cup {All},
         NEW n \in 0..Len(log), WtfFreeze(gateway, scope, n)
  PROVE  CopyInv'
<1>1. PICK memory : memory = {e \in Memory : gateway /\ e.ts >= now - Since /\ InScope(e, scope)}
  OBVIOUS
<1>2. cmd' = [pc |-> "frozen", scope |-> scope, seen |-> n, at |-> now, memory |-> memory]
  BY <1>1 DEF WtfFreeze
<1>3. log' = log
  BY DEF WtfFreeze
<1>4. /\ cmd'.pc = "frozen" /\ cmd'.scope = scope /\ cmd'.seen = n /\ cmd'.at = now
      /\ cmd'.memory = memory
  BY <1>2
<1>5. CASE ~gateway
  <2>1. memory = {}
    BY <1>1, <1>5
  <2>2. QED
    BY <1>4, <2>1 DEF CopyInv
<1>6. CASE gateway
  <2>1. PICK L \in Nat : L = Len(log) /\ DOMAIN log = 1..L
    BY DEF DiagnosisInv, DiagnosisTypeOK
  <2>2. \A i \in 1..L : log[i].ts <= now
    BY <2>1 DEF DiagnosisInv, LogInv
  <2>3. ASSUME NEW i \in 1..L, log[i].type = "tool.executed"
        PROVE  log[i] \in memory <=>
                 /\ i <= L /\ log[i].ts <= now /\ log[i].ts >= now - Since
                 /\ InScope(log[i], scope)
                 /\ \E h \in 1..i : /\ L - h < MaxEvents /\ L - h < MaxRows
                                    /\ log[h].ts >= now - Retention
    <3>1. \A j \in 1..L : log[j] = log[i] => j = i
      BY <2>1, <2>3 DEF DiagnosisInv, LogInv, Tracked
    <3>2. log[i] \in Memory <=> \E h \in 1..i : Kept(h)
      BY <2>1, <2>3, <3>1 DEF Memory
    <3>3. \A h : Kept(h) <=> L - h < MaxEvents /\ L - h < MaxRows /\ log[h].ts >= now - Retention
      BY <2>1 DEF Kept
    <3>4. i <= L /\ log[i].ts <= now
      BY <2>2, <2>3
    <3>5. log[i] \in memory <=> log[i] \in Memory /\ log[i].ts >= now - Since /\ InScope(log[i], scope)
      BY <1>1, <1>6
    <3>6. QED
      BY <3>2, <3>3, <3>4, <3>5
  <2>4. CopiedAt(L)'
    BY <1>3, <1>4, <2>1, <2>3 DEF CopiedAt, InScope
  <2>5. L \in cmd'.seen..Len(log')
    BY <1>3, <1>4, <2>1
  <2>6. QED
    BY <1>3, <1>4, <2>2, <2>4, <2>5 DEF CopyInv
<1>7. QED
  BY <1>5, <1>6

LEMMA SameCopy ==
  ASSUME CopyInv, UNCHANGED <<log, cmd>>
  PROVE  CopyInv'
BY DEF CopyInv, CopiedAt, InScope

-----------------------------------------------------------------------------
LEMMA NextLoopInv == LoopInv /\ [Next]_vars => LoopInv'
<1> SUFFICES ASSUME LoopInv, [Next]_vars
             PROVE  LoopInv'
  OBVIOUS
<1>1. DiagnosisInv /\ DiagnosisInv' /\ OrderInv /\ CopyInv
  BY NextInv DEF LoopInv
<1>2. ASSUME NEW s \in Sessions, NEW events, Build(s, events)
      PROVE  OrderInv' /\ CopyInv'
  <2>1. UNCHANGED <<log, cmd>>
    BY <1>2 DEF Build
  <2>2. QED
    BY <1>1, <1>2, <2>1, BuildOrder, SameCopy
<1>3. ASSUME NEW s \in Sessions, Record(s)
      PROVE  OrderInv' /\ CopyInv'
  BY <1>1, <1>3, RecordOrder, RecordCopy
<1>4. CASE UNCHANGED <<log, hook, cmd>>
  BY <1>1, <1>4, SameOrder, SameCopy DEF LoopInv
<1>5. ASSUME NEW gateway \in BOOLEAN, NEW scope \in Sessions \cup {All}, NEW n \in 0..Len(log),
             WtfFreeze(gateway, scope, n)
      PROVE  OrderInv' /\ CopyInv'
  <2>1. UNCHANGED <<log, hook>>
    BY <1>5 DEF WtfFreeze
  <2>2. QED
    BY <1>1, <1>5, <2>1, SameOrder, FreezeCopy
<1>6. ASSUME NEW n \in 0..Len(log), NEW lost \in SUBSET (1..n), WtfAnalyse(n, lost)
      PROVE  OrderInv' /\ CopyInv'
  <2>1. UNCHANGED <<log, hook>> /\ cmd'.pc = "done"
    BY <1>6 DEF WtfAnalyse, NoCommand
  <2>2. QED
    BY <1>1, <2>1, SameOrder DEF CopyInv
<1>7. ASSUME NEW s \in Sessions, RecordAstray(s)
      PROVE  OrderInv' /\ CopyInv'
  <2>1. UNCHANGED <<log, cmd>>
    BY <1>7 DEF RecordAstray
  <2>2. QED
    BY <1>1, <1>7, <2>1, AstrayOrder, SameCopy
<1>8. QED
  BY <1>1, <1>2, <1>3, <1>4, <1>5, <1>6, <1>7, StepKinds DEF LoopInv

LEMMA LoopInductive == Spec => []LoopInv
<1>1. Init => LoopInv
  <2> SUFFICES ASSUME Init
               PROVE  OrderInv /\ CopyInv
    BY InitInv DEF LoopInv
  <2>1. \A s \in Sessions : hook[s].made = <<>> /\ Ran(s) = {}
    BY DEF Init, Ran
  <2>2. cmd.pc # "frozen"
    BY DEF Init, NoCommand
  <2>3. QED
    BY <2>1, <2>2 DEF OrderInv, CopyInv
<1>2. QED
  BY <1>1, NextLoopInv, PTL DEF Spec

-----------------------------------------------------------------------------
(* A window has no holes *)

(* A set of events with bounded stamps has a youngest.                      *)
LEMMA YoungestExists ==
  ASSUME NEW S, S # {}, NEW b \in Nat, \A e \in S : e.ts \in Nat /\ e.ts <= b
  PROVE  \E e \in S : \A f \in S : f.ts <= e.ts
<1> DEFINE Ages == {b - e.ts : e \in S}
<1>1. Ages \subseteq Nat /\ Ages # {}
  OBVIOUS
<1>2. PICK y \in S : \A a \in Ages : b - y.ts <= a
  <2>1. Min(Ages) \in Ages /\ \A a \in Ages : Min(Ages) <= a
    <3> HIDE DEF Ages
    <3>1. QED
      BY <1>1, LeastIsMember
  <2>2. QED
    BY <2>1
<1>3. \A e \in S : e.ts <= y.ts
  <2> TAKE e \in S
  <2>1. b - y.ts <= b - e.ts
    BY <1>2
  <2>2. QED
    BY <2>1
<1>4. QED
  BY <1>3

(* What is left out of the newest is left out for as many younger ones.     *)
LEMMA LeftOut ==
  ASSUME NEW S, IsFiniteSet(S), NEW b \in Nat, \A e \in S : e.ts \in Nat /\ e.ts <= b,
         NEW m \in Nat, NEW x \in S, x \notin Newest(S, m)
  PROVE  Cardinality({f \in Newest(S, m) : f.ts > x.ts}) >= m
<1> DEFINE Cut == {y \in S : y \notin Newest(S, m) /\ y.ts >= x.ts}
<1>1. Cut # {} /\ Cut \subseteq S
  OBVIOUS
<1>2. PICK y \in Cut : \A e \in Cut : e.ts <= y.ts
  <2>1. \A e \in Cut : e.ts \in Nat /\ e.ts <= b
    BY <1>1
  <2> HIDE DEF Cut
  <2>2. QED
    BY <1>1, <2>1, YoungestExists
<1> DEFINE After == {f \in S : f.ts > y.ts}
<1> DEFINE Younger == {f \in Newest(S, m) : f.ts > x.ts}
<1>3. After \subseteq Younger
  <2> SUFFICES ASSUME NEW f \in After
               PROVE  f \in Younger
    OBVIOUS
  <2>1. f \in S /\ f.ts \in Nat /\ y.ts \in Nat /\ x.ts \in Nat /\ y.ts >= x.ts /\ f.ts > y.ts
    BY <1>1
  <2>2. f \notin Cut
    BY <1>2, <2>1
  <2>3. f.ts > x.ts /\ f.ts >= x.ts
    BY <2>1
  <2>4. QED
    BY <2>1, <2>2, <2>3
<1>4. Younger \subseteq S /\ After \subseteq S
  BY NewestFinite
<1>5. ~(Cardinality(After) < m)
  BY DEF Newest
<1> HIDE DEF After, Younger
<1>6. /\ Cardinality(After) <= Cardinality(Younger)
      /\ Cardinality(After) \in Nat /\ Cardinality(Younger) \in Nat
  BY <1>3, <1>4, FS_Subset, FS_CardinalityType
<1>7. Cardinality(Younger) >= m
  BY <1>5, <1>6
<1>8. QED
  BY <1>7 DEF Younger

LEMMA CutoffIs ==
  ASSUME DiagnosisInv, NEW t \in Nat
  PROVE  t >= Cutoff <=> t >= cmd.at - Retention /\ t >= cmd.at - Since
<1>1. PICK a \in Int, b \in Int : a = cmd.at - Retention /\ b = cmd.at - Since
  BY BoundAssumption DEF DiagnosisInv, DiagnosisTypeOK
<1>2. Cutoff = CHOOSE x \in {a, b} : \A y \in {a, b} : x >= y
  BY <1>1 DEF Cutoff, Max
<1>3. \E x \in {a, b} : \A y \in {a, b} : x >= y
  BY <1>1
<1>4. Cutoff \in {a, b} /\ Cutoff >= a /\ Cutoff >= b
  BY <1>2, <1>3
<1>5. QED
  BY <1>1, <1>4

(* An execution is read from disk when its row is not lost and near enough   *)
(* to the end.                                                             *)
LEMMA ReadWhen ==
  ASSUME DiagnosisInv, NEW n \in 0..Len(log), NEW lost, NEW i \in DOMAIN log, log[i].type = "tool.executed"
  PROVE  log[i] \in Eligible(n, lost) <=>
           /\ i <= n /\ i \notin lost /\ Near(i, n, lost)
           /\ log[i].ts >= cmd.at - Retention /\ log[i].ts >= cmd.at - Since
           /\ log[i].ts <= cmd.at + 300
           /\ InScope(log[i], cmd.scope)
<1>1. \A j \in DOMAIN log : log[j] = log[i] => j = i
  BY DEF DiagnosisInv, LogInv, Tracked
<1>2. 1..n \subseteq DOMAIN log /\ n \in Nat /\ (i <= n <=> i \in 1..n)
  BY DEF DiagnosisInv, DiagnosisTypeOK
<1>3. log[i].ts >= Cutoff <=> log[i].ts >= cmd.at - Retention /\ log[i].ts >= cmd.at - Since
  BY LoggedTyped, CutoffIs DEF DiagnosisInv
<1>4. QED
  BY <1>1, <1>2, <1>3 DEF Eligible

LEMMA KeptUpMeans ==
  ASSUME DiagnosisInv, KeptUp, cmd.memory # {}
  PROVE  Len(log) - cmd.seen <= MaxEvents /\ Len(log) - cmd.seen <= MaxRows
<1>1. {MaxEvents, MaxRows} \subseteq Nat /\ Len(log) - cmd.seen \in Int
  BY BoundAssumption DEF DiagnosisInv, DiagnosisTypeOK
<1>2. PICK m : m = Min({MaxEvents, MaxRows})
  OBVIOUS
<1>3. m \in Nat /\ m <= MaxEvents /\ m <= MaxRows
  BY <1>1, <1>2, LeastIsMember
<1>4. Len(log) - cmd.seen <= m
  BY <1>2 DEF KeptUp
<1>5. QED
  BY <1>1, <1>3, <1>4

LEMMA RanFacts ==
  ASSUME LoopInv, NEW s \in Sessions, NEW i \in Ran(s)
  PROVE  /\ i \in DOMAIN log /\ i \in Nat /\ 1 <= i /\ i <= Len(log)
         /\ log[i].type = "tool.executed" /\ log[i].session = s /\ log[i].ts \in Nat
<1>1. i \in DOMAIN log /\ log[i].type = "tool.executed" /\ log[i].session = s
  BY DEF Ran
<1>2. DOMAIN log = 1..Len(log) /\ Len(log) \in Nat
  BY DEF LoopInv, DiagnosisInv, DiagnosisTypeOK
<1>3. log[i].ts \in Nat
  BY <1>1, LoggedTyped DEF LoopInv, DiagnosisInv
<1>4. QED
  BY <1>1, <1>2, <1>3

(* Between an execution that a freeze copied and one that it copied or read, *)
(* none is missing but what was missed.                                     *)
LEMMA NoHoleAfterCopied ==
  ASSUME LoopInv, cmd.pc = "frozen", NEW n \in 0..Len(log), NEW lost, KeptUp, NEW s \in Sessions,
         NEW i \in Ran(s), NEW k \in Ran(s), NEW j \in Ran(s), i < k, k < j,
         k \notin lost,
         log[i] \in Frozen(n, lost), log[i] \in cmd.memory, log[j] \in Frozen(n, lost)
  PROVE  log[k] \in cmd.memory \cup Persisted(n, lost)
<1>1. /\ MaxEvents \in Nat /\ MaxRows \in Nat /\ cmd.at \in Nat /\ now \in Nat
      /\ cmd.seen \in Nat /\ Retention \in Nat /\ Since \in Nat /\ Len(log) \in Nat
  BY BoundAssumption DEF LoopInv, DiagnosisInv, DiagnosisTypeOK
<1>2. PICK L \in cmd.seen..Len(log) : CopiedAt(L) /\ \A x \in 1..L : log[x].ts <= cmd.at
  BY DEF LoopInv, CopyInv
<1>3. /\ i \in DOMAIN log /\ j \in DOMAIN log /\ k \in DOMAIN log
      /\ i \in Nat /\ j \in Nat /\ k \in Nat /\ 1 <= i /\ j <= Len(log)
      /\ log[i].ts \in Nat /\ log[j].ts \in Nat /\ log[k].ts \in Nat
      /\ log[i].type = "tool.executed" /\ log[j].type = "tool.executed"
      /\ log[k].type = "tool.executed"
      /\ log[i].session = s /\ log[k].session = s
  BY RanFacts
<1>4. log[i].ts < log[k].ts /\ log[k].ts < log[j].ts
  BY <1>3 DEF LoopInv, OrderInv
<1>5. PICK h \in 1..i : /\ L - h < MaxEvents /\ L - h < MaxRows
                         /\ log[h].ts >= cmd.at - Retention
  BY <1>2, <1>3 DEF CopiedAt
<1>6. log[i].ts >= cmd.at - Since /\ InScope(log[i], cmd.scope)
  BY <1>2, <1>3 DEF CopiedAt
<1>7. log[k].ts >= cmd.at - Since
  BY <1>1, <1>3, <1>4, <1>6
<1>8. InScope(log[k], cmd.scope)
  BY <1>3, <1>6 DEF InScope
<1>9. CASE k <= L
  <2>1. h \in 1..k /\ k \in 1..L
    BY <1>1, <1>3, <1>9
  <2>2. QED
    BY <1>2, <1>3, <1>5, <1>7, <1>8, <1>9, <2>1 DEF CopiedAt
<1>10. CASE ~(k <= L)
  <2>1. log[j] \notin cmd.memory
    BY <1>1, <1>2, <1>3, <1>10 DEF CopiedAt
  <2>2. log[j] \in Eligible(n, lost)
    <3>1. log[j] \in Persisted(n, lost)
      BY <2>1 DEF Frozen, Newest
    <3>2. QED
      BY <3>1, ChoiceFacts DEF LoopInv
  <2>3. j <= n /\ log[j].ts <= cmd.at + 300
    BY <1>3, <2>2, ReadWhen DEF LoopInv
  <2>4. k <= n /\ Near(k, n, lost)
    <3>1. Len(log) - cmd.seen <= MaxRows
      BY KeptUpMeans DEF LoopInv
    <3>2. L \in Nat /\ cmd.seen <= L /\ n \in Nat /\ n <= Len(log)
      BY <1>1, <1>2
    <3>3. n - k < MaxRows /\ k \in 1..n /\ n \in Nat
      BY <1>1, <1>3, <1>10, <2>3, <3>1, <3>2
    <3>4. QED
      BY <3>3, LastRowsAreNear
  <2>5. log[k].ts >= cmd.at - Retention
    <3>1. log[h].ts < log[k].ts
      BY <1>5 DEF LoopInv, OrderInv
    <3>2. h \in DOMAIN log
      BY <1>3, <1>5 DEF LoopInv, DiagnosisInv, DiagnosisTypeOK
    <3>3. log[h].ts \in Nat
      BY <3>2, LoggedTyped DEF LoopInv, DiagnosisInv
    <3>4. QED
      BY <1>1, <1>3, <1>5, <3>1, <3>3
  <2>6. log[k].ts <= cmd.at + 300
    BY <1>1, <1>3, <1>4, <2>3
  <2>7. log[k] \in Eligible(n, lost)
    BY <1>3, <1>7, <1>8, <2>4, <2>5, <2>6, ReadWhen DEF LoopInv
  <2>8. SUFFICES ASSUME log[k] \notin Persisted(n, lost)
                 PROVE  FALSE
    OBVIOUS
  <2>9. PICK S : S = Eligible(n, lost)
    OBVIOUS
  <2>10. PICK U : U = cmd.memory \cup Persisted(n, lost)
    OBVIOUS
  <2>11. /\ IsFiniteSet(S) /\ IsFiniteSet(U) /\ Persisted(n, lost) = Newest(S, MaxEvents)
         /\ \A e \in S : e.ts \in Nat /\ e.ts <= now
         /\ Persisted(n, lost) \subseteq S
         /\ \A e \in U : e.ts \in Nat
    <3>1. DiagnosisInv
      BY DEF LoopInv
    <3>2. IsFiniteSet(S) /\ IsFiniteSet(U) /\ Persisted(n, lost) = Newest(S, MaxEvents)
      BY <2>9, <2>10, <3>1, ChoiceFacts
    <3>3. /\ \A e \in S \cup cmd.memory : e.ts \in Nat /\ e.ts <= now
          /\ Persisted(n, lost) \subseteq S
      BY <2>9, <3>1, ChoiceFacts
    <3>4. QED
      BY <2>10, <3>2, <3>3
  <2>12. PICK A : A = {f \in Newest(S, MaxEvents) : f.ts > log[k].ts}
    OBVIOUS
  <2>13. PICK B : B = {f \in U : f.ts > log[i].ts}
    OBVIOUS
  <2>14. Cardinality(A) >= MaxEvents
    BY <1>1, <2>7, <2>8, <2>9, <2>11, <2>12, LeftOut
  <2>15. Cardinality(B) < MaxEvents
    BY <2>10, <2>13 DEF Frozen, Newest
  <2>16. A \subseteq B /\ B \subseteq U
    <3>1. \A f \in A : f \in U /\ f.ts \in Nat /\ f.ts > log[k].ts
      BY <2>10, <2>11, <2>12
    <3>2. QED
      BY <1>3, <1>4, <2>13, <3>1
  <2>17. Cardinality(A) <= Cardinality(B) /\ Cardinality(A) \in Nat /\ Cardinality(B) \in Nat
    <3>1. IsFiniteSet(B)
      BY <2>11, <2>16, FS_Subset
    <3>2. QED
      BY <2>16, <3>1, FS_Subset, FS_CardinalityType
  <2>18. QED
    BY <1>1, <2>14, <2>15, <2>17
<1>11. QED
  BY <1>9, <1>10

(* The same for an execution that was read.                                 *)
LEMMA NoHoleAfterRead ==
  ASSUME LoopInv, cmd.pc = "frozen", NEW n \in 0..Len(log), NEW lost, flushed <= n, KeptUp,
         NEW s \in Sessions, NEW i \in Ran(s), NEW k \in Ran(s), NEW j \in Ran(s), i < k, k < j,
         k \notin lost, log[i] \in Persisted(n, lost), log[j] \in Frozen(n, lost)
  PROVE  log[k] \in cmd.memory \cup Persisted(n, lost)
<1>1. /\ MaxEvents \in Nat /\ MaxRows \in Nat /\ cmd.at \in Nat /\ now \in Nat
      /\ cmd.seen \in Nat /\ Retention \in Nat /\ Since \in Nat /\ Len(log) \in Nat
      /\ flushed \in Nat /\ n \in Nat
  BY BoundAssumption DEF LoopInv, DiagnosisInv, DiagnosisTypeOK
<1>2. DiagnosisInv
  BY DEF LoopInv
<1>3. /\ i \in DOMAIN log /\ j \in DOMAIN log /\ k \in DOMAIN log
      /\ i \in Nat /\ j \in Nat /\ k \in Nat /\ 1 <= i /\ j <= Len(log)
      /\ log[i].ts \in Nat /\ log[j].ts \in Nat /\ log[k].ts \in Nat
      /\ log[i].type = "tool.executed" /\ log[j].type = "tool.executed"
      /\ log[k].type = "tool.executed"
      /\ log[i].session = s /\ log[k].session = s
  BY RanFacts
<1>4. log[i].ts < log[k].ts /\ log[k].ts < log[j].ts
  BY <1>3 DEF LoopInv, OrderInv
<1>5. log[i] \in Eligible(n, lost)
  BY <1>2, ChoiceFacts
<1>6. /\ i <= n /\ Near(i, n, lost)
      /\ log[i].ts >= cmd.at - Retention /\ log[i].ts >= cmd.at - Since
      /\ InScope(log[i], cmd.scope)
  BY <1>2, <1>3, <1>5, ReadWhen
<1>7. log[k].ts >= cmd.at - Retention /\ log[k].ts >= cmd.at - Since
  <2>1. \A bound \in Int : log[i].ts >= bound => log[k].ts >= bound
    BY <1>3, <1>4
  <2>2. cmd.at - Retention \in Int /\ cmd.at - Since \in Int
    BY <1>1
  <2>3. QED
    BY <1>6, <2>1, <2>2
<1>8. InScope(log[k], cmd.scope)
  BY <1>3, <1>6 DEF InScope
<1>9. log[j] \in cmd.memory \/ log[j] \in Eligible(n, lost)
  <2>1. log[j] \in cmd.memory \/ log[j] \in Persisted(n, lost)
    BY DEF Frozen, Newest
  <2>2. QED
    BY <1>2, <2>1, ChoiceFacts
<1>10. log[j] \in cmd.memory =>
         \E L \in cmd.seen..Len(log) : /\ CopiedAt(L) /\ \A x \in 1..L : log[x].ts <= cmd.at
                                       /\ j <= L /\ log[j].ts <= cmd.at
  <2> SUFFICES ASSUME log[j] \in cmd.memory
               PROVE  \E L \in cmd.seen..Len(log) :
                        /\ CopiedAt(L) /\ \A x \in 1..L : log[x].ts <= cmd.at
                        /\ j <= L /\ log[j].ts <= cmd.at
    OBVIOUS
  <2>1. PICK L \in cmd.seen..Len(log) : CopiedAt(L) /\ \A x \in 1..L : log[x].ts <= cmd.at
    BY DEF LoopInv, CopyInv
  <2>2. j <= L /\ log[j].ts <= cmd.at
    BY <1>3, <2>1 DEF CopiedAt
  <2>3. QED
    BY <2>1, <2>2
<1>11. CASE k <= n
  <2>1. log[j].ts <= cmd.at + 300
    <3>1. log[j] \in Eligible(n, lost) => log[j].ts <= cmd.at + 300
      BY <1>2, <1>3, ReadWhen
    <3>2. log[j] \in cmd.memory => log[j].ts <= cmd.at
      BY <1>10
    <3>3. QED
      BY <1>1, <1>3, <1>9, <3>1, <3>2
  <2>2. log[k] \in Eligible(n, lost)
    <3>1. Near(k, n, lost)
      BY <1>1, <1>3, <1>6, NearUpward
    <3>2. log[k].ts <= cmd.at + 300
      BY <1>1, <1>3, <1>4, <2>1
    <3>3. QED
      BY <1>2, <1>3, <1>7, <1>8, <1>11, <3>1, <3>2, ReadWhen
  <2>3. PICK S : S = Eligible(n, lost)
    OBVIOUS
  <2>4. IsFiniteSet(S) /\ Persisted(n, lost) = Newest(S, MaxEvents) /\ \A e \in S : e.ts \in Nat
    BY <1>2, <2>3, ChoiceFacts
  <2>5. log[k].ts >= log[i].ts
    BY <1>3, <1>4
  <2>6. log[k] \in Newest(S, MaxEvents)
    BY <1>1, <2>2, <2>3, <2>4, <2>5, NewestUpward
  <2>7. QED
    BY <2>4, <2>6
<1>12. CASE ~(k <= n)
  <2>1. log[j] \notin Eligible(n, lost)
    <3>1. ~(j <= n)
      BY <1>1, <1>3, <1>12
    <3>2. QED
      BY <1>2, <1>3, <3>1, ReadWhen
  <2>2. log[j] \in cmd.memory
    BY <1>9, <2>1
  <2>3. PICK L \in cmd.seen..Len(log) : /\ CopiedAt(L) /\ \A x \in 1..L : log[x].ts <= cmd.at
                                       /\ j <= L /\ log[j].ts <= cmd.at
    BY <1>10, <2>2
  <2>4. Len(log) - cmd.seen <= MaxEvents /\ Len(log) - cmd.seen <= MaxRows
    BY <1>2, <2>2, KeptUpMeans
  <2>5. cmd.seen <= flushed
    BY <1>2 DEF DiagnosisInv, FreezeInv
  <2>6. L \in Nat /\ L <= Len(log)
    BY <1>1, <2>3
  <2>7. k \in 1..k /\ k <= L /\ k \in 1..L
    BY <1>3, <2>3, <2>6
  <2>8. L - k < MaxEvents /\ L - k < MaxRows
    BY <1>1, <1>3, <1>12, <2>4, <2>5, <2>6
  <2>9. log[k].ts <= cmd.at
    BY <2>3, <2>7
  <2>10. QED
    BY <1>3, <1>7, <1>8, <2>3, <2>7, <2>8, <2>9 DEF CopiedAt
<1>13. QED
  BY <1>11, <1>12

(* A window holds every execution of a session between two it holds, but for *)
(* what was missed.                                                        *)
LEMMA NoHole ==
  ASSUME LoopInv, cmd.pc = "frozen", NEW n \in 0..Len(log), NEW lost, flushed <= n, KeptUp,
         NEW s \in Sessions, NEW i \in Ran(s), NEW k \in Ran(s), NEW j \in Ran(s), i < k, k < j,
         k \notin Missed(lost),
         log[i] \in Frozen(n, lost), log[j] \in Frozen(n, lost)
  PROVE  log[k] \in Frozen(n, lost)
<1>1. PICK U : U = cmd.memory \cup Persisted(n, lost)
  OBVIOUS
<1>2. log[i] \in Newest(U, MaxEvents) /\ log[i] \in U
  BY <1>1 DEF Frozen, Newest
<1>3. log[k] \in U
  <2>1. k \notin lost => log[k] \in U
    BY <1>1, <1>2, NoHoleAfterCopied, NoHoleAfterRead
  <2>2. k \in lost => log[k] \in cmd.memory
    BY DEF Missed
  <2>3. QED
    BY <1>1, <2>1, <2>2
<1>4. IsFiniteSet(U) /\ MaxEvents \in Nat /\ \A e \in U : e.ts \in Nat
  <2>1. DiagnosisInv
    BY DEF LoopInv
  <2>2. IsFiniteSet(U) /\ MaxEvents \in Nat
    BY <1>1, <2>1, ChoiceFacts
  <2>3. \A e \in Eligible(n, lost) \cup cmd.memory : e.ts \in Nat
    BY <2>1, ChoiceFacts
  <2>4. Persisted(n, lost) \subseteq Eligible(n, lost)
    BY <2>1, ChoiceFacts
  <2>5. QED
    BY <1>1, <2>2, <2>3, <2>4
<1>5. log[k].ts >= log[i].ts
  <2>1. log[i].ts < log[k].ts /\ log[i].ts \in Nat /\ log[k].ts \in Nat
    BY RanFacts DEF LoopInv, OrderInv
  <2>2. QED
    BY <2>1
<1>6. log[k] \in Newest(U, MaxEvents)
  BY <1>2, <1>3, <1>4, <1>5, NewestUpward
<1>7. QED
  BY <1>1, <1>6 DEF Frozen

-----------------------------------------------------------------------------
(* The run of an execution *)

(* The parts of the definition of Run.                                      *)
Before(W, e) == {f \in Executed(W) : f.session = e.session /\ f.ts < e.ts}
Latest(S) == CHOOSE e \in S : \A f \in S : f.ts <= e.ts
RunStep(W, run, e) ==
  IF e.key = NoKey THEN 0
  ELSE IF Before(W, e) = {} THEN 1
  ELSE LET p == Latest(Before(W, e))
       IN  IF p.tool = e.tool /\ p.key = e.key THEN run[p] + 1 ELSE 1

LEMMA RunIs ==
  ASSUME NEW W
  PROVE  Run(W) = CHOOSE run : run = [e \in Executed(W) |-> RunStep(W, run, e)]
BY DEF Run, RunStep, Before, Latest

(* What the stamps of the executions of a window are like.                  *)
InOrder(W, b) ==
  /\ \A e \in Executed(W) : e.ts \in Nat /\ e.ts <= b
  /\ \A e, f \in Executed(W) : e.session = f.session /\ e.ts = f.ts => e = f

LEMMA LatestIs ==
  ASSUME NEW W, NEW b \in Nat, InOrder(W, b), NEW e \in Executed(W), Before(W, e) # {}
  PROVE  /\ Latest(Before(W, e)) \in Before(W, e)
         /\ \A f \in Before(W, e) : f.ts <= Latest(Before(W, e)).ts
<1>1. PICK S : S = Before(W, e)
  OBVIOUS
<1>2. S # {} /\ \A f \in S : f.ts \in Nat /\ f.ts <= b
  BY <1>1 DEF Before, InOrder
<1>3. \E f \in S : \A g \in S : g.ts <= f.ts
  BY <1>2, YoungestExists
<1>4. Latest(S) \in S /\ \A f \in S : f.ts <= Latest(S).ts
  BY <1>3 DEF Latest
<1>5. QED
  BY <1>1, <1>4

(* The runs of the executions before a time can be counted, for every time.  *)
CountedBefore(W, run, b) ==
  run = [e \in {x \in Executed(W) : x.ts < b} |-> RunStep(W, run, e)]

LEMMA CountOneMore ==
  ASSUME NEW W, NEW d \in Nat, InOrder(W, d), NEW b \in Nat, NEW g, CountedBefore(W, g, b)
  PROVE  \E r : CountedBefore(W, r, b + 1)
<1> DEFINE X(c) == {x \in Executed(W) : x.ts < c}
<1>1. PICK r : r = [e \in X(b + 1) |-> RunStep(W, g, e)]
  OBVIOUS
<1>2. g = [e \in X(b) |-> RunStep(W, g, e)]
  BY DEF CountedBefore
<1>3. \A e \in X(b) : e \in X(b + 1) /\ r[e] = g[e]
  BY <1>1, <1>2 DEF InOrder
<1>4. ASSUME NEW e \in X(b + 1)
      PROVE  RunStep(W, g, e) = RunStep(W, r, e)
  <2>1. CASE Before(W, e) = {}
    BY <2>1 DEF RunStep
  <2>2. CASE Before(W, e) # {}
    <3>1. PICK p : p = Latest(Before(W, e))
      OBVIOUS
    <3>2. p \in Before(W, e)
      BY <2>2, <3>1, LatestIs
    <3>3. p \in Executed(W) /\ p.ts < e.ts /\ e.ts < b + 1 /\ p.ts \in Nat /\ e.ts \in Nat
      BY <3>2 DEF Before, InOrder
    <3>4. p \in X(b)
      BY <3>3
    <3>5. r[p] = g[p]
      BY <1>3, <3>4
    <3>6. QED
      BY <3>1, <3>5 DEF RunStep
  <2>3. QED
    BY <2>1, <2>2
<1>5. r = [e \in X(b + 1) |-> RunStep(W, r, e)]
  BY <1>1, <1>4
<1>6. QED
  BY <1>5 DEF CountedBefore

LEMMA CountsExist ==
  ASSUME NEW W, NEW d \in Nat, InOrder(W, d), NEW b \in Nat
  PROVE  \E r : CountedBefore(W, r, b)
<1> DEFINE Bad == {c \in Nat : ~\E r : CountedBefore(W, r, c)}
<1>1. SUFFICES ASSUME Bad # {}
               PROVE  FALSE
  OBVIOUS
<1>2. PICK m \in Bad : \A c \in Bad : m <= c
  <2>1. Bad \subseteq Nat
    OBVIOUS
  <2> HIDE DEF Bad
  <2>2. QED
    BY <1>1, <2>1, LeastIsMember
<1>3. CASE m = 0
  <2>1. {x \in Executed(W) : x.ts < 0} = {}
    BY DEF InOrder
  <2>2. PICK r : r = [e \in {} |-> 0]
    OBVIOUS
  <2>3. r = [e \in {x \in Executed(W) : x.ts < 0} |-> RunStep(W, r, e)]
    BY <2>1, <2>2
  <2>4. CountedBefore(W, r, 0)
    BY <2>3 DEF CountedBefore
  <2>5. QED
    BY <1>3, <2>4
<1>4. CASE m # 0
  <2>1. m \in Nat /\ ~\E r : CountedBefore(W, r, m)
    OBVIOUS
  <2>2. PICK k \in Nat : m = k + 1
    <3>1. m - 1 \in Nat /\ m = (m - 1) + 1
      BY <1>4, <2>1
    <3>2. QED
      BY <3>1
  <2>3. k \notin Bad
    BY <1>2, <2>2
  <2>4. PICK g : CountedBefore(W, g, k)
    BY <2>3
  <2>5. \E r : CountedBefore(W, r, k + 1)
    BY <2>4, CountOneMore
  <2>6. QED
    BY <2>1, <2>2, <2>5
<1>5. QED
  BY <1>3, <1>4

(* Run counts as its definition says.                                       *)
LEMMA RunUnfolds ==
  ASSUME NEW W, NEW b \in Nat, InOrder(W, b)
  PROVE  Run(W) = [e \in Executed(W) |-> RunStep(W, Run(W), e)]
<1>1. PICK r : CountedBefore(W, r, b + 1)
  BY CountsExist
<1>2. {x \in Executed(W) : x.ts < b + 1} = Executed(W)
  BY DEF InOrder
<1>3. r = [e \in Executed(W) |-> RunStep(W, r, e)]
  BY <1>1, <1>2 DEF CountedBefore
<1>4. QED
  BY <1>3, RunIs

(* Executions of a session, alike and with none between them, that end in e. *)
Streak(W, e, D) ==
  /\ D \subseteq Executed(W) /\ e \in D
  /\ \A f \in D : /\ f.session = e.session /\ f.tool = e.tool /\ f.key = e.key
                  /\ f.ts <= e.ts
  /\ \A f \in D, g \in Executed(W) :
       g.session = e.session /\ f.ts <= g.ts /\ g.ts <= e.ts => g \in D

Counted(W, e) ==
  /\ Run(W)[e] \in Nat
  /\ e.key # NoKey => Run(W)[e] > 0
  /\ Run(W)[e] > 0 => \E D : Streak(W, e, D) /\ Cardinality(D) = Run(W)[e]

LEMMA StreakOfOne ==
  ASSUME NEW W, NEW b \in Nat, InOrder(W, b), NEW e \in Executed(W)
  PROVE  Streak(W, e, {e}) /\ Cardinality({e}) = 1
<1>1. Cardinality({e}) = 1
  BY FS_Singleton
<1>2. \A g \in Executed(W) : g.session = e.session /\ e.ts <= g.ts /\ g.ts <= e.ts => g = e
  BY DEF InOrder
<1>3. e.ts <= e.ts
  BY DEF InOrder
<1>4. QED
  BY <1>1, <1>2, <1>3 DEF Streak

LEMMA StreakOfOneMore ==
  ASSUME NEW W, IsFiniteSet(Executed(W)), NEW b \in Nat, InOrder(W, b), NEW e \in Executed(W),
         Before(W, e) # {}, NEW p, p = Latest(Before(W, e)), p.tool = e.tool, p.key = e.key,
         NEW C, Streak(W, p, C)
  PROVE  Streak(W, e, C \cup {e}) /\ Cardinality(C \cup {e}) = Cardinality(C) + 1
<1>1. p \in Before(W, e) /\ \A f \in Before(W, e) : f.ts <= p.ts
  BY LatestIs
<1>2. /\ p \in Executed(W) /\ p.session = e.session /\ p.ts < e.ts
      /\ \A f \in Executed(W) : f.ts \in Nat
      /\ \A f \in Executed(W) : f.session = e.session /\ f.ts < e.ts => f.ts <= p.ts
  BY <1>1 DEF Before, InOrder
<1>3. C \subseteq Executed(W) /\ \A f \in C : f.ts <= p.ts
  BY DEF Streak
<1>4. e \notin C
  BY <1>2, <1>3
<1>5. Cardinality(C \cup {e}) = Cardinality(C) + 1
  BY <1>3, <1>4, FS_Subset, FS_AddElement
<1>6. \A f \in C \cup {e} : f.session = e.session /\ f.tool = e.tool /\ f.key = e.key /\ f.ts <= e.ts
  <2>1. \A f \in C : f.session = p.session /\ f.tool = p.tool /\ f.key = p.key
    BY DEF Streak
  <2>2. \A f \in C : f.ts <= e.ts
    BY <1>2, <1>3
  <2>3. e.ts <= e.ts
    BY <1>2
  <2>4. QED
    BY <1>2, <2>1, <2>2, <2>3
<1>7. ASSUME NEW f \in C \cup {e}, NEW g \in Executed(W),
             g.session = e.session, f.ts <= g.ts, g.ts <= e.ts
      PROVE  g \in C \cup {e}
  <2>1. CASE g.ts = e.ts
    BY <1>7, <2>1 DEF InOrder
  <2>2. CASE g.ts # e.ts
    <3>1. g.ts < e.ts /\ g.ts <= p.ts
      BY <1>2, <1>7, <2>2
    <3>2. f \in C
      BY <1>2, <1>7, <3>1
    <3>3. QED
      BY <1>2, <1>7, <3>1, <3>2 DEF Streak
  <2>3. QED
    BY <2>1, <2>2
<1>8. QED
  BY <1>3, <1>5, <1>6, <1>7 DEF Streak

(* Run counts the end of a streak, and all of it.                           *)
LEMMA RunIsStreak ==
  ASSUME NEW W, IsFiniteSet(Executed(W)), NEW b \in Nat, InOrder(W, b)
  PROVE  \A e \in Executed(W) : Counted(W, e)
<1> DEFINE Bad == {e \in Executed(W) : ~Counted(W, e)}
<1> DEFINE Times == {e.ts : e \in Bad}
<1>1. SUFFICES ASSUME Bad # {}
               PROVE  FALSE
  OBVIOUS
<1>2. Times \subseteq Nat /\ Times # {}
  BY <1>1 DEF InOrder
<1>3. PICK e \in Bad : \A x \in Times : e.ts <= x
  <2>1. Min(Times) \in Times /\ \A x \in Times : Min(Times) <= x
    <3> HIDE DEF Times
    <3>1. QED
      BY <1>2, LeastIsMember
  <2>2. QED
    BY <2>1
<1>4. ASSUME NEW p \in Before(W, e)
      PROVE  Counted(W, p)
  <2>1. p \in Executed(W) /\ p.ts < e.ts /\ p.ts \in Nat /\ e.ts \in Nat
    BY DEF Before, InOrder
  <2>2. p \notin Bad
    BY <1>3, <2>1
  <2>3. QED
    BY <2>1, <2>2
<1>5. e \in Executed(W) /\ ~Counted(W, e)
  OBVIOUS
<1>6. Run(W)[e] = RunStep(W, Run(W), e)
  BY <1>5, RunUnfolds
<1> HIDE DEF Bad, Times
<1>7. CASE e.key = NoKey
  <2>1. Run(W)[e] = 0
    BY <1>6, <1>7 DEF RunStep
  <2>2. QED
    BY <1>5, <1>7, <2>1 DEF Counted
<1>8. CASE e.key # NoKey /\ Run(W)[e] = 1
  <2>1. Streak(W, e, {e}) /\ Cardinality({e}) = Run(W)[e]
    BY <1>5, <1>8, StreakOfOne
  <2>2. Run(W)[e] \in Nat /\ Run(W)[e] > 0
    BY <1>8
  <2>3. QED
    BY <1>5, <2>1, <2>2 DEF Counted
<1>9. CASE e.key # NoKey /\ Run(W)[e] # 1
  <2>1. PICK p : p = Latest(Before(W, e))
    OBVIOUS
  <2>2. Before(W, e) # {} /\ p.tool = e.tool /\ p.key = e.key /\ Run(W)[e] = Run(W)[p] + 1
    BY <1>6, <1>9, <2>1 DEF RunStep
  <2>3. Counted(W, p)
    BY <1>4, <1>5, <2>1, <2>2, LatestIs
  <2>4. Run(W)[p] \in Nat /\ Run(W)[p] > 0
    BY <1>9, <2>2, <2>3 DEF Counted
  <2>5. PICK C : Streak(W, p, C) /\ Cardinality(C) = Run(W)[p]
    BY <2>3, <2>4 DEF Counted
  <2>6. Streak(W, e, C \cup {e}) /\ Cardinality(C \cup {e}) = Cardinality(C) + 1
    BY <1>5, <2>1, <2>2, <2>5, StreakOfOneMore
  <2>7. Run(W)[e] \in Nat /\ Run(W)[e] > 0
    BY <2>2, <2>4
  <2>8. Cardinality(C \cup {e}) = Run(W)[e]
    BY <2>2, <2>5, <2>6
  <2>9. QED
    BY <1>5, <2>6, <2>7, <2>8 DEF Counted
<1>10. QED
  BY <1>7, <1>8, <1>9

(* When the rule fires, the window holds a long enough streak.              *)
LEMMA LoopHasStreak ==
  ASSUME NEW W, IsFiniteSet(Executed(W)), NEW b \in Nat, InOrder(W, b), ToolLoop(W)
  PROVE  \E e \in Executed(W) : /\ e.tool \notin Pollers
                                /\ \E D : Streak(W, e, D) /\ Cardinality(D) >= LoopStreak
<1> DEFINE Runs == {Run(W)[e] : e \in {x \in Executed(W) : x.tool \notin Pollers}}
<1>1. \A e \in Executed(W) : Counted(W, e)
  BY RunIsStreak
<1>2. PICK c \in Nat : c = Cardinality(Executed(W))
  BY FS_CardinalityType
<1>3. ASSUME NEW r \in {0} \cup Runs
      PROVE  r \in Nat /\ r <= c
  <2>1. CASE r = 0
    BY <1>2, <2>1
  <2>2. CASE r # 0
    <3>1. PICK e \in Executed(W) : r = Run(W)[e]
      BY <2>2
    <3>2. r \in Nat /\ r > 0
      BY <1>1, <2>2, <3>1 DEF Counted
    <3>3. PICK D : Streak(W, e, D) /\ Cardinality(D) = r
      BY <1>1, <3>1, <3>2 DEF Counted
    <3>4. D \subseteq Executed(W)
      BY <3>3 DEF Streak
    <3>5. QED
      BY <1>2, <3>2, <3>3, <3>4, FS_Subset
  <2>3. QED
    BY <2>1, <2>2
<1>4. Longest(W) = Max({0} \cup Runs)
  BY DEF Longest
<1>5. Longest(W) \in {0} \cup Runs
  <2>1. PICK R : R = {0} \cup Runs
    OBVIOUS
  <2>2. R # {} /\ \A r \in R : r \in Nat /\ r <= c
    BY <1>3, <2>1
  <2>3. PICK m \in R : \A r \in R : r <= m
    <3> DEFINE Below == {c - r : r \in R}
    <3>1. Below \subseteq Nat /\ Below # {}
      BY <1>2, <2>2
    <3>2. Min(Below) \in Below /\ \A a \in Below : Min(Below) <= a
      <4> HIDE DEF Below
      <4>1. QED
        BY <3>1, LeastIsMember
    <3>3. PICK m \in R : \A a \in Below : c - m <= a
      BY <3>2
    <3>4. \A r \in R : c - m <= c - r /\ r \in Nat /\ m \in Nat
      BY <2>2, <3>3
    <3>5. QED
      BY <1>2, <3>4
  <2>4. \A r \in R : m >= r
    BY <2>2, <2>3
  <2>5. Max(R) \in R
    BY <2>3, <2>4 DEF Max
  <2>6. QED
    BY <1>4, <2>1, <2>5
<1>6. Longest(W) >= LoopStreak /\ LoopStreak \in Nat /\ LoopStreak > 0
  BY ThresholdAssumption DEF ToolLoop
<1>7. Longest(W) \in Runs /\ Longest(W) > 0
  <2>1. Longest(W) \in Nat
    BY <1>3, <1>5
  <2>2. Longest(W) > 0
    BY <1>6, <2>1
  <2>3. QED
    BY <1>5, <2>2
<1>8. PICK e \in Executed(W) : e.tool \notin Pollers /\ Longest(W) = Run(W)[e]
  BY <1>7
<1>9. PICK D : Streak(W, e, D) /\ Cardinality(D) = Run(W)[e]
  BY <1>1, <1>7, <1>8 DEF Counted
<1>10. QED
  BY <1>6, <1>8, <1>9

LEMMA FiredLoop ==
  ASSUME NEW W, NEW t, Classify(W, t) = "tool_loop"
  PROVE  ToolLoop(W)
<1> DEFINE fires == Fires(W, t)
<1> DEFINE hits == {i \in DOMAIN Rules : fires[Rules[i]]}
<1>1. Classify(W, t) = IF hits = {} THEN "fallback" ELSE Rules[Min(hits)]
  BY DEF Classify
<1>2. fires["tool_loop"] = ToolLoop(W)
  BY DEF Fires
<1> HIDE DEF fires
<1>3. hits # {} /\ Rules[Min(hits)] = "tool_loop"
  BY <1>1
<1>4. Min(hits) \in hits
  <2>1. DOMAIN Rules \subseteq Nat
    BY DEF Rules
  <2>2. QED
    BY <1>3, <2>1, LeastIsMember
<1>5. QED
  BY <1>2, <1>3, <1>4

-----------------------------------------------------------------------------
(* What a report says *)

(* The executions of a window are executions of its sessions, in order.     *)
LEMMA WindowRan ==
  ASSUME LoopInv, cmd.pc = "frozen", NEW n \in 0..Len(log), NEW lost,
         NEW e \in Executed(Frozen(n, lost))
  PROVE  e.session \in Sessions /\ \E i \in Ran(e.session) : e = log[i]
<1>1. e \in Frozen(n, lost) /\ e.type = "tool.executed" /\ DiagnosisInv
  BY DEF Executed, OfType, LoopInv
<1>2. PICK i \in DOMAIN log : e = log[i]
  BY <1>1, WindowLogged
<1>3. Named(e) /\ Fits(e)
  BY <1>1, <1>2 DEF DiagnosisInv, LogInv
<1>4. e.call \in Calls /\ call[e.call].session = e.session /\ call[e.call].state = "finished"
  BY <1>1, <1>3 DEF Named, Fits, Tracked
<1>5. e.session \in Sessions
  BY <1>1, <1>4, CallTyped DEF DiagnosisInv
<1>6. i \in Ran(e.session)
  BY <1>1, <1>2 DEF Ran
<1>7. QED
  BY <1>2, <1>5, <1>6

LEMMA WindowInOrder ==
  ASSUME LoopInv, cmd.pc = "frozen", NEW n \in 0..Len(log), NEW lost
  PROVE  /\ IsFiniteSet(Executed(Frozen(n, lost)))
         /\ now \in Nat /\ InOrder(Frozen(n, lost), now)
<1>1. DiagnosisInv
  BY DEF LoopInv
<1>2. IsFiniteSet(Executed(Frozen(n, lost)))
  <2>1. Executed(Frozen(n, lost)) \subseteq Frozen(n, lost)
    BY DEF Executed, OfType
  <2>2. QED
    BY <1>1, <2>1, WindowFinite, FS_Subset
<1>3. now \in Nat
  BY <1>1 DEF DiagnosisInv, DiagnosisTypeOK
<1>4. ASSUME NEW e \in Executed(Frozen(n, lost))
      PROVE  e.ts \in Nat /\ e.ts <= now
  <2>1. PICK i \in Ran(e.session) : e = log[i]
    BY WindowRan
  <2>2. i \in DOMAIN log
    BY DEF Ran
  <2>3. QED
    BY <1>1, <2>1, <2>2, LoggedTyped DEF DiagnosisInv, LogInv
<1>5. ASSUME NEW e \in Executed(Frozen(n, lost)), NEW f \in Executed(Frozen(n, lost)),
             e.session = f.session, e.ts = f.ts
      PROVE  e = f
  <2>1. PICK s \in Sessions : s = e.session
    BY WindowRan
  <2>2. PICK i \in Ran(s), j \in Ran(s) : e = log[i] /\ f = log[j]
    BY <1>5, <2>1, WindowRan
  <2>3. i \in Nat /\ j \in Nat /\ 1 <= i /\ 1 <= j
    BY RanFacts
  <2>4. ~(i < j)
    <3>1. i < j => log[i].ts < log[j].ts
      BY <2>3 DEF LoopInv, OrderInv
    <3>2. QED
      BY <1>4, <1>5, <2>2, <3>1
  <2>5. ~(j < i)
    <3>1. j < i => log[j].ts < log[i].ts
      BY <2>3 DEF LoopInv, OrderInv
    <3>2. QED
      BY <1>4, <1>5, <2>2, <3>1
  <2>6. QED
    BY <2>2, <2>3, <2>4, <2>5
<1>6. QED
  BY <1>2, <1>3, <1>4, <1>5 DEF InOrder

(* An execution of a window was not missed.                                 *)
LEMMA FoundNotMissed ==
  ASSUME LoopInv, cmd.pc = "frozen", NEW n \in 0..Len(log), NEW lost,
         NEW s \in Sessions, NEW k \in Ran(s), log[k] \in Frozen(n, lost)
  PROVE  k \notin Missed(lost)
<1>1. DiagnosisInv
  BY DEF LoopInv
<1>2. log[k] \in cmd.memory \/ log[k] \in Persisted(n, lost)
  BY DEF Frozen, Newest
<1>3. log[k] \in Persisted(n, lost) => log[k] \in Eligible(n, lost)
  BY <1>1, ChoiceFacts
<1>4. log[k] \in Eligible(n, lost) => k \notin lost
  BY <1>1, RanFacts, ReadWhen
<1>5. QED
  BY <1>2, <1>3, <1>4 DEF Missed

(* A streak in the window is one in the log, but for what was missed.       *)
LEMMA StreakIsReal ==
  ASSUME LoopInv, cmd.pc = "frozen", NEW n \in 0..Len(log), NEW lost, flushed <= n, KeptUp,
         NEW e \in Executed(Frozen(n, lost)), NEW D, Streak(Frozen(n, lost), e, D), Cardinality(D) >= LoopStreak
  PROVE  \E s \in Sessions : \E i, j \in Ran(s) :
           /\ Cardinality((Ran(s) \cap i..j) \ Missed(lost)) >= LoopStreak
           /\ log[i].tool = e.tool
           /\ \A k \in (Ran(s) \cap i..j) \ Missed(lost) : log[k].tool = log[i].tool /\ log[k].key = log[i].key
<1>1. PICK s \in Sessions : s = e.session
  BY WindowRan
<1>2. PICK j \in Ran(s) : e = log[j]
  BY <1>1, WindowRan
<1>3. PICK S : S = {i \in Ran(s) : log[i] \in D}
  OBVIOUS
<1>4. /\ D \subseteq Executed(Frozen(n, lost)) /\ e \in D
      /\ \A f \in D : f.session = s /\ f.tool = e.tool /\ f.key = e.key /\ f.ts <= e.ts
      /\ \A f \in D, g \in Executed(Frozen(n, lost)) :
           g.session = s /\ f.ts <= g.ts /\ g.ts <= e.ts => g \in D
  BY <1>1 DEF Streak
<1>5. \A i \in Ran(s) : /\ i \in DOMAIN log /\ i \in Nat /\ 1 <= i
                        /\ log[i].type = "tool.executed" /\ log[i].session = s
                        /\ log[i].ts \in Nat
  BY RanFacts
<1>6. \A i, k \in Ran(s) : i < k => log[i].ts < log[k].ts
  BY <1>5 DEF LoopInv, OrderInv
<1>7. j \in S /\ S \subseteq Nat /\ S \subseteq Ran(s)
  BY <1>2, <1>3, <1>4, <1>5
<1>8. PICK i \in S : \A k \in S : i <= k
  BY <1>7, LeastIsMember
<1>9. PICK streak : streak = (Ran(s) \cap i..j) \ Missed(lost)
  OBVIOUS
<1>10. S \subseteq streak
  <2> SUFFICES ASSUME NEW k \in S
               PROVE  k <= j /\ k \notin Missed(lost)
    BY <1>5, <1>7, <1>8, <1>9
  <2>1. k \in Nat /\ j \in Nat /\ log[k].ts \in Nat /\ log[j].ts \in Nat /\ k \in Ran(s)
    BY <1>5, <1>7
  <2>2. log[k].ts <= log[j].ts
    BY <1>2, <1>3, <1>4
  <2>3. k <= j
    BY <1>6, <2>1, <2>2
  <2>4. log[k] \in Frozen(n, lost)
    BY <1>3, <1>4 DEF Executed, OfType
  <2>5. QED
    BY <2>1, <2>3, <2>4, FoundNotMissed
<1>11. IsFiniteSet(streak) /\ IsFiniteSet(S)
  <2>1. IsFiniteSet(i..j)
    BY <1>5, <1>7, FS_Interval
  <2>2. IsFiniteSet(streak)
    BY <1>9, <2>1, FS_Subset
  <2>3. QED
    BY <1>10, <2>2, FS_Subset
<1>12. Cardinality(D) <= Cardinality(S)
  <2>1. PICK g : g = [d \in D |-> CHOOSE k \in S : log[k] = d]
    OBVIOUS
  <2>2. ASSUME NEW d \in D
        PROVE  g[d] \in S /\ log[g[d]] = d
    <3>1. PICK k \in Ran(d.session) : d = log[k]
      BY <1>4, WindowRan
    <3>2. k \in S
      BY <1>3, <1>4, <3>1
    <3>3. QED
      BY <2>1, <3>1, <3>2
  <2>3. g \in [D -> S]
    BY <2>1, <2>2
  <2>4. g \in Injection(D, S)
    BY <2>2, <2>3 DEF Injection, IsInjective
  <2>5. QED
    BY <1>11, <2>4, FS_Injection
<1>13. Cardinality(streak) >= LoopStreak
  <2>1. Cardinality(S) <= Cardinality(streak) /\ Cardinality(S) \in Nat /\ Cardinality(streak) \in Nat
    BY <1>10, <1>11, FS_Subset, FS_CardinalityType
  <2>2. IsFiniteSet(D)
    BY <1>4, WindowInOrder, FS_Subset
  <2>3. Cardinality(D) \in Nat /\ LoopStreak \in Nat
    BY <2>2, FS_CardinalityType, ThresholdAssumption
  <2>4. QED
    BY <1>12, <2>1, <2>3
<1>14. ASSUME NEW k \in streak
       PROVE  log[k] \in D
  <2>1. k \in Ran(s) /\ i \in Ran(s) /\ i <= k /\ k <= j /\ k \notin Missed(lost)
    BY <1>7, <1>9
  <2>2. log[i] \in D /\ log[j] \in D
    BY <1>3, <1>7
  <2>3. CASE k = i \/ k = j
    BY <2>2, <2>3
  <2>4. CASE k # i /\ k # j
    <3>1. i < k /\ k < j
      BY <1>5, <2>1, <2>4
    <3>2. log[i] \in Frozen(n, lost) /\ log[j] \in Frozen(n, lost)
      BY <1>4, <2>2 DEF Executed, OfType
    <3>3. log[k] \in Frozen(n, lost)
      BY <2>1, <3>1, <3>2, NoHole
    <3>4. log[k] \in Executed(Frozen(n, lost)) /\ log[k].session = s
      BY <1>5, <2>1, <3>3 DEF Executed, OfType
    <3>5. log[i].ts <= log[k].ts /\ log[k].ts <= e.ts
      BY <1>2, <1>5, <1>6, <2>1, <3>1
    <3>6. QED
      BY <1>4, <2>2, <3>4, <3>5
  <2>5. QED
    BY <2>3, <2>4
<1>15. log[i] \in D /\ \A k \in streak : log[k].tool = e.tool /\ log[k].key = e.key
  BY <1>3, <1>4, <1>14
<1>16. log[i].tool = e.tool /\ log[i].key = e.key
  BY <1>4, <1>15
<1>17. /\ Cardinality((Ran(s) \cap i..j) \ Missed(lost)) >= LoopStreak
       /\ \A k \in (Ran(s) \cap i..j) \ Missed(lost) : log[k].tool = log[i].tool /\ log[k].key = log[i].key
  BY <1>9, <1>13, <1>15, <1>16
<1>18. i \in Ran(s) /\ j \in Ran(s)
  BY <1>7
<1>19. QED
  BY <1>16, <1>17, <1>18

(* A tool_loop is a loop: the agent of one session executed the same tool    *)
(* with the same arguments and result LoopStreak times with no execution     *)
(* between but what the reader missed, however the freeze and its caps cut   *)
(* the log (LoopIsReal).                                                    *)
THEOREM LoopsAreReal == Spec => LoopIsReal
<1>1. LoopInv /\ [Next]_vars
      => [Concludes /\ report'.rule = "tool_loop" /\ KeptUp
          => \E s \in Sessions : \E i, j \in Ran(s) :
               LET streak == (Ran(s) \cap i..j) \ report'.missed
               IN  /\ Cardinality(streak) >= LoopStreak
                   /\ log[i].tool \notin Pollers
                   /\ \A k \in streak : log[k].tool = log[i].tool /\ log[k].key = log[i].key]_vars
  <2> SUFFICES ASSUME LoopInv, [Next]_vars, Concludes, report'.rule = "tool_loop", KeptUp
               PROVE  \E s \in Sessions : \E i, j \in Ran(s) :
                        /\ Cardinality((Ran(s) \cap i..j) \ report'.missed) >= LoopStreak
                        /\ log[i].tool \notin Pollers
                        /\ \A k \in (Ran(s) \cap i..j) \ report'.missed :
                             log[k].tool = log[i].tool /\ log[k].key = log[i].key
    OBVIOUS
  <2>1. DiagnosisInv
    BY DEF LoopInv
  <2>0. PICK n \in 0..Len(log) : \E lost : WtfAnalyse(n, lost)
    BY <2>1, OnlyAnalyseConcludes
  <2>2. PICK lost : WtfAnalyse(n, lost)
    BY <2>0
  <2>3. /\ cmd.pc = "frozen" /\ flushed <= n
        /\ Classify(Frozen(n, lost), now) = "tool_loop" /\ report'.missed = Missed(lost)
    <3>1. /\ Classify(Frozen(n, lost), now) = "tool_loop" /\ cmd.pc = "frozen"
          /\ report'.missed = Missed(lost)
      BY <2>2, ReportedWindow
    <3>2. n \in flushed..Len(log)
      BY <2>2 DEF WtfAnalyse, Written
    <3>3. flushed \in Nat /\ Len(log) \in Nat
      BY <2>1 DEF DiagnosisInv, DiagnosisTypeOK
    <3>4. QED
      BY <3>1, <3>2, <3>3
  <2>4. ToolLoop(Frozen(n, lost))
    BY <2>3, FiredLoop
  <2>5. PICK e \in Executed(Frozen(n, lost)) :
          /\ e.tool \notin Pollers
          /\ \E D : Streak(Frozen(n, lost), e, D) /\ Cardinality(D) >= LoopStreak
    BY <2>3, <2>4, WindowInOrder, LoopHasStreak
  <2>6. PICK D : Streak(Frozen(n, lost), e, D) /\ Cardinality(D) >= LoopStreak
    BY <2>5
  <2>7. PICK s \in Sessions : \E i, j \in Ran(s) :
          /\ Cardinality((Ran(s) \cap i..j) \ Missed(lost)) >= LoopStreak
          /\ log[i].tool = e.tool
          /\ \A k \in (Ran(s) \cap i..j) \ Missed(lost) : log[k].tool = log[i].tool /\ log[k].key = log[i].key
    BY <2>3, <2>6, StreakIsReal
  <2>8. QED
    BY <2>3, <2>5, <2>7
<1>2. QED
  BY <1>1, LoopInductive, PTL DEF Spec, LoopIsReal

=============================================================================
