-------------------------- MODULE DiagnosisProofs ---------------------------
(* Theorems about Diagnosis, for every value of its constants. *)
EXTENDS Diagnosis, FiniteSetTheorems, SequenceTheorems, WellFoundedInduction, TLAPS

(* The inductive invariant. Requests and results of tool calls are tracked:  *)
(* each is recorded at most once.                                           *)
Tracked(e) == e.type \in {"tool.requested", "tool.executed"}

(* An event about a call names it as Hermes does.                           *)
Named(e) ==
  e.type \in {"tool.prepared", "tool.requested", "tool.executed"} =>
    e.call \in Calls /\ e.id = IdOf[e.call]

(* The call whose request or result an event is, at this moment.            *)
Fits(e) ==
  Tracked(e) =>
    /\ call[e.call].session = e.session
    /\ e.type = "tool.executed" => call[e.call].state = "finished"
    /\ e.type = "tool.requested" => call[e.call].state \notin {"none", "emitted"}

(* An event that waits to be recorded.                                      *)
Waits(s, e) ==
  /\ e.ts <= now
  /\ Named(e)
  /\ Fits(e)
  /\ Tracked(e) => e.session = s
  /\ e.type = "tool.requested" => call[e.call].state = "running"
  /\ \A i \in DOMAIN log :
       Tracked(e) /\ Tracked(log[i]) /\ log[i].call = e.call =>
         /\ log[i].type # e.type
         /\ e.type = "tool.executed" => log[i].ts < e.ts

HookInv ==
  \A s \in Sessions :
    /\ Len(hook[s].made) <= 1
    /\ hook[s].made # <<>> => Waits(s, hook[s].made[1])
    /\ \A i \in DOMAIN hook[s].todo :
         Named(hook[s].todo[i]) /\ ~Tracked(hook[s].todo[i])

LogInv ==
  /\ \A i \in DOMAIN log : log[i].ts <= now /\ Named(log[i]) /\ Fits(log[i])
  /\ \A i, j \in DOMAIN log :
       Tracked(log[i]) /\ log[i].type = log[j].type /\ log[i].call = log[j].call => i = j
  /\ \A i, j \in DOMAIN log :
       /\ log[i].type = "tool.requested"
       /\ log[j].type = "tool.executed"
       /\ log[i].call = log[j].call
       => i < j /\ log[i].ts < log[j].ts

(* What a freeze copied holds the result of each call it holds the request   *)
(* of, if that was recorded.                                                *)
FreezeInv ==
  cmd.pc = "frozen" =>
    /\ cmd.seen <= flushed
    /\ cmd.at <= now
    /\ \A e \in cmd.memory : \E i \in DOMAIN log : e = log[i]
    /\ \A i \in 1..cmd.seen : log[i].ts <= cmd.at
    /\ \A k \in DOMAIN log, i \in 1..cmd.seen :
         /\ log[k] \in cmd.memory
         /\ log[k].type = "tool.requested"
         /\ log[i].type = "tool.executed"
         /\ log[i].call = log[k].call
         => log[i] \in cmd.memory

DiagnosisInv == DiagnosisTypeOK /\ HookInv /\ LogInv /\ FreezeInv

-----------------------------------------------------------------------------
(* Types *)

CallType ==
  [state : {"none"}, session : {NoSession}]
    \cup [state : {"emitted", "running", "finished", "dropped"}, session : Sessions]

LEMMA EventTyped ==
  ASSUME NEW type \in Types, NEW s \in Sessions \cup {NoSession}
  PROVE  Event(type, s) \in Events
BY DEF Event, Events

LEMMA CallEventTyped ==
  ASSUME NEW type \in Types, NEW s \in Sessions, NEW c \in Calls
  PROVE  /\ CallEvent(type, c, s) \in Events
         /\ CallEvent(type, c, s).type = type
         /\ Named(CallEvent(type, c, s))
         /\ CallEvent(type, c, s).session = s
         /\ CallEvent(type, c, s).call = c
BY DEF CallEvent, Event, Events, Named

LEMMA StampTyped ==
  ASSUME NEW e \in Events, NEW t \in Nat
  PROVE  [e EXCEPT !.ts = t] \in Events
BY DEF Events

(* What a hook with these events does to the types. *)
LEMMA EnterTypeOK ==
  ASSUME DiagnosisTypeOK, NEW s \in Sessions, NEW events \in Seq(Events), events # <<>>,
         Build(s, events), call' \in [Calls -> CallType], others' \in Nat
  PROVE  DiagnosisTypeOK'
<1> DEFINE h == [made |-> <<[Head(events) EXCEPT !.ts = now + 1]>>, todo |-> Tail(events)]
<1>1. now' = now + 1 /\ now' \in Nat
  BY DEF Build, DiagnosisTypeOK
<1>2. Head(events) \in Events /\ Tail(events) \in Seq(Events)
  OBVIOUS
<1>3. h \in [made : Seq(Events), todo : Seq(Events)]
  BY <1>1, <1>2, StampTyped
<1>4. hook' = [hook EXCEPT ![s] = h]
  BY DEF Build
<1> HIDE DEF h
<1>5. hook' \in [Sessions -> [made : Seq(Events), todo : Seq(Events)]]
  BY <1>3, <1>4 DEF DiagnosisTypeOK
<1>6. UNCHANGED <<log, flushed, cmd, report>>
  BY DEF Build
<1>7. QED
  BY <1>1, <1>5, <1>6 DEF DiagnosisTypeOK, CallType

-----------------------------------------------------------------------------
(* Hooks *)

(* What becomes of the calls while session s calls a hook.                  *)
CallsMove(s) ==
  \A c \in Calls :
    /\ call[c].state # "none" => call'[c].session = call[c].session
    /\ call[c].state \notin {"none", "emitted"} => call'[c].state \notin {"none", "emitted"}
    /\ call[c].state = "finished" => call'[c].state = "finished"
    /\ call[c].state = "running" /\ call[c].session # s => call'[c].state = "running"

(* What the first event of a hook, e, may be.                               *)
Enters(s, e) ==
  /\ Named(e)
  /\ Tracked(e) =>
       /\ e.session = s
       /\ call'[e.call].session = s
       /\ e.type = "tool.requested" => call'[e.call].state = "running"
       /\ e.type = "tool.executed" => call'[e.call].state = "finished"
       /\ \A i \in DOMAIN log :
            Tracked(log[i]) /\ log[i].call = e.call => log[i].type # e.type

LEMMA FitsStill ==
  ASSUME DiagnosisTypeOK, NEW s, CallsMove(s), NEW e, Named(e), Fits(e)
  PROVE  Fits(e)'
<1>1. CASE Tracked(e)
  <2>1. e.call \in Calls /\ e.type \in {"tool.requested", "tool.executed"}
    BY <1>1 DEF Tracked, Named
  <2>2. QED
    BY <1>1, <2>1 DEF Fits, CallsMove, Tracked
<1>2. CASE ~Tracked(e)
  BY <1>2 DEF Fits, Tracked
<1>3. QED
  BY <1>1, <1>2

LEMMA LoggedTyped ==
  ASSUME DiagnosisTypeOK, NEW i \in DOMAIN log
  PROVE  log[i] \in Events /\ log[i].ts \in Nat
<1>1. log \in Seq(Events)
  BY DEF DiagnosisTypeOK
<1>2. log[i] \in Events
  BY <1>1
<1>3. QED
  BY <1>2 DEF Events

LEMMA WaitingTyped ==
  ASSUME DiagnosisTypeOK, NEW s \in Sessions, hook[s].made # <<>>
  PROVE  hook[s].made[1] \in Events /\ hook[s].made[1].ts \in Nat
<1>1. hook[s].made \in Seq(Events)
  BY DEF DiagnosisTypeOK
<1>2. hook[s].made[1] \in Events
  BY <1>1
<1>3. QED
  BY <1>2 DEF Events

LEMMA EnterInv ==
  ASSUME DiagnosisInv, NEW s \in Sessions, NEW events \in Seq(Events), events # <<>>,
         Build(s, events), CallsMove(s), Enters(s, events[1]),
         \A i \in 2..Len(events) : Named(events[i]) /\ ~Tracked(events[i])
  PROVE  HookInv' /\ LogInv' /\ FreezeInv'
<1>0. PICK e : e = [events[1] EXCEPT !.ts = now + 1]
  OBVIOUS
<1> DEFINE h == [made |-> <<e>>, todo |-> Tail(events)]
<1>1. now \in Nat /\ now' = now + 1
  BY DEF Build, DiagnosisInv, DiagnosisTypeOK
<1>2. events[1] \in Events /\ Head(events) = events[1]
  OBVIOUS
<1>3. /\ e.ts = now + 1 /\ e.type = events[1].type /\ e.call = events[1].call
      /\ e.id = events[1].id /\ e.session = events[1].session
  BY <1>0, <1>2 DEF Events
<1>4. UNCHANGED <<log, flushed, cmd, report>>
  BY DEF Build
<1>5. hook' = [hook EXCEPT ![s] = h]
  BY <1>0, <1>2 DEF Build
<1>6. \A i \in DOMAIN log : log[i] \in Events /\ log[i].ts \in Nat
  BY LoggedTyped DEF DiagnosisInv
<1>7. Waits(s, e)'
  <2>1. Named(e) /\ (Tracked(e) <=> Tracked(events[1]))
    BY <1>3 DEF Named, Tracked, Enters
  <2>2. Fits(e)'
    BY <1>3, <2>1 DEF Fits, Enters, Tracked
  <2>3. \A i \in DOMAIN log :
          Tracked(e) /\ Tracked(log[i]) /\ log[i].call = e.call =>
            log[i].type # e.type /\ log[i].ts < e.ts
    BY <1>1, <1>3, <1>6, <2>1 DEF Enters, DiagnosisInv, LogInv
  <2>4. e.ts <= now'
    BY <1>1, <1>3
  <2>5. e.type = "tool.requested" => call'[e.call].state = "running"
    BY <1>3 DEF Enters, Tracked
  <2>6. Tracked(e) => e.session = s
    BY <1>3, <2>1 DEF Enters
  <2>7. QED
    BY <1>4, <2>1, <2>2, <2>3, <2>4, <2>5, <2>6 DEF Waits, Named, Tracked
<1>8. \A t \in Sessions \ {s} : hook[t].made # <<>> => Waits(t, hook[t].made[1])'
  <2> SUFFICES ASSUME NEW t \in Sessions \ {s}, hook[t].made # <<>>
               PROVE  Waits(t, hook[t].made[1])'
    OBVIOUS
  <2>0. PICK f : f = hook[t].made[1]
    OBVIOUS
  <2>1. Waits(t, f)
    BY <2>0 DEF DiagnosisInv, HookInv
  <2>2. hook'[t] = hook[t]
    BY <1>5 DEF DiagnosisInv, DiagnosisTypeOK
  <2>3. f \in Events /\ f.ts \in Nat
    BY <2>0, WaitingTyped DEF DiagnosisInv
  <2>4. Fits(f)'
    BY <2>1, FitsStill DEF Waits, DiagnosisInv
  <2>5. f.type = "tool.requested" => call'[f.call].state = "running"
    BY <2>1 DEF Waits, Fits, Named, Tracked, CallsMove
  <2>6. f.ts <= now'
    BY <1>1, <2>1, <2>3 DEF Waits
  <2>7. Waits(t, f)'
    BY <1>4, <2>1, <2>4, <2>5, <2>6 DEF Waits, Named, Tracked
  <2>8. QED
    BY <2>0, <2>2, <2>7
<1>9. HookInv'
  <2>1. h.made[1] = e /\ Len(h.made) = 1
    OBVIOUS
  <2>2. \A i \in DOMAIN h.todo : Named(h.todo[i]) /\ ~Tracked(h.todo[i])
    <3>1. \A i \in 1..Len(Tail(events)) : Tail(events)[i] = events[i + 1] /\ i + 1 \in 2..Len(events)
      OBVIOUS
    <3>2. DOMAIN h.todo = 1..Len(Tail(events))
      OBVIOUS
    <3>3. QED
      BY <3>1, <3>2
  <2> HIDE DEF h
  <2>3. hook'[s] = h /\ \A t \in Sessions \ {s} : hook'[t] = hook[t]
    BY <1>5 DEF DiagnosisInv, DiagnosisTypeOK
  <2>4. ASSUME NEW t \in Sessions
        PROVE  /\ Len(hook'[t].made) <= 1
               /\ hook'[t].made # <<>> => Waits(t, hook[t].made[1])'
               /\ \A i \in DOMAIN hook'[t].todo :
                    Named(hook'[t].todo[i]) /\ ~Tracked(hook'[t].todo[i])
    <3>1. CASE t = s
      <4>1. hook'[t] = h /\ hook'[t].made[1] = e
        BY <2>1, <2>3, <3>1
      <4>2. Waits(t, hook[t].made[1])'
        BY <1>7, <3>1, <4>1
      <4>3. \A i \in DOMAIN hook'[t].todo :
              Named(hook'[t].todo[i]) /\ ~Tracked(hook'[t].todo[i])
        BY <2>2, <4>1, Zenon
      <4>4. Len(hook'[t].made) <= 1
        <5>1. Len(hook'[t].made) = 1
          BY <2>1, <4>1, Zenon
        <5>2. QED
          BY <5>1
      <4>5. QED
        BY <4>2, <4>3, <4>4
    <3>2. CASE t # s
      BY <1>8, <2>3, <3>2 DEF DiagnosisInv, HookInv
    <3>3. QED
      BY <3>1, <3>2
  <2>5. QED
    BY <2>4 DEF HookInv, Named, Tracked
<1>10. LogInv'
  <2>1. \A i \in DOMAIN log : log[i].ts <= now' /\ Named(log[i]) /\ Fits(log[i])'
    BY <1>1, <1>4, <1>6, FitsStill DEF DiagnosisInv, LogInv
  <2>2. QED
    BY <1>4, <2>1 DEF DiagnosisInv, LogInv, Named, Tracked
<1>11. FreezeInv'
  BY <1>1, <1>4 DEF DiagnosisInv, FreezeInv, DiagnosisTypeOK
<1>12. QED
  BY <1>9, <1>10, <1>11

(* A hook of one event that is not about a call. *)
LEMMA NoteInv ==
  ASSUME DiagnosisInv, NEW s \in Sessions, NEW e \in Events, Named(e), ~Tracked(e),
         Build(s, <<e>>), CallsMove(s), call' \in [Calls -> CallType], others' \in Nat
  PROVE  DiagnosisInv'
<1> DEFINE events == <<e>>
<1>1. events \in Seq(Events) /\ events # <<>> /\ events[1] = e /\ Len(events) = 1
  OBVIOUS
<1>2. Build(s, events)
  OBVIOUS
<1> HIDE DEF events
<1>3. DiagnosisTypeOK'
  BY <1>1, <1>2, EnterTypeOK DEF DiagnosisInv
<1>4. Enters(s, events[1])
  BY <1>1 DEF Enters
<1>5. HookInv' /\ LogInv' /\ FreezeInv'
  BY <1>1, <1>2, <1>4, EnterInv
<1>6. QED
  BY <1>3, <1>5 DEF DiagnosisInv

LEMMA OtherTyped == DiagnosisTypeOK /\ Other => others' \in Nat
BY DEF DiagnosisTypeOK, Other

LEMMA CallTyped ==
  ASSUME DiagnosisTypeOK, NEW c \in Calls
  PROVE  /\ call \in [Calls -> CallType]
         /\ call[c] \in CallType
         /\ call[c].state # "none" => call[c].session \in Sessions
<1>1. call \in [Calls -> CallType]
  BY DEF DiagnosisTypeOK, CallType
<1>2. call[c] \in CallType
  BY <1>1
<1>3. QED
  BY <1>1, <1>2 DEF CallType

LEMMA SameCallsMove == \A s : call' = call => CallsMove(s)
BY DEF CallsMove

LEMMA ErrorInv ==
  ASSUME DiagnosisInv, NEW s \in Sessions, NEW status \in Statuses, ApiRequestError(s, status)
  PROVE  DiagnosisInv'
<1> DEFINE e == [Event("api.error", s) EXCEPT !.status = status]
<1>1. e \in Events /\ e.type = "api.error"
  BY DEF Event, Events, Types
<1>2. Build(s, <<e>>) /\ call' = call /\ others' \in Nat
  BY OtherTyped DEF ApiRequestError, Enter, DiagnosisInv
<1> HIDE DEF e
<1>3. Named(e) /\ ~Tracked(e)
  BY <1>1 DEF Named, Tracked
<1>4. CallsMove(s) /\ call' \in [Calls -> CallType]
  BY <1>2, SameCallsMove DEF DiagnosisInv, DiagnosisTypeOK, CallType
<1>5. QED
  BY <1>1, <1>2, <1>3, <1>4, NoteInv

LEMMA OthersInv ==
  ASSUME DiagnosisInv, NEW s \in Sessions, Note(s)
  PROVE  DiagnosisInv'
<1> DEFINE e == Event("other", s)
<1>1. e \in Events /\ e.type = "other"
  BY DEF Event, Events, Types
<1>2. Build(s, <<e>>) /\ call' = call /\ others' \in Nat
  BY OtherTyped DEF Note, Enter, DiagnosisInv
<1> HIDE DEF e
<1>3. Named(e) /\ ~Tracked(e)
  BY <1>1 DEF Named, Tracked
<1>4. CallsMove(s) /\ call' \in [Calls -> CallType]
  BY <1>2, SameCallsMove DEF DiagnosisInv, DiagnosisTypeOK, CallType
<1>5. QED
  BY <1>1, <1>2, <1>3, <1>4, NoteInv

LEMMA StoppedInv ==
  ASSUME DiagnosisInv, NEW s \in Sessions, AgentLoopStopped(s)
  PROVE  DiagnosisInv'
<1> DEFINE e == Event("other", NoSession)
<1>1. e \in Events /\ e.type = "other"
  BY DEF Event, Events, Types
<1>2. Build(s, <<e>>) /\ others' \in Nat
  BY OtherTyped DEF AgentLoopStopped, Enter, DiagnosisInv
<1> HIDE DEF e
<1>3. Named(e) /\ ~Tracked(e)
  BY <1>1 DEF Named, Tracked
<1>4. ASSUME NEW c \in Calls
      PROVE  /\ call'[c] \in CallType
             /\ call[c].state # "none" => call'[c].session = call[c].session
             /\ call[c].state \notin {"none", "emitted"} => call'[c].state \notin {"none", "emitted"}
             /\ call[c].state = "finished" => call'[c].state = "finished"
             /\ call[c].state = "running" /\ call[c].session # s => call'[c].state = "running"
  <2>1. call[c] \in CallType
    BY CallTyped DEF DiagnosisInv
  <2>2. call'[c] = IF call[c].session = s /\ call[c].state \in {"emitted", "running"}
                   THEN [call[c] EXCEPT !.state = "dropped"] ELSE call[c]
    BY DEF AgentLoopStopped
  <2>3. CASE call[c].session = s /\ call[c].state \in {"emitted", "running"}
    BY <2>1, <2>2, <2>3 DEF CallType
  <2>4. CASE ~(call[c].session = s /\ call[c].state \in {"emitted", "running"})
    BY <2>1, <2>2, <2>4
  <2>5. QED
    BY <2>3, <2>4
<1>5. DOMAIN call' = Calls /\ call' = [c \in Calls |-> call'[c]]
  BY DEF AgentLoopStopped
<1>6. CallsMove(s) /\ call' \in [Calls -> CallType]
  BY <1>4, <1>5 DEF CallsMove
<1>7. QED
  BY <1>1, <1>2, <1>3, <1>6, NoteInv

LEMMA ConcatOne ==
  ASSUME NEW S, NEW q \in Seq(S), NEW e \in S, NEW n, n = Len(q), NEW r, r = q \o <<e>>
  PROVE  /\ r \in Seq(S) /\ Len(r) = n + 1 /\ r[n + 1] = e
         /\ \A i \in 1..n : r[i] = q[i]
<1>1. <<e>> \in Seq(S) /\ Len(<<e>>) = 1 /\ <<e>>[1] = e /\ n \in Nat
  OBVIOUS
<1>2. /\ r \in Seq(S) /\ Len(r) = n + 1
      /\ \A i \in 1..(n + 1) : r[i] = IF i <= n THEN q[i] ELSE <<e>>[i - n]
  BY <1>1, ConcatProperties
<1>3. QED
  BY <1>1, <1>2

(* The events of a response: the calls it carries, then the response.       *)
ResponseOf(s, q, wall) ==
  [i \in DOMAIN q |-> CallEvent("tool.prepared", q[i], s)]
    \o <<[Event("api.response", s) EXCEPT !.wall = wall]>>

LEMMA ResponseEvents ==
  ASSUME NEW s \in Sessions, NEW q \in Emissions, NEW wall \in Speeds, NEW events,
         events = ResponseOf(s, q, wall)
  PROVE  /\ events \in Seq(Events) /\ events # <<>>
         /\ \A i \in 1..Len(events) : Named(events[i]) /\ ~Tracked(events[i])
<1>1. PICK n \in Nat : q \in [1..n -> Calls]
  <2>1. PICK n \in 0..Cardinality(Calls) : q \in [1..n -> Calls]
    BY DEF Emissions
  <2>2. n \in Nat
    OBVIOUS
  <2>3. QED
    BY <2>1, <2>2
<1>2. PICK last : last = [Event("api.response", s) EXCEPT !.wall = wall]
  OBVIOUS
<1>3. last \in Events /\ last.type = "api.response"
  BY <1>2 DEF Event, Events, Types
<1>4. PICK calls : calls = [i \in 1..n |-> CallEvent("tool.prepared", q[i], s)]
  OBVIOUS
<1>5. \A i \in 1..n : /\ calls[i] \in Events /\ calls[i].type = "tool.prepared"
                       /\ Named(calls[i])
  BY <1>1, <1>4, CallEventTyped DEF Types
<1>6. calls \in Seq(Events) /\ Len(calls) = n
  <2>1. DOMAIN calls = 1..n /\ calls = [i \in 1..n |-> calls[i]]
    BY <1>4
  <2>2. calls \in [1..n -> Events]
    BY <1>5, <2>1
  <2>3. QED
    BY <2>2
<1>7. events = calls \o <<last>>
  BY <1>1, <1>2, <1>4 DEF ResponseOf
<1>8. /\ events \in Seq(Events) /\ Len(events) = n + 1 /\ events[n + 1] = last
       /\ \A i \in 1..n : events[i] = calls[i]
  BY <1>3, <1>6, <1>7, ConcatOne
<1>9. ASSUME NEW i \in 1..Len(events)
      PROVE  Named(events[i]) /\ ~Tracked(events[i])
  <2>1. CASE i \in 1..n
    <3>1. events[i].type = "tool.prepared" /\ Named(events[i])
      BY <1>5, <1>8, <2>1
    <3>2. QED
      BY <3>1 DEF Tracked
  <2>2. CASE i = n + 1
    <3>1. events[i] = last
      BY <1>8, <2>2
    <3>2. QED
      BY <1>3, <3>1 DEF Tracked, Named
  <2>3. QED
    BY <1>8, <2>1, <2>2
<1>10. events # <<>>
  BY <1>8
<1>11. QED
  BY <1>8, <1>9, <1>10

LEMMA ResponseInv ==
  ASSUME DiagnosisInv, NEW s \in Sessions, NEW q \in Emissions, NEW wall \in Speeds,
         PostApiRequest(s, q, wall)
  PROVE  DiagnosisInv'
<1>1. PICK events : events = ResponseOf(s, q, wall)
  OBVIOUS
<1>2. /\ events \in Seq(Events) /\ events # <<>>
      /\ \A i \in 1..Len(events) : Named(events[i]) /\ ~Tracked(events[i])
  BY <1>1, ResponseEvents
<1>3. Build(s, events) /\ others' \in Nat
  BY <1>1, OtherTyped DEF PostApiRequest, Enter, DiagnosisInv, ResponseOf
<1>4. \A c \in Range(q) : c \in Calls /\ call[c].state = "none"
  BY DEF PostApiRequest, Range, Emissions
<1>5. /\ call' = [c \in Calls |-> call'[c]]
      /\ \A c \in Calls :
           call'[c] = IF c \in Range(q) THEN [state |-> "emitted", session |-> s] ELSE call[c]
  BY DEF PostApiRequest
<1>6. \A c \in Calls : call[c] \in CallType
  BY CallTyped DEF DiagnosisInv
<1>7. \A c \in Calls : call'[c] \in CallType /\ (call[c].state # "none" => call'[c] = call[c])
  BY <1>4, <1>5, <1>6 DEF CallType
<1>8. CallsMove(s) /\ call' \in [Calls -> CallType]
  BY <1>5, <1>7 DEF CallsMove
<1>9. DiagnosisTypeOK'
  BY <1>2, <1>3, <1>8, EnterTypeOK DEF DiagnosisInv
<1>10. 1 \in 1..Len(events) /\ 2..Len(events) \subseteq 1..Len(events)
  BY <1>2
<1>11. Enters(s, events[1])
  BY <1>2, <1>10 DEF Enters
<1>12. HookInv' /\ LogInv' /\ FreezeInv'
  BY <1>2, <1>3, <1>8, <1>10, <1>11, EnterInv
<1>13. QED
  BY <1>9, <1>12 DEF DiagnosisInv

(* Requests and results. *)
LEMMA ToolCallInv ==
  ASSUME DiagnosisInv, NEW s \in Sessions, NEW events \in Seq(Events), events # <<>>,
         Build(s, events), CallsMove(s), call' \in [Calls -> CallType], others' = others,
         Enters(s, events[1]),
         \A i \in 2..Len(events) : Named(events[i]) /\ ~Tracked(events[i])
  PROVE  DiagnosisInv'
<1>1. others' \in Nat
  BY DEF DiagnosisInv, DiagnosisTypeOK
<1>2. QED
  BY <1>1, EnterTypeOK, EnterInv DEF DiagnosisInv

LEMMA RequestInv ==
  ASSUME DiagnosisInv, NEW c \in Calls, PreToolCall(c)
  PROVE  DiagnosisInv'
<1>1. PICK s : s = call[c].session
  OBVIOUS
<1>2. s \in Sessions /\ call[c].state = "emitted" /\ call[c] \in CallType
  BY <1>1, CallTyped DEF PreToolCall, DiagnosisInv
<1>3. PICK e : e = CallEvent("tool.requested", c, s)
  OBVIOUS
<1>4. e \in Events /\ e.type = "tool.requested" /\ Named(e) /\ e.session = s /\ e.call = c
  BY <1>2, <1>3, CallEventTyped DEF Types
<1>5. PICK events : events = <<e>>
  OBVIOUS
<1>6. Build(s, events) /\ others' = others
  BY <1>1, <1>3, <1>5 DEF PreToolCall, Enter
<1>7. events \in Seq(Events) /\ events # <<>> /\ events[1] = e /\ Len(events) = 1
  BY <1>4, <1>5
<1>8. call' = [call EXCEPT ![c].state = "running"]
  BY DEF PreToolCall
<1>9. call \in [Calls -> CallType]
  BY CallTyped DEF DiagnosisInv
<1>10. /\ call'[c].state = "running" /\ call'[c].session = s
       /\ call'[c] \in CallType
       /\ \A d \in Calls \ {c} : call'[d] = call[d]
       /\ DOMAIN call' = Calls
  BY <1>1, <1>2, <1>8, <1>9 DEF CallType
<1>11. call' \in [Calls -> CallType]
  BY <1>8, <1>9, <1>10
<1>12. CallsMove(s)
  BY <1>1, <1>2, <1>10 DEF CallsMove
<1>13. \A i \in DOMAIN log : Tracked(log[i]) => log[i].call # c
  BY <1>2 DEF DiagnosisInv, LogInv, Fits, Tracked
<1>14. Enters(s, events[1])
  BY <1>4, <1>7, <1>10, <1>13 DEF Enters, Tracked
<1>15. QED
  BY <1>2, <1>6, <1>7, <1>11, <1>12, <1>14, ToolCallInv

LEMMA ResultInv ==
  ASSUME DiagnosisInv, NEW c \in Calls, NEW key \in Keys, PostToolCall(c, key)
  PROVE  DiagnosisInv'
<1>1. PICK s : s = call[c].session
  OBVIOUS
<1>2. s \in Sessions /\ call[c].state = "running" /\ call[c] \in CallType
  BY <1>1, CallTyped DEF PostToolCall, DiagnosisInv
<1>3. PICK type \in {"tool.failed", "tool.completed"} :
        type = IF key \in Fails THEN "tool.failed" ELSE "tool.completed"
  OBVIOUS
<1>4. PICK e, f : /\ e = [CallEvent("tool.executed", c, s) EXCEPT !.key = key]
                  /\ f = [CallEvent(type, c, s) EXCEPT !.key = key]
  OBVIOUS
<1>5. /\ e \in Events /\ e.type = "tool.executed" /\ Named(e) /\ e.session = s /\ e.call = c
      /\ f \in Events /\ f.type = type
  BY <1>2, <1>4 DEF CallEvent, Event, Events, Types, Named
<1>6. PICK events : events = <<e, f>>
  OBVIOUS
<1>7. Build(s, events) /\ others' = others
  BY <1>1, <1>3, <1>4, <1>6 DEF PostToolCall, Enter
<1>8. /\ events \in Seq(Events) /\ events # <<>> /\ events[1] = e /\ Len(events) = 2
      /\ events[2] = f
  BY <1>5, <1>6
<1>9. call' = [call EXCEPT ![c].state = "finished"]
  BY DEF PostToolCall
<1>10. call \in [Calls -> CallType]
  BY CallTyped DEF DiagnosisInv
<1>11. /\ call'[c].state = "finished" /\ call'[c].session = s
       /\ call'[c] \in CallType
       /\ \A d \in Calls \ {c} : call'[d] = call[d]
       /\ DOMAIN call' = Calls
  BY <1>1, <1>2, <1>9, <1>10 DEF CallType
<1>12. call' \in [Calls -> CallType]
  BY <1>9, <1>10, <1>11
<1>13. CallsMove(s)
  BY <1>1, <1>2, <1>11 DEF CallsMove
<1>14. \A i \in DOMAIN log : Tracked(log[i]) /\ log[i].call = c => log[i].type # "tool.executed"
  BY <1>2 DEF DiagnosisInv, LogInv, Fits
<1>15. Enters(s, events[1])
  BY <1>5, <1>8, <1>11, <1>14 DEF Enters, Tracked
<1>16. \A i \in 2..Len(events) : Named(events[i]) /\ ~Tracked(events[i])
  <2>1. Named(f) /\ ~Tracked(f)
    BY <1>3, <1>5 DEF Named, Tracked
  <2>2. QED
    BY <1>8, <2>1
<1>17. QED
  BY <1>2, <1>7, <1>8, <1>12, <1>13, <1>15, <1>16, ToolCallInv

LEMMA StampInv ==
  ASSUME DiagnosisInv, NEW s \in Sessions, Stamp(s)
  PROVE  DiagnosisInv'
<1>1. PICK events : events = hook[s].todo
  OBVIOUS
<1>2. events \in Seq(Events) /\ events # <<>>
  BY <1>1 DEF Stamp, DiagnosisInv, DiagnosisTypeOK
<1>3. Build(s, events) /\ call' = call /\ others' = others
  BY <1>1 DEF Stamp
<1>4. CallsMove(s) /\ call' \in [Calls -> CallType]
  BY <1>3, SameCallsMove DEF DiagnosisInv, DiagnosisTypeOK, CallType
<1>5. \A i \in 1..Len(events) : Named(events[i]) /\ ~Tracked(events[i])
  BY <1>1, <1>2 DEF DiagnosisInv, HookInv
<1>6. 1 \in 1..Len(events) /\ 2..Len(events) \subseteq 1..Len(events)
  BY <1>2
<1>7. Enters(s, events[1])
  BY <1>5, <1>6 DEF Enters
<1>8. QED
  BY <1>2, <1>3, <1>4, <1>5, <1>6, <1>7, ToolCallInv

-----------------------------------------------------------------------------
(* The recorder and the command *)

LEMMA RecordInv ==
  ASSUME DiagnosisInv, NEW s \in Sessions, Record(s)
  PROVE  DiagnosisInv'
<1>1. PICK e : e = hook[s].made[1]
  OBVIOUS
<1>2. /\ hook[s].made # <<>> /\ e \in Events /\ e.ts \in Nat /\ Waits(s, e)
      /\ now \in Nat
  BY <1>1, WaitingTyped DEF Record, DiagnosisInv, HookInv, DiagnosisTypeOK
<1>3. log' = Append(log, e) /\ hook' = [hook EXCEPT ![s].made = <<>>]
  BY <1>1 DEF Record
<1>4. UNCHANGED <<now, flushed, call, others, cmd, report>>
  BY DEF Record
<1>5. PICK n \in Nat : n = Len(log)
  BY DEF DiagnosisInv, DiagnosisTypeOK
<1>6. /\ log \in Seq(Events) /\ log' \in Seq(Events)
      /\ DOMAIN log = 1..n /\ DOMAIN log' = 1..(n + 1) /\ Len(log') = n + 1
      /\ log'[n + 1] = e
      /\ \A i \in 1..n : log'[i] = log[i]
  BY <1>2, <1>3, <1>5 DEF DiagnosisInv, DiagnosisTypeOK
<1>7. /\ hook'[s].made = <<>> /\ hook'[s].todo = hook[s].todo
      /\ \A t \in Sessions \ {s} : hook'[t] = hook[t]
      /\ hook' \in [Sessions -> [made : Seq(Events), todo : Seq(Events)]]
  <2>1. hook \in [Sessions -> [made : Seq(Events), todo : Seq(Events)]]
    BY DEF DiagnosisInv, DiagnosisTypeOK
  <2>2. PICK h : h = [hook[s] EXCEPT !.made = <<>>]
    OBVIOUS
  <2>3. /\ h \in [made : Seq(Events), todo : Seq(Events)]
        /\ h.made = <<>> /\ h.todo = hook[s].todo
    <3>1. hook[s] \in [made : Seq(Events), todo : Seq(Events)] /\ <<>> \in Seq(Events)
      BY <2>1
    <3>2. QED
      BY <2>2, <3>1
  <2>4. hook' = [hook EXCEPT ![s] = h]
    BY <1>3, <2>2
  <2>5. QED
    BY <2>1, <2>3, <2>4
<1>8. DiagnosisTypeOK'
  BY <1>4, <1>5, <1>6, <1>7 DEF DiagnosisInv, DiagnosisTypeOK
<1>9. \A i \in 1..n : log[i] \in Events /\ log[i].ts \in Nat
  BY <1>6, LoggedTyped DEF DiagnosisInv
<1>10. LogInv'
  <2>1. \A i \in 1..(n + 1) : log'[i].ts <= now /\ Named(log'[i]) /\ Fits(log'[i])
    <3>1. \A i \in 1..n : log[i].ts <= now /\ Named(log[i]) /\ Fits(log[i])
      BY <1>6 DEF DiagnosisInv, LogInv
    <3>2. e.ts <= now /\ Named(e) /\ Fits(e)
      BY <1>2 DEF Waits
    <3>3. QED
      BY <1>5, <1>6, <3>1, <3>2
  <2>2. \A i \in DOMAIN log' : log'[i].ts <= now' /\ Named(log'[i]) /\ Fits(log[i])'
    BY <1>4, <1>6, <2>1 DEF Fits, Tracked
  <2>3. \A i \in 1..n : Tracked(e) /\ Tracked(log[i]) /\ log[i].call = e.call =>
          log[i].type # e.type /\ (e.type = "tool.executed" => log[i].ts < e.ts)
    BY <1>2, <1>6 DEF Waits
  <2>4. \A i \in 1..n : e.type = "tool.requested" /\ log[i].type = "tool.executed" =>
          log[i].call # e.call
    BY <1>2, <1>6 DEF Waits, DiagnosisInv, LogInv, Fits, Tracked
  <2>5. \A i, j \in 1..(n + 1) :
          Tracked(log'[i]) /\ log'[i].type = log'[j].type /\ log'[i].call = log'[j].call => i = j
    <3>1. \A i, j \in 1..n :
            Tracked(log[i]) /\ log[i].type = log[j].type /\ log[i].call = log[j].call => i = j
      BY <1>6 DEF DiagnosisInv, LogInv
    <3>2. \A i \in 1..n : Tracked(e) /\ log[i].type = e.type => log[i].call # e.call
      BY <2>3 DEF Tracked
    <3>3. QED
      BY <1>5, <1>6, <3>1, <3>2 DEF Tracked
  <2>6. \A i, j \in 1..(n + 1) :
          log'[i].type = "tool.requested" /\ log'[j].type = "tool.executed"
            /\ log'[i].call = log'[j].call
          => i < j /\ log'[i].ts < log'[j].ts
    <3>1. \A i, j \in 1..n :
            log[i].type = "tool.requested" /\ log[j].type = "tool.executed"
              /\ log[i].call = log[j].call
            => i < j /\ log[i].ts < log[j].ts
      BY <1>6 DEF DiagnosisInv, LogInv
    <3>2. \A i \in 1..n : log[i].type = "tool.requested" /\ e.type = "tool.executed"
                             /\ log[i].call = e.call => log[i].ts < e.ts
      BY <2>3 DEF Tracked
    <3>3. QED
      BY <1>5, <1>6, <2>4, <3>1, <3>2
  <2>7. QED
    BY <1>6, <2>2, <2>5, <2>6 DEF LogInv, Tracked, Named
<1>11. HookInv'
  <2> SUFFICES ASSUME NEW t \in Sessions
               PROVE  /\ Len(hook'[t].made) <= 1
                      /\ hook'[t].made # <<>> => Waits(t, hook[t].made[1])'
                      /\ \A i \in DOMAIN hook'[t].todo :
                           Named(hook'[t].todo[i]) /\ ~Tracked(hook'[t].todo[i])
    BY DEF HookInv, Named, Tracked
  <2>1. CASE t = s
    BY <1>7, <2>1 DEF DiagnosisInv, HookInv
  <2>2. CASE t # s
    <3>1. hook'[t] = hook[t]
      BY <1>7, <2>2
    <3>2. ASSUME hook[t].made # <<>>
          PROVE  Waits(t, hook[t].made[1])'
      <4>1. PICK f : f = hook[t].made[1]
        OBVIOUS
      <4>2. Waits(t, f)
        BY <3>2, <4>1 DEF DiagnosisInv, HookInv
      <4>3. Tracked(e) /\ Tracked(f) => e.call # f.call
        BY <1>2, <2>2, <4>2 DEF Waits, Fits, Tracked
      <4>4. \A i \in 1..(n + 1) :
              Tracked(f) /\ Tracked(log'[i]) /\ log'[i].call = f.call =>
                log'[i].type # f.type /\ (f.type = "tool.executed" => log'[i].ts < f.ts)
        <5>1. \A i \in 1..n :
                Tracked(f) /\ Tracked(log[i]) /\ log[i].call = f.call =>
                  log[i].type # f.type /\ (f.type = "tool.executed" => log[i].ts < f.ts)
          BY <1>6, <4>2 DEF Waits
        <5>2. QED
          BY <1>5, <1>6, <4>3, <5>1
      <4>5. Waits(t, f)'
        BY <1>4, <1>6, <4>2, <4>4 DEF Waits, Named, Fits, Tracked
      <4>6. QED
        BY <3>1, <4>1, <4>5
    <3>3. QED
      BY <3>1, <3>2 DEF DiagnosisInv, HookInv
  <2>3. QED
    BY <2>1, <2>2
<1>12. FreezeInv'
  <2> SUFFICES ASSUME cmd.pc = "frozen"
               PROVE  /\ cmd.seen <= flushed
                      /\ cmd.at <= now
                      /\ \A f \in cmd.memory : \E i \in DOMAIN log' : f = log'[i]
                      /\ \A i \in 1..cmd.seen : log'[i].ts <= cmd.at
                      /\ \A k \in DOMAIN log', i \in 1..cmd.seen :
                           log'[k] \in cmd.memory /\ log'[k].type = "tool.requested"
                             /\ log'[i].type = "tool.executed" /\ log'[i].call = log'[k].call
                           => log'[i] \in cmd.memory
    BY <1>4 DEF FreezeInv
  <2>1. cmd.seen \in 0..n /\ 1..cmd.seen \subseteq 1..n
    BY <1>5 DEF DiagnosisInv, DiagnosisTypeOK
  <2>2. \A i \in 1..cmd.seen : log'[i] = log[i] /\ log[i].ts <= cmd.at
    BY <1>6, <2>1 DEF DiagnosisInv, FreezeInv
  <2>3. \A i \in 1..cmd.seen : ~(e.type = "tool.requested" /\ log[i].type = "tool.executed"
                                     /\ log[i].call = e.call)
    BY <1>2, <1>6, <2>1 DEF Waits, DiagnosisInv, LogInv, Fits, Tracked
  <2>4. ASSUME NEW k \in 1..(n + 1), NEW i \in 1..cmd.seen,
               log'[k] \in cmd.memory, log'[k].type = "tool.requested",
               log'[i].type = "tool.executed", log'[i].call = log'[k].call
        PROVE  log'[i] \in cmd.memory
    <3>1. k \in 1..n
      BY <1>5, <1>6, <2>2, <2>3, <2>4
    <3>2. log'[k] = log[k] /\ log'[i] = log[i]
      BY <1>6, <2>2, <3>1
    <3>3. QED
      BY <1>6, <2>4, <3>1, <3>2 DEF DiagnosisInv, FreezeInv
  <2>5. QED
    BY <1>5, <1>6, <2>2, <2>4 DEF DiagnosisInv, FreezeInv
<1>13. QED
  BY <1>8, <1>10, <1>11, <1>12 DEF DiagnosisInv

(* A row that goes astray is no longer waited for; nothing else changes.     *)
LEMMA AstrayInv ==
  ASSUME DiagnosisInv, NEW s \in Sessions, RecordAstray(s)
  PROVE  DiagnosisInv'
<1>1. UNCHANGED <<now, log, flushed, call, cmd, report>> /\ others' \in Nat
  BY OtherTyped DEF RecordAstray, DiagnosisInv
<1>2. /\ hook'[s].made = <<>> /\ hook'[s].todo = hook[s].todo
      /\ \A t \in Sessions \ {s} : hook'[t] = hook[t]
      /\ hook' \in [Sessions -> [made : Seq(Events), todo : Seq(Events)]]
  <2>1. hook \in [Sessions -> [made : Seq(Events), todo : Seq(Events)]]
    BY DEF DiagnosisInv, DiagnosisTypeOK
  <2>2. PICK h : h = [hook[s] EXCEPT !.made = <<>>]
    OBVIOUS
  <2>3. /\ h \in [made : Seq(Events), todo : Seq(Events)]
        /\ h.made = <<>> /\ h.todo = hook[s].todo
    <3>1. hook[s] \in [made : Seq(Events), todo : Seq(Events)] /\ <<>> \in Seq(Events)
      BY <2>1
    <3>2. QED
      BY <2>2, <3>1
  <2>4. hook' = [hook EXCEPT ![s] = h]
    BY <2>2 DEF RecordAstray
  <2>5. QED
    BY <2>1, <2>3, <2>4
<1>3. DiagnosisTypeOK'
  BY <1>1, <1>2 DEF DiagnosisInv, DiagnosisTypeOK
<1>4. LogInv' /\ FreezeInv'
  BY <1>1 DEF DiagnosisInv, LogInv, FreezeInv, Named, Fits, Tracked
<1>5. HookInv'
  <2> SUFFICES ASSUME NEW t \in Sessions
               PROVE  /\ Len(hook'[t].made) <= 1
                      /\ hook'[t].made # <<>> => Waits(t, hook[t].made[1])'
                      /\ \A i \in DOMAIN hook'[t].todo :
                           Named(hook'[t].todo[i]) /\ ~Tracked(hook'[t].todo[i])
    BY DEF HookInv, Named, Tracked
  <2>1. CASE t = s
    BY <1>2, <2>1 DEF DiagnosisInv, HookInv
  <2>2. CASE t # s
    <3>1. hook'[t] = hook[t]
      BY <1>2, <2>2
    <3>2. hook[t].made # <<>> => Waits(t, hook[t].made[1])'
      BY <1>1, <3>1 DEF DiagnosisInv, HookInv, Waits, Named, Fits, Tracked
    <3>3. QED
      BY <3>1, <3>2 DEF DiagnosisInv, HookInv
  <2>3. QED
    BY <2>1, <2>2
<1>6. QED
  BY <1>3, <1>4, <1>5 DEF DiagnosisInv

LEMMA TickInv == DiagnosisInv /\ Tick => DiagnosisInv'
<1> SUFFICES ASSUME DiagnosisInv, Tick
             PROVE  DiagnosisInv'
  OBVIOUS
<1>1. UNCHANGED <<log, flushed, hook, call, cmd, report>>
  BY DEF Tick
<1>2. now' \in Nat /\ now <= now' /\ now \in Nat /\ others' \in Nat
  <2>1. HangSeconds \in Nat
    BY ThresholdAssumption
  <2>2. now' = now + HangSeconds /\ Other
    BY DEF Tick
  <2>3. now \in Nat
    BY DEF DiagnosisInv, DiagnosisTypeOK
  <2>4. others' \in Nat
    BY <2>2, OtherTyped DEF DiagnosisInv
  <2>5. QED
    BY <2>1, <2>2, <2>3, <2>4
<1>3. DiagnosisTypeOK'
  BY <1>1, <1>2 DEF DiagnosisInv, DiagnosisTypeOK
<1>4. LogInv'
  <2>1. \A i \in DOMAIN log : log[i].ts <= now'
    BY <1>2, LoggedTyped DEF DiagnosisInv, LogInv
  <2>2. QED
    BY <1>1, <2>1 DEF DiagnosisInv, LogInv, Named, Fits, Tracked
<1>5. HookInv'
  <2>1. \A s \in Sessions : hook[s].made # <<>> => hook[s].made[1].ts <= now'
    BY <1>2, WaitingTyped DEF DiagnosisInv, HookInv, Waits
  <2>2. QED
    BY <1>1, <2>1 DEF DiagnosisInv, HookInv, Waits, Named, Fits, Tracked
<1>6. FreezeInv'
  BY <1>1, <1>2 DEF DiagnosisInv, FreezeInv, DiagnosisTypeOK
<1>7. QED
  BY <1>3, <1>4, <1>5, <1>6 DEF DiagnosisInv

(* Hooks, rows and calls are as they were, whatever a command does.         *)
LEMMA ReaderInv ==
  ASSUME DiagnosisInv, UNCHANGED <<now, log, hook, call, others>>
  PROVE  HookInv' /\ LogInv'
BY DEF DiagnosisInv, HookInv, LogInv, Waits, Named, Fits, Tracked

LEMMA FreezeStepInv ==
  ASSUME DiagnosisInv, NEW gateway \in BOOLEAN, NEW scope \in Sessions \cup {All},
         NEW n \in 0..Len(log), WtfFreeze(gateway, scope, n)
  PROVE  DiagnosisInv'
<1>1. UNCHANGED <<now, log, hook, call, others, report>> /\ flushed' = n
  BY DEF WtfFreeze, Written
<1>2. PICK memory : memory = {e \in Memory : gateway /\ e.ts >= now - Since /\ InScope(e, scope)}
  OBVIOUS
<1>3. cmd' = [pc |-> "frozen", scope |-> scope, seen |-> n, at |-> now, memory |-> memory]
  BY <1>2 DEF WtfFreeze
<1>4. PICK length \in Nat : length = Len(log) /\ DOMAIN log = 1..length
  BY DEF DiagnosisInv, DiagnosisTypeOK
<1>5. \A e \in memory : \E i \in DOMAIN log : e = log[i]
  BY <1>2 DEF Memory
<1>6. \A i \in DOMAIN log : log[i] \in Events
  BY LoggedTyped DEF DiagnosisInv
<1>7. memory \subseteq Events
  BY <1>5, <1>6
<1>8. DiagnosisTypeOK'
  BY <1>1, <1>3, <1>7 DEF DiagnosisInv, DiagnosisTypeOK
<1>9. ASSUME NEW k \in DOMAIN log, NEW i \in 1..n,
             log[k] \in memory, log[k].type = "tool.requested",
             log[i].type = "tool.executed", log[i].call = log[k].call
      PROVE  log[i] \in memory
  <2>1. i \in DOMAIN log
    BY <1>4
  <2>2. PICK j \in DOMAIN log : log[j] = log[k] /\ \E h \in 1..j : Kept(h)
    BY <1>2, <1>9 DEF Memory
  <2>3. j = k
    BY <1>9, <2>2 DEF DiagnosisInv, LogInv, Tracked
  <2>4. k < i /\ log[k].ts < log[i].ts
    BY <1>9, <2>1 DEF DiagnosisInv, LogInv
  <2>5. \E h \in 1..i : Kept(h)
    BY <1>4, <2>1, <2>2, <2>3, <2>4
  <2>6. log[i] \in Memory
    BY <2>1, <2>5 DEF Memory
  <2>7. log[i].session = log[k].session
    BY <1>9, <2>1 DEF DiagnosisInv, LogInv, Fits, Tracked
  <2>8. log[i].ts \in Nat /\ log[k].ts \in Nat /\ now \in Nat /\ Since \in Nat
    BY <2>1, LoggedTyped, BoundAssumption DEF DiagnosisInv, DiagnosisTypeOK
  <2>9. gateway /\ log[k].ts >= now - Since /\ InScope(log[k], scope)
    BY <1>2, <1>9
  <2>10. log[i].ts >= now - Since
    BY <2>4, <2>8, <2>9
  <2>11. InScope(log[i], scope)
    BY <2>7, <2>9 DEF InScope
  <2>12. QED
    BY <1>2, <2>6, <2>9, <2>10, <2>11
<1>10. \A i \in 1..n : log[i].ts <= now
  BY <1>4 DEF DiagnosisInv, LogInv
<1>11. now <= now
  BY DEF DiagnosisInv, DiagnosisTypeOK
<1>12. n <= n
  BY <1>4
<1>13. FreezeInv'
  BY <1>1, <1>3, <1>5, <1>9, <1>10, <1>11, <1>12 DEF FreezeInv
<1>14. QED
  BY <1>1, <1>8, <1>13, ReaderInv DEF DiagnosisInv

-----------------------------------------------------------------------------
(* The window of a report *)

(* A non-empty set of numbers has a least element, and Min finds it. *)
LEMMA LeastIsMember ==
  ASSUME NEW S, S \subseteq Nat, S # {}
  PROVE  Min(S) \in S /\ \A x \in S : Min(S) <= x
<1> DEFINE R == {ss \in Nat \X Nat : ss[1] < ss[2]}
<1>1. IsWellFoundedOn(R, Nat)
  BY NatLessThanWellFounded DEF OpToRel
<1>2. \A x, y \in Nat : <<x, y>> \in R <=> x < y
  OBVIOUS
<1> HIDE DEF R
<1>3. PICK m \in S : \A y \in S : ~(<<y, m>> \in R)
  BY <1>1, WFMin, Zenon
<1>4. \A y \in S : m <= y
  <2> TAKE y \in S
  <2>1. y \in Nat /\ m \in Nat
    OBVIOUS
  <2>2. ~(y < m)
    BY <1>2, <1>3, <2>1
  <2>3. QED
    BY <2>1, <2>2
<1>5. QED
  BY <1>4 DEF Min

(* Every window has a conclusion. *)
LEMMA ClassifyTotal ==
  ASSUME NEW W, NEW t
  PROVE  Classify(W, t) \in Range(Rules) \cup {"fallback"}
<1> DEFINE fires == Fires(W, t)
<1> DEFINE hits == {i \in DOMAIN Rules : fires[Rules[i]]}
<1>1. DOMAIN Rules \subseteq Nat
  BY DEF Rules
<1>2. Classify(W, t) = IF hits = {} THEN "fallback" ELSE Rules[Min(hits)]
  BY DEF Classify
<1> HIDE DEF fires
<1>3. hits # {} => Min(hits) \in hits
  BY <1>1, LeastIsMember
<1>4. hits # {} => Rules[Min(hits)] \in Range(Rules)
  BY <1>3 DEF Range
<1>5. QED
  BY <1>2, <1>4

LEMMA VerdictTyped ==
  ASSUME NEW W, NEW rule, NEW truncated
  PROVE  Verdict(W, rule, truncated) \in {"none", "PASS", "FAIL", "UNKNOWN"}
BY DEF Verdict

LEMMA WindowLogged ==
  ASSUME DiagnosisInv, cmd.pc = "frozen", NEW n \in 0..Len(log), NEW lost, NEW e \in Frozen(n, lost)
  PROVE  \E i \in DOMAIN log : e = log[i]
<1>1. DOMAIN log = 1..Len(log) /\ Len(log) \in Nat
  BY DEF DiagnosisInv, DiagnosisTypeOK
<1>2. CASE e \in cmd.memory
  BY <1>2 DEF DiagnosisInv, FreezeInv
<1>3. CASE e \in Persisted(n, lost)
  <2>1. \E i \in 1..n : e = log[i]
    BY <1>3 DEF Persisted, Newest
  <2>2. QED
    BY <1>1, <2>1
<1>4. QED
  BY <1>2, <1>3 DEF Frozen, Newest

LEMMA AnalyseInv ==
  ASSUME DiagnosisInv, NEW n \in 0..Len(log), NEW lost \in SUBSET (1..n), WtfAnalyse(n, lost)
  PROVE  DiagnosisInv'
<1>1. UNCHANGED <<now, log, hook, call, others>> /\ flushed' = n /\ cmd.pc = "frozen"
  BY DEF WtfAnalyse, Written
<1>2. PICK W : W = Frozen(n, lost)
  OBVIOUS
<1>3. PICK rule : rule = Classify(W, now)
  OBVIOUS
<1>4. PICK verdict, saved :
        /\ verdict = Verdict(W, rule, Truncated(W))
        /\ saved = ~SkipSaving(W, rule)
  OBVIOUS
<1>5. /\ report' = [window |-> W, rule |-> rule, verdict |-> verdict, saved |-> saved,
                    missed |-> Missed(lost)]
      /\ Missed(lost) \subseteq Nat
  BY <1>2, <1>3, <1>4 DEF WtfAnalyse, Missed
<1>6. cmd' = [pc |-> "done", scope |-> All, seen |-> 0, at |-> 0, memory |-> {}]
  BY DEF WtfAnalyse, NoCommand
<1>7. \A e \in W : e \in Events /\ Named(e)
  BY <1>1, <1>2, WindowLogged, LoggedTyped DEF DiagnosisInv, LogInv
<1>8. rule \in Range(Rules) \cup {"fallback"}
  BY <1>3, ClassifyTotal
<1>9. verdict \in {"none", "PASS", "FAIL", "UNKNOWN"}
  BY <1>4, VerdictTyped
<1>10. saved \in BOOLEAN
  BY <1>4
<1>12. report' \in [window : SUBSET Events, rule : Range(Rules) \cup {"fallback", "none"},
                    verdict : {"none", "PASS", "FAIL", "UNKNOWN"}, saved : BOOLEAN,
                    missed : SUBSET Nat]
  BY <1>5, <1>7, <1>8, <1>9, <1>10
<1>13. cmd' \in [pc : {"idle", "frozen", "done"}, scope : Sessions \cup {All},
                 seen : 0..Len(log), at : Nat, memory : SUBSET Events]
  <2>1. Len(log) \in Nat
    BY DEF DiagnosisInv, DiagnosisTypeOK
  <2>2. QED
    BY <1>6, <2>1
<1>14. DiagnosisTypeOK'
  BY <1>1, <1>12, <1>13 DEF DiagnosisInv, DiagnosisTypeOK
<1>15. FreezeInv'
  BY <1>6 DEF FreezeInv
<1>16. QED
  BY <1>1, <1>14, <1>15, ReaderInv DEF DiagnosisInv

-----------------------------------------------------------------------------
LEMMA InitInv == Init => DiagnosisInv
<1> SUFFICES ASSUME Init PROVE DiagnosisInv
  OBVIOUS
<1>1. log = <<>> /\ log \in Seq(Events) /\ Len(log) = 0 /\ DOMAIN log = {}
  BY DEF Init
<1>2. hook \in [Sessions -> [made : Seq(Events), todo : Seq(Events)]]
  BY DEF Init
<1>3. cmd \in [pc : {"idle", "frozen", "done"}, scope : Sessions \cup {All},
               seen : 0..Len(log), at : Nat, memory : SUBSET Events] /\ cmd.pc = "idle"
  BY <1>1 DEF Init, NoCommand
<1>4. report \in [window : SUBSET Events, rule : Range(Rules) \cup {"fallback", "none"},
                  verdict : {"none", "PASS", "FAIL", "UNKNOWN"}, saved : BOOLEAN,
                  missed : SUBSET Nat]
  <2>1. PICK no : no = FALSE
    OBVIOUS
  <2>2. no \in BOOLEAN
    BY <2>1
  <2>3. report = [window |-> {}, rule |-> "none", verdict |-> "none", saved |-> no,
                  missed |-> {}]
    BY <2>1 DEF Init
  <2>4. QED
    BY <2>2, <2>3
<1>5. call \in [Calls -> CallType]
  BY DEF Init, CallType
<1>6. now \in Nat /\ others \in Nat /\ flushed \in 0..Len(log)
  BY <1>1 DEF Init
<1>7. DiagnosisTypeOK
  BY <1>1, <1>2, <1>3, <1>4, <1>5, <1>6 DEF DiagnosisTypeOK, CallType
<1>8. HookInv
  BY DEF Init, HookInv
<1>9. LogInv /\ FreezeInv
  BY <1>1, <1>3 DEF LogInv, FreezeInv
<1>10. QED
  BY <1>7, <1>8, <1>9 DEF DiagnosisInv

LEMMA StutterInv == DiagnosisInv /\ UNCHANGED vars => DiagnosisInv'
BY DEF vars, DiagnosisInv, DiagnosisTypeOK, HookInv, LogInv, FreezeInv, Waits, Fits, Named, Tracked

LEMMA NextInv == DiagnosisInv /\ [Next]_vars => DiagnosisInv'
<1> SUFFICES ASSUME DiagnosisInv, [Next]_vars
             PROVE  DiagnosisInv'
  OBVIOUS
<1>1. ASSUME NEW s \in Sessions, NEW q \in Emissions, NEW w \in Speeds, PostApiRequest(s, q, w)
      PROVE  DiagnosisInv'
  BY <1>1, ResponseInv
<1>2. ASSUME NEW s \in Sessions, NEW status \in Statuses, ApiRequestError(s, status)
      PROVE  DiagnosisInv'
  BY <1>2, ErrorInv
<1>3. ASSUME NEW c \in Calls, PreToolCall(c)
      PROVE  DiagnosisInv'
  BY <1>3, RequestInv
<1>4. ASSUME NEW c \in Calls, NEW k \in Keys, PostToolCall(c, k)
      PROVE  DiagnosisInv'
  BY <1>4, ResultInv
<1>5. ASSUME NEW s \in Sessions, AgentLoopStopped(s)
      PROVE  DiagnosisInv'
  BY <1>5, StoppedInv
<1>6. ASSUME NEW s \in Sessions, Note(s)
      PROVE  DiagnosisInv'
  BY <1>6, OthersInv
<1>7. ASSUME NEW s \in Sessions, Stamp(s)
      PROVE  DiagnosisInv'
  BY <1>7, StampInv
<1>8. ASSUME NEW s \in Sessions, Record(s)
      PROVE  DiagnosisInv'
  BY <1>8, RecordInv
<1>9. CASE Tick
  BY <1>9, TickInv
<1>10. ASSUME NEW gateway \in BOOLEAN, NEW scope \in Sessions \cup {All}, NEW n \in 0..Len(log),
              WtfFreeze(gateway, scope, n)
       PROVE  DiagnosisInv'
  BY <1>10, FreezeStepInv
<1>11. ASSUME NEW n \in 0..Len(log), NEW lost \in SUBSET (1..n), WtfAnalyse(n, lost)
       PROVE  DiagnosisInv'
  BY <1>11, AnalyseInv
<1>12. CASE UNCHANGED vars
  BY <1>12, StutterInv
<1>13. ASSUME NEW s \in Sessions, RecordAstray(s)
       PROVE  DiagnosisInv'
  BY <1>13, AstrayInv
<1>14. QED
  BY <1>1, <1>2, <1>3, <1>4, <1>5, <1>6, <1>7, <1>8, <1>9, <1>10, <1>11, <1>12, <1>13 DEF Next

LEMMA DiagnosisInductive == Spec => []DiagnosisInv
BY InitInv, NextInv, PTL DEF Spec

(* The state is well formed: memory, disk and freeze hold recorded events,   *)
(* a report names a rule and a verdict (DiagnosisTypeOK).                   *)
THEOREM DiagnosisTypeCorrect == Spec => []DiagnosisTypeOK
<1>1. DiagnosisInv => DiagnosisTypeOK
  BY DEF DiagnosisInv
<1>2. QED
  BY <1>1, DiagnosisInductive, PTL

-----------------------------------------------------------------------------
(* The newest events of a set *)

LEMMA NewestFinite ==
  ASSUME NEW S, IsFiniteSet(S), NEW m
  PROVE  /\ Newest(S, m) \subseteq S /\ IsFiniteSet(Newest(S, m))
         /\ Cardinality(Newest(S, m)) \in Nat /\ Cardinality(S) \in Nat
<1>1. Newest(S, m) \subseteq S
  BY DEF Newest
<1>2. QED
  BY <1>1, FS_Subset, FS_CardinalityType

(* Whoever is not older than one of the newest is one of them. *)
LEMMA NewestUpward ==
  ASSUME NEW S, IsFiniteSet(S), \A e \in S : e.ts \in Nat, NEW m \in Nat,
         NEW e \in Newest(S, m), NEW x \in S, x.ts >= e.ts
  PROVE  x \in Newest(S, m)
<1> DEFINE After(y) == {f \in S : f.ts > y.ts}
<1>1. e \in S /\ Cardinality(After(e)) < m
  BY DEF Newest
<1>2. After(x) \subseteq After(e)
  BY <1>1
<1>3. IsFiniteSet(After(e)) /\ After(e) \subseteq S
  BY FS_Subset
<1> HIDE DEF After
<1>4. /\ Cardinality(After(x)) <= Cardinality(After(e))
      /\ Cardinality(After(x)) \in Nat /\ Cardinality(After(e)) \in Nat
  BY <1>2, <1>3, FS_Subset, FS_CardinalityType
<1>5. Cardinality(After(x)) < m
  BY <1>1, <1>4
<1>6. QED
  BY <1>5 DEF Newest, After

(* When there is room left, nothing was cut. *)
LEMMA NewestAll ==
  ASSUME NEW S, IsFiniteSet(S), NEW b \in Nat, \A e \in S : e.ts \in Nat /\ e.ts <= b,
         NEW m \in Nat, Cardinality(Newest(S, m)) < m
  PROVE  Newest(S, m) = S
<1>1. SUFFICES ASSUME Newest(S, m) # S
               PROVE  FALSE
  OBVIOUS
<1> DEFINE Cut == S \ Newest(S, m)
<1> DEFINE Ages == {b - e.ts : e \in Cut}
<1>2. Cut # {} /\ Cut \subseteq S
  BY <1>1, NewestFinite
<1>3. Ages \subseteq Nat /\ Ages # {}
  BY <1>2
<1>4. PICK x \in Cut : b - x.ts = Min(Ages) /\ \A a \in Ages : b - x.ts <= a
  <2>1. Min(Ages) \in Ages /\ \A a \in Ages : Min(Ages) <= a
    <3> HIDE DEF Ages
    <3>1. QED
      BY <1>3, LeastIsMember
  <2>2. PICK x \in Cut : Min(Ages) = b - x.ts
    BY <2>1
  <2>3. QED
    BY <2>1, <2>2
<1>5. \A e \in Cut : e.ts <= x.ts
  <2> TAKE e \in Cut
  <2>1. b - x.ts <= b - e.ts
    BY <1>4
  <2>2. e.ts \in Nat /\ x.ts \in Nat
    BY <1>2
  <2>3. QED
    BY <2>1, <2>2
<1> DEFINE After == {f \in S : f.ts > x.ts}
<1>6. After \subseteq Newest(S, m)
  <2>1. \A f \in After : f \notin Cut
    BY <1>2, <1>5
  <2>2. QED
    BY <2>1
<1>7. Cardinality(After) <= Cardinality(Newest(S, m)) /\ Cardinality(After) \in Nat
  <2> HIDE DEF After
  <2>1. QED
    BY <1>6, NewestFinite, FS_Subset, FS_CardinalityType
<1>8. Cardinality(After) < m
  BY <1>7, NewestFinite
<1>9. x \in Newest(S, m)
  BY <1>2, <1>4, <1>8 DEF Newest
<1>10. QED
  BY <1>4, <1>9

(* What load_recent_persisted_events chooses from.                          *)
Eligible(n, lost) ==
  {e \in {log[i] : i \in {j \in (1..n) \ lost : Near(j, n, lost)}} :
     e.ts >= Cutoff /\ e.ts <= cmd.at + 300 /\ InScope(e, cmd.scope)}

(* What is near the end stays so for later rows, and the last MaxRows are.   *)
LEMMA NearUpward ==
  ASSUME NEW n \in Nat, NEW lost, NEW i \in Nat, NEW k \in Nat, i <= k, Near(i, n, lost)
  PROVE  Near(k, n, lost)
<1>1. PICK S : S = (i + 1 .. n) \ lost
  OBVIOUS
<1>2. PICK T : T = (k + 1 .. n) \ lost
  OBVIOUS
<1>3. T \subseteq S /\ IsFiniteSet(S)
  <2>1. IsFiniteSet(i + 1 .. n)
    BY FS_Interval
  <2>2. IsFiniteSet(S)
    BY <1>1, <2>1, FS_Subset
  <2>3. QED
    BY <1>1, <1>2, <2>2
<1>4. /\ Cardinality(T) <= Cardinality(S)
      /\ Cardinality(T) \in Nat /\ Cardinality(S) \in Nat
  BY <1>3, FS_Subset, FS_CardinalityType
<1>5. MaxRows \in Nat /\ Cardinality(S) < MaxRows
  BY <1>1, BoundAssumption DEF Near
<1>6. Cardinality(T) < MaxRows
  BY <1>4, <1>5
<1>7. QED
  BY <1>2, <1>6 DEF Near

LEMMA LastRowsAreNear ==
  ASSUME NEW n \in Nat, NEW lost, NEW i \in 1..n, n - i < MaxRows
  PROVE  Near(i, n, lost)
<1>1. PICK S : S = i + 1 .. n
  OBVIOUS
<1>2. PICK T : T = S \ lost
  OBVIOUS
<1>3. IsFiniteSet(S) /\ Cardinality(S) = n - i
  BY <1>1, FS_Interval
<1>4. Cardinality(T) <= Cardinality(S) /\ Cardinality(T) \in Nat
  BY <1>2, <1>3, FS_Subset, FS_CardinalityType
<1>5. Cardinality(T) < MaxRows
  BY <1>3, <1>4, BoundAssumption
<1>6. QED
  BY <1>1, <1>2, <1>5 DEF Near

LEMMA LogFinite ==
  ASSUME DiagnosisTypeOK
  PROVE  IsFiniteSet({log[i] : i \in DOMAIN log})
<1>1. PICK n \in Nat : n = Len(log) /\ DOMAIN log = 1..n
  BY DEF DiagnosisTypeOK
<1>2. IsFiniteSet(DOMAIN log)
  BY <1>1, FS_Interval
<1> DEFINE T == {log[i] : i \in DOMAIN log}
<1>3. log \in Surjection(DOMAIN log, T)
  <2>1. log = [i \in DOMAIN log |-> log[i]]
    BY DEF DiagnosisTypeOK
  <2>2. log \in [DOMAIN log -> T]
    BY <2>1
  <2>3. QED
    BY <2>2 DEF Surjection
<1> HIDE DEF T
<1>4. IsFiniteSet(T)
  BY <1>2, <1>3, FS_Surjection
<1>5. QED
  BY <1>4 DEF T

(* Everything the command chooses from is finite and recorded.              *)
LEMMA ChoiceFacts ==
  ASSUME DiagnosisInv, cmd.pc = "frozen", NEW n \in 0..Len(log), NEW lost
  PROVE  /\ Persisted(n, lost) = Newest(Eligible(n, lost), MaxEvents)
         /\ IsFiniteSet(Eligible(n, lost)) /\ IsFiniteSet(cmd.memory \cup Persisted(n, lost))
         /\ \A e \in Eligible(n, lost) \cup cmd.memory : e.ts \in Nat /\ e.ts <= now
         /\ Persisted(n, lost) \subseteq Eligible(n, lost)
         /\ MaxEvents \in Nat /\ MaxRows \in Nat /\ cmd.at \in Nat /\ now \in Nat
<1> DEFINE T == {log[i] : i \in DOMAIN log}
<1>1. Persisted(n, lost) = Newest(Eligible(n, lost), MaxEvents)
  BY DEF Persisted, Eligible
<1>2. 1..n \subseteq DOMAIN log
  BY DEF DiagnosisInv, DiagnosisTypeOK
<1>3. Eligible(n, lost) \subseteq T
  BY <1>2 DEF Eligible
<1>4. cmd.memory \subseteq T
  BY DEF DiagnosisInv, FreezeInv
<1>5. IsFiniteSet(T)
  BY LogFinite DEF DiagnosisInv
<1>6. \A e \in T : e.ts \in Nat /\ e.ts <= now
  BY LoggedTyped DEF DiagnosisInv, LogInv
<1> HIDE DEF T
<1>7. IsFiniteSet(Eligible(n, lost)) /\ IsFiniteSet(cmd.memory)
  BY <1>3, <1>4, <1>5, FS_Subset
<1>8. Persisted(n, lost) \subseteq Eligible(n, lost) /\ IsFiniteSet(Persisted(n, lost))
  BY <1>1, <1>7, NewestFinite
<1>9. IsFiniteSet(cmd.memory \cup Persisted(n, lost))
  BY <1>7, <1>8, FS_Union
<1>10. MaxEvents \in Nat /\ MaxRows \in Nat /\ cmd.at \in Nat /\ now \in Nat
  BY BoundAssumption DEF DiagnosisInv, DiagnosisTypeOK
<1>11. QED
  BY <1>1, <1>3, <1>4, <1>6, <1>7, <1>8, <1>9, <1>10

-----------------------------------------------------------------------------
(* What a report may say *)

LEMMA CutoffTyped ==
  ASSUME DiagnosisInv
  PROVE  Cutoff \in Int
<1> DEFINE a == cmd.at - Retention
<1> DEFINE b == cmd.at - Since
<1>1. a \in Int /\ b \in Int
  BY BoundAssumption DEF DiagnosisInv, DiagnosisTypeOK
<1>2. Cutoff = CHOOSE x \in {a, b} : \A y \in {a, b} : x >= y
  BY DEF Cutoff, Max
<1> HIDE DEF a, b
<1>3. \E x \in {a, b} : \A y \in {a, b} : x >= y
  BY <1>1
<1>4. Cutoff \in {a, b}
  BY <1>2, <1>3
<1>5. QED
  BY <1>1, <1>4

LEMMA OnlyAnalyseConcludes ==
  ASSUME DiagnosisInv, [Next]_vars, Concludes
  PROVE  \E n \in 0..Len(log) : \E lost : WtfAnalyse(n, lost)
<1>1. cmd.pc = "frozen" /\ cmd'.pc = "done" /\ cmd' # cmd
  BY DEF Concludes
<1>2. \A s, events : ~Build(s, events)
  BY <1>1 DEF Build
<1>3. /\ \A s, q, w : ~PostApiRequest(s, q, w)
      /\ \A s, status : ~ApiRequestError(s, status)
      /\ \A s : ~AgentLoopStopped(s) /\ ~Note(s) /\ ~Stamp(s)
      /\ \A c : ~PreToolCall(c)
      /\ \A c, key : ~PostToolCall(c, key)
  BY <1>2 DEF PostApiRequest, ApiRequestError, AgentLoopStopped, Note, Stamp, PreToolCall,
              PostToolCall, Enter
<1>4. (\A s : ~Record(s) /\ ~RecordAstray(s)) /\ ~Tick /\ ~UNCHANGED vars
  BY <1>1 DEF Record, RecordAstray, Tick, vars
<1>5. \A gateway, scope, n : ~WtfFreeze(gateway, scope, n)
  BY <1>1 DEF WtfFreeze
<1>6. QED
  BY <1>3, <1>4, <1>5 DEF Next

LEMMA ReportedWindow ==
  ASSUME NEW n, NEW lost, WtfAnalyse(n, lost)
  PROVE  /\ Seen = Frozen(n, lost) /\ flushed' = n /\ cmd.pc = "frozen"
         /\ report'.rule = Classify(Frozen(n, lost), now)
         /\ report'.missed = Missed(lost)
         /\ report'.verdict = Verdict(Frozen(n, lost), Classify(Frozen(n, lost), now), Truncated(Frozen(n, lost)))
BY DEF WtfAnalyse, Written, Seen

(* A result that was there to be found, and not missed, is in the window of  *)
(* its request.                                                            *)
LEMMA ResultFollows ==
  ASSUME DiagnosisInv, NEW n \in 0..Len(log), NEW lost, WtfAnalyse(n, lost),
         NEW e \in Frozen(n, lost), e.type = "tool.requested",
         NEW i \in 1..cmd.seen, log[i].type = "tool.executed", log[i].call = e.call,
         i \notin Missed(lost)
  PROVE  \E x \in Frozen(n, lost) : x.type = "tool.executed" /\ x.call = e.call /\ x.id = e.id
<1>1. cmd.pc = "frozen" /\ flushed <= n
  BY DEF WtfAnalyse, Written, DiagnosisInv, DiagnosisTypeOK
<1>2. PICK k \in DOMAIN log : e = log[k]
  BY <1>1, WindowLogged
<1>3. log[i].type = "tool.executed" /\ log[i].call = e.call
  OBVIOUS
<1>4. i \in DOMAIN log /\ i <= n /\ i \in Nat
  BY <1>1 DEF DiagnosisInv, DiagnosisTypeOK, FreezeInv
<1>5. PICK x : x = log[i]
  OBVIOUS
<1>6. k < i /\ e.ts < x.ts
  BY <1>2, <1>3, <1>4, <1>5 DEF DiagnosisInv, LogInv
<1>7. x.session = e.session /\ x.id = e.id
  BY <1>2, <1>3, <1>4, <1>5 DEF DiagnosisInv, LogInv, Fits, Named, Tracked
<1>8. e.ts \in Nat /\ x.ts \in Nat /\ x.ts <= cmd.at
  BY <1>1, <1>2, <1>3, <1>4, <1>5, LoggedTyped DEF DiagnosisInv, FreezeInv
<1>9. x \in cmd.memory \cup Persisted(n, lost)
  <2>1. CASE e \in cmd.memory
    BY <1>1, <1>2, <1>3, <1>5, <2>1 DEF DiagnosisInv, FreezeInv
  <2>3. SUFFICES ASSUME x \notin cmd.memory
                 PROVE  x \in cmd.memory \cup Persisted(n, lost)
    OBVIOUS
  <2>2. CASE e \in Persisted(n, lost)
    <3>1. e \in Eligible(n, lost)
      BY <1>1, <2>2, ChoiceFacts
    <3>2. PICK j \in 1..n : Near(j, n, lost) /\ e = log[j]
      BY <3>1 DEF Eligible
    <3>3. j = k
      <4>1. j \in DOMAIN log
        BY DEF DiagnosisInv, DiagnosisTypeOK
      <4>2. QED
        BY <1>2, <3>2, <4>1 DEF DiagnosisInv, LogInv, Tracked
    <3>4. i \in 1..n /\ i \notin lost /\ Near(i, n, lost)
      <4>1. i \in 1..n /\ i \in Nat /\ j \in Nat /\ n \in Nat /\ j <= i
        BY <1>4, <1>6, <3>3
      <4>2. Near(i, n, lost)
        BY <3>2, <4>1, NearUpward
      <4>3. i \notin lost
        BY <1>5, <2>3 DEF Missed
      <4>4. QED
        BY <4>1, <4>2, <4>3
    <3>5. x.ts >= Cutoff
      <4>1. e.ts >= Cutoff
        BY <3>1 DEF Eligible
      <4>2. Cutoff \in Int
        BY <1>1, CutoffTyped
      <4>3. QED
        BY <1>6, <1>8, <4>1, <4>2
    <3>6. x.ts <= cmd.at + 300
      <4>1. cmd.at \in Nat
        BY <1>1, ChoiceFacts
      <4>2. QED
        BY <1>8, <4>1
    <3>7. InScope(x, cmd.scope)
      BY <1>7, <3>1 DEF Eligible, InScope
    <3>8. x \in Eligible(n, lost)
      BY <1>5, <3>4, <3>5, <3>6, <3>7 DEF Eligible
    <3>9. x \in Newest(Eligible(n, lost), MaxEvents)
      <4>1. PICK S : S = Eligible(n, lost)
        OBVIOUS
      <4>2. IsFiniteSet(S) /\ (\A f \in S : f.ts \in Nat) /\ MaxEvents \in Nat
        BY <1>1, <4>1, ChoiceFacts
      <4>3. e \in Newest(S, MaxEvents)
        BY <1>1, <2>2, <4>1, ChoiceFacts
      <4>4. x \in Newest(S, MaxEvents)
        BY <1>6, <1>8, <3>8, <4>1, <4>2, <4>3, NewestUpward
      <4>5. QED
        BY <4>1, <4>4
    <3>10. QED
      BY <1>1, <3>9, ChoiceFacts
  <2>4. QED
    BY <2>1, <2>2 DEF Frozen, Newest
<1>10. x \in Frozen(n, lost)
  <2>1. PICK U : U = cmd.memory \cup Persisted(n, lost)
    OBVIOUS
  <2>2. IsFiniteSet(U) /\ (\A f \in U : f.ts \in Nat) /\ MaxEvents \in Nat
    BY <1>1, <2>1, ChoiceFacts
  <2>3. e \in Newest(U, MaxEvents)
    BY <2>1 DEF Frozen
  <2>4. x \in Newest(U, MaxEvents)
    BY <1>6, <1>8, <1>9, <2>1, <2>2, <2>3, NewestUpward
  <2>5. QED
    BY <2>1, <2>4 DEF Frozen
<1>11. QED
  BY <1>3, <1>5, <1>7, <1>10

(* No call is reported as hung whose result was recorded, and in memory or   *)
(* on disk, before wtf looked, but for rows the reader missed: trimming,     *)
(* windows, sessions and caps never part a result from its request           *)
(* (HangIsReal).                                                            *)
THEOREM HangsAreReal == Spec => HangIsReal
<1>1. DiagnosisInv /\ [Next]_vars
      => [Concludes =>
            \A e \in Hung(Seen, now) : \A i \in 1..cmd.seen :
              log[i].type = "tool.executed" /\ log[i].call = e.call => i \in report'.missed]_vars
  <2> SUFFICES ASSUME DiagnosisInv, [Next]_vars, Concludes,
                      NEW e \in Hung(Seen, now), NEW i \in 1..cmd.seen,
                      log[i].type = "tool.executed", log[i].call = e.call, i \notin report'.missed
               PROVE  FALSE
    OBVIOUS
  <2>0. PICK n \in 0..Len(log) : \E lost : WtfAnalyse(n, lost)
    BY OnlyAnalyseConcludes
  <2>1. PICK lost : WtfAnalyse(n, lost)
    BY <2>0
  <2>2. Seen = Frozen(n, lost) /\ report'.missed = Missed(lost)
    BY <2>1, ReportedWindow
  <2>3. /\ e \in Frozen(n, lost) /\ e.type = "tool.requested" /\ e.id # NoId
        /\ e.id \notin IdsOf(Executed(Frozen(n, lost)))
    BY <2>2 DEF Hung, Open, Requested, OfType
  <2>4. PICK x \in Frozen(n, lost) : x.type = "tool.executed" /\ x.id = e.id
    BY <2>1, <2>2, <2>3, ResultFollows
  <2>5. e.id \in IdsOf(Executed(Frozen(n, lost)))
    BY <2>3, <2>4 DEF IdsOf, Executed, OfType
  <2>6. QED
    BY <2>3, <2>5
<1>2. QED
  BY <1>1, DiagnosisInductive, PTL DEF Spec, HangIsReal

-----------------------------------------------------------------------------
(* What PASS says *)

LEMMA PassIsAligned ==
  ASSUME NEW W, NEW t, NEW truncated, Verdict(W, Classify(W, t), truncated) = "PASS"
  PROVE  Aligned(W, t) /\ ~truncated
<1> DEFINE fires == Fires(W, t)
<1> DEFINE hits == {i \in DOMAIN Rules : fires[Rules[i]]}
<1>1. Classify(W, t) = "aligned" /\ ~truncated
  BY DEF Verdict
<1>2. Classify(W, t) = IF hits = {} THEN "fallback" ELSE Rules[Min(hits)]
  BY DEF Classify
<1>3. fires["aligned"] = Aligned(W, t)
  BY DEF Fires
<1> HIDE DEF fires
<1>4. hits # {} /\ Rules[Min(hits)] = "aligned"
  BY <1>1, <1>2
<1>5. Min(hits) \in hits
  <2>1. DOMAIN Rules \subseteq Nat
    BY DEF Rules
  <2>2. QED
    BY <1>4, <2>1, LeastIsMember
<1>6. fires["aligned"]
  BY <1>4, <1>5
<1>7. QED
  BY <1>1, <1>3, <1>6

LEMMA WindowFinite ==
  ASSUME DiagnosisInv, cmd.pc = "frozen", NEW n \in 0..Len(log), NEW lost
  PROVE  IsFiniteSet(Frozen(n, lost)) /\ Cardinality(Frozen(n, lost)) \in Nat
<1>1. IsFiniteSet(cmd.memory \cup Persisted(n, lost))
  BY ChoiceFacts
<1>2. QED
  BY <1>1, NewestFinite DEF Frozen

LEMMA NothingCut ==
  ASSUME DiagnosisInv, cmd.pc = "frozen", NEW n \in 0..Len(log), NEW lost, ~Truncated(Frozen(n, lost))
  PROVE  Eligible(n, lost) \cup cmd.memory \subseteq Frozen(n, lost)
<1>1. PICK U : U = cmd.memory \cup Persisted(n, lost)
  OBVIOUS
<1>2. PICK S : S = Eligible(n, lost)
  OBVIOUS
<1>3. /\ IsFiniteSet(U) /\ IsFiniteSet(S) /\ Persisted(n, lost) = Newest(S, MaxEvents)
      /\ MaxEvents \in Nat /\ now \in Nat
      /\ \A e \in S : e.ts \in Nat /\ e.ts <= now
  BY <1>1, <1>2, ChoiceFacts
<1>4. \A e \in U : e.ts \in Nat /\ e.ts <= now
  BY <1>1, <1>2, ChoiceFacts
<1>5. Frozen(n, lost) = Newest(U, MaxEvents)
  BY <1>1 DEF Frozen
<1>6. Cardinality(Newest(U, MaxEvents)) < MaxEvents
  <2>1. Cardinality(Frozen(n, lost)) \in Nat
    BY WindowFinite
  <2>2. QED
    BY <1>3, <1>5, <2>1 DEF Truncated
<1>7. Newest(U, MaxEvents) = U
  BY <1>3, <1>4, <1>6, NewestAll
<1>8. Cardinality(Persisted(n, lost)) <= Cardinality(U) /\ Cardinality(Persisted(n, lost)) \in Nat
  BY <1>1, <1>3, FS_Subset, FS_CardinalityType
<1>9. Cardinality(Newest(S, MaxEvents)) < MaxEvents
  <2>1. Cardinality(U) \in Nat
    BY <1>3, FS_CardinalityType
  <2>2. Cardinality(U) < MaxEvents
    BY <1>6, <1>7
  <2>3. QED
    BY <1>3, <1>8, <2>1, <2>2
<1>10. Newest(S, MaxEvents) = S
  BY <1>3, <1>9, NewestAll
<1>11. QED
  BY <1>1, <1>2, <1>3, <1>5, <1>7, <1>10

(* PASS is given for no window from which the cap on events took something:  *)
(* a full window is never called complete (PassNotCut). What the reader      *)
(* missed is another matter.                                                *)
THEOREM PassIsComplete == Spec => PassNotCut
<1>1. DiagnosisInv /\ [Next]_vars
      => [Concludes /\ report'.verdict = "PASS"
          => \A i \in 1..cmd.seen :
               (log[i].ts >= Cutoff /\ InScope(log[i], cmd.scope))
               => (log[i] \in Seen \/ i <= flushed' - MaxRows \/ i \in report'.missed)]_vars
  <2> SUFFICES ASSUME DiagnosisInv, [Next]_vars, Concludes, report'.verdict = "PASS",
                      NEW i \in 1..cmd.seen,
                      log[i].ts >= Cutoff, InScope(log[i], cmd.scope), ~(i <= flushed' - MaxRows),
                      i \notin report'.missed
               PROVE  log[i] \in Seen
    OBVIOUS
  <2>0. PICK n \in 0..Len(log) : \E lost : WtfAnalyse(n, lost)
    BY OnlyAnalyseConcludes
  <2>1. PICK lost : WtfAnalyse(n, lost)
    BY <2>0
  <2>2. /\ Seen = Frozen(n, lost) /\ flushed' = n /\ cmd.pc = "frozen"
        /\ report'.missed = Missed(lost)
    BY <2>1, ReportedWindow
  <2>3. ~Truncated(Frozen(n, lost))
    BY <2>1, ReportedWindow, PassIsAligned
  <2>4. flushed <= n /\ cmd.seen <= flushed /\ cmd.seen \in Nat /\ flushed \in Nat /\ i \in DOMAIN log
    BY <2>1, <2>2 DEF WtfAnalyse, Written, DiagnosisInv, DiagnosisTypeOK, FreezeInv
  <2>5. MaxRows \in Nat /\ cmd.at \in Nat /\ n \in Nat
    BY BoundAssumption DEF DiagnosisInv, DiagnosisTypeOK
  <2>6. i \in 1..n /\ Near(i, n, lost)
    <3>1. i \in 1..n /\ n - i < MaxRows
      BY <2>2, <2>4, <2>5
    <3>2. QED
      BY <2>5, <3>1, LastRowsAreNear
  <2>7. log[i].ts <= cmd.at + 300
    <3>1. log[i].ts <= cmd.at
      BY <2>2 DEF DiagnosisInv, FreezeInv
    <3>2. log[i].ts \in Nat
      BY <2>4, LoggedTyped DEF DiagnosisInv
    <3>3. QED
      BY <2>5, <3>1, <3>2
  <2>8. CASE log[i] \in cmd.memory
    BY <2>2, <2>3, <2>8, NothingCut
  <2>9. CASE log[i] \notin cmd.memory
    <3>1. i \notin lost
      BY <2>2, <2>9 DEF Missed
    <3>2. log[i] \in Eligible(n, lost)
      BY <2>6, <2>7, <3>1 DEF Eligible
    <3>3. QED
      BY <2>2, <2>3, <3>2, NothingCut
  <2>10. QED
    BY <2>8, <2>9
<1>2. QED
  BY <1>1, DiagnosisInductive, PTL DEF Spec, PassNotCut

(* Counting: in an aligned window each request is answered or in flight.     *)
LEMMA AlignedCovers ==
  ASSUME NEW W, IsFiniteSet(W), NEW t, Aligned(W, t),
         \A e \in W : Named(e),
         \A e, f \in W : Tracked(e) /\ e.type = f.type /\ e.call = f.call => e = f,
         \A x \in Executed(W) : \E r \in Requested(W) : r.call = x.call,
         NEW r \in Requested(W), \A x \in Executed(W) : x.call # r.call
  PROVE  r \in InFlight(W, t)
<1>1. PICK R : R = Requested(W)
  OBVIOUS
<1>2. PICK X : X = Executed(W)
  OBVIOUS
<1>3. PICK F : F = InFlight(W, t)
  OBVIOUS
<1>4. PICK A : A = {y \in R : \E x \in X : x.call = y.call}
  OBVIOUS
<1>5. /\ R \subseteq W /\ X \subseteq W /\ F \subseteq R /\ A \subseteq R
      /\ \A y \in R : y.type = "tool.requested"
      /\ \A x \in X : x.type = "tool.executed"
  BY <1>1, <1>2, <1>3, <1>4 DEF Requested, Executed, OfType, InFlight, Open
<1>6. /\ IsFiniteSet(R) /\ IsFiniteSet(X) /\ IsFiniteSet(F) /\ IsFiniteSet(A)
      /\ Cardinality(R) \in Nat /\ Cardinality(X) \in Nat
      /\ Cardinality(F) \in Nat /\ Cardinality(A) \in Nat
  <2>1. IsFiniteSet(R) /\ IsFiniteSet(X)
    BY <1>5, FS_Subset
  <2>2. IsFiniteSet(F) /\ IsFiniteSet(A)
    BY <1>5, <2>1, FS_Subset
  <2>3. QED
    BY <2>1, <2>2, FS_CardinalityType
<1>7. Cardinality(X) + Cardinality(F) >= Cardinality(R)
  BY <1>1, <1>2, <1>3 DEF Aligned
<1>8. Cardinality(X) <= Cardinality(A)
  <2>1. PICK g : g = [x \in X |-> CHOOSE y \in A : y.call = x.call]
    OBVIOUS
  <2>2. ASSUME NEW x \in X
        PROVE  g[x] \in A /\ g[x].call = x.call
    <3>1. \E y \in A : y.call = x.call
      BY <1>1, <1>2, <1>4
    <3>2. QED
      BY <2>1, <3>1
  <2>3. g \in [X -> A]
    BY <2>1, <2>2
  <2>4. \A x, y \in X : g[x] = g[y] => x = y
    BY <1>5, <2>2 DEF Tracked
  <2>5. g \in Injection(X, A)
    BY <2>3, <2>4 DEF Injection, IsInjective
  <2>6. QED
    BY <1>6, <2>5, FS_Injection
<1>9. A \cap F = {}
  <2> SUFFICES ASSUME NEW y \in A, y \in F
               PROVE  FALSE
    OBVIOUS
  <2>1. y \in R /\ y.id # NoId /\ y.id \notin IdsOf(X)
    BY <1>2, <1>3, <1>5 DEF InFlight, Open
  <2>2. PICK x \in X : x.call = y.call
    BY <1>4
  <2>3. x.id = y.id
    BY <1>5, <2>1, <2>2 DEF Named
  <2>4. y.id \in IdsOf(X)
    BY <2>1, <2>3 DEF IdsOf
  <2>5. QED
    BY <2>1, <2>4
<1>10. Cardinality(A \cup F) = Cardinality(A) + Cardinality(F)
  <2>1. Cardinality(A \cup F) = Cardinality(A) + Cardinality(F) - Cardinality(A \cap F)
    BY <1>6, FS_Union
  <2>2. Cardinality(A \cap F) = 0
    BY <1>9, FS_EmptySet
  <2>3. QED
    BY <1>6, <2>1, <2>2
<1>11. A \cup F = R
  <2>1. A \cup F \subseteq R
    BY <1>5
  <2>2. Cardinality(A \cup F) <= Cardinality(R)
    BY <1>6, <2>1, FS_Subset
  <2>3. Cardinality(A \cup F) = Cardinality(R)
    BY <1>6, <1>7, <1>8, <1>10, <2>2
  <2>4. QED
    BY <1>6, <2>1, <2>3, FS_Subset
<1>12. r \notin A
  BY <1>2, <1>4
<1>13. QED
  BY <1>1, <1>3, <1>11, <1>12

(* PASS compares totals, yet says of every single dispatched call of the     *)
(* window that its result is there or that it is young (PassMeansFinished).  *)
THEOREM PassIsPerCall == Spec => PassMeansFinished
<1>1. DiagnosisInv /\ [Next]_vars
      => [Concludes /\ report'.verdict = "PASS"
          /\ (\A x \in Executed(Seen) : \E r \in Requested(Seen) : r.call = x.call)
          => \A r \in Requested(Seen) :
               (\E x \in Executed(Seen) : x.call = r.call) \/ now - r.ts <= HangSeconds]_vars
  <2> SUFFICES ASSUME DiagnosisInv, [Next]_vars, Concludes, report'.verdict = "PASS",
                      \A x \in Executed(Seen) : \E r \in Requested(Seen) : r.call = x.call,
                      NEW r \in Requested(Seen), \A x \in Executed(Seen) : x.call # r.call
               PROVE  now - r.ts <= HangSeconds
    OBVIOUS
  <2>0. PICK n \in 0..Len(log) : \E lost : WtfAnalyse(n, lost)
    BY OnlyAnalyseConcludes
  <2>1. PICK lost : WtfAnalyse(n, lost)
    BY <2>0
  <2>2. PICK W : W = Frozen(n, lost)
    OBVIOUS
  <2>3. Seen = W /\ cmd.pc = "frozen"
    BY <2>1, <2>2, ReportedWindow
  <2>4. Aligned(W, now)
    BY <2>1, <2>2, ReportedWindow, PassIsAligned
  <2>5. \A e \in W : \E i \in DOMAIN log : e = log[i]
    BY <2>2, <2>3, WindowLogged
  <2>6. \A e \in W : Named(e) /\ e.ts \in Nat
    BY <2>5, LoggedTyped DEF DiagnosisInv, LogInv
  <2>7. \A e, f \in W : Tracked(e) /\ e.type = f.type /\ e.call = f.call => e = f
    BY <2>5 DEF DiagnosisInv, LogInv
  <2>8. IsFiniteSet(W)
    BY <2>2, <2>3, WindowFinite
  <2>9. r \in InFlight(W, now)
    BY <2>3, <2>4, <2>6, <2>7, <2>8, AlignedCovers
  <2>10. r \in W /\ ~(now - r.ts > HangSeconds)
    BY <2>9 DEF InFlight, Hung, Open, Requested, OfType
  <2>11. now \in Nat /\ r.ts \in Nat
    BY <2>6, <2>10 DEF DiagnosisInv, DiagnosisTypeOK
  <2>12. HangSeconds \in Nat
    BY ThresholdAssumption
  <2>13. QED
    BY <2>10, <2>11, <2>12
<1>2. QED
  BY <1>1, DiagnosisInductive, PTL DEF Spec, PassMeansFinished

=============================================================================
