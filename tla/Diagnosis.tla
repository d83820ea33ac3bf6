----------------------------- MODULE Diagnosis ------------------------------
(***************************************************************************)
(* From a tool call to the verdict of `wtf`: Hermes calls the hooks, each    *)
(* hook stamps events and records them, the recorder keeps a part in memory  *)
(* and a part on disk, and a `wtf` command, in the gateway or in a process   *)
(* of its own, freezes both, filters, and classifies what it has.           *)
(*                                                                         *)
(* `call` is what really happened to the tool calls; hooks and commands do   *)
(* not read it. Its counterpart in an event is the field `call`, which the  *)
(* signals never look at.                                                   *)
(***************************************************************************)
EXTENDS Analysis, Sequences, SequencesExt

CONSTANTS
  Sessions,    \* each calls its hooks one after the other
  Calls,       \* tool calls a model may emit
  IdOf,        \* IdOf[c]: the id the server gave the call, or NoId
  ToolOf,      \* ToolOf[c]: the tool it calls
  Keys,        \* pairs of argument and result fingerprints
  Fails,       \* the keys of results that are errors
  Statuses,    \* HTTP statuses of failing requests
  Speeds,      \* how long a response takes
  NoSession,
  NoCall,
  MaxEvents,   \* recorder_max_events
  MaxRows,     \* recorder_max_bytes, in rows
  Retention,   \* recorder_retention_seconds
  Since,       \* the window wtf is asked for
  MaxTime,     \* bound: hooks stop when the clock has got there, or wtf reported
  MaxOthers,   \* bound: hooks that are not about a tool call, pauses, and rows astray
  MaxLost      \* bound: rows on disk that the reader does not get

ASSUME BoundAssumption == {MaxEvents, MaxRows, Retention, Since, MaxLost} \subseteq Nat

VARIABLES
  now,      \* time.time()
  log,      \* all rows of the profile, in the order they entered memory
  flushed,  \* how many rows of the log a reader has found on disk
  hook,     \* hook[s]: the stamped event and the events still to stamp
  call,     \* call[c]: what became of the call, and its session
  others,   \* counts what MaxOthers bounds
  cmd,      \* the wtf command while it runs
  report    \* what it concluded

vars == <<now, log, flushed, hook, call, others, cmd, report>>

All == "all"

(* An event of a call, of a request to the model, or of anything else.      *)
Event(type, s) ==
  [type |-> type, ts |-> 0, session |-> s, tool |-> "unknown", id |-> NoId, key |-> NoKey,
   status |-> 0, wall |-> "none", ttft |-> "none", call |-> NoCall]
CallEvent(type, c, s) ==
  [Event(type, s) EXCEPT !.tool = ToolOf[c], !.id = IdOf[c], !.call = c]

-----------------------------------------------------------------------------
(* Hooks *)

Idle(s) == hook[s].made = <<>> /\ hook[s].todo = <<>>

Running == now < MaxTime /\ cmd.pc # "done"

Other == others < MaxOthers /\ others' = others + 1

(* An event is stamped when the hook builds it, before record() runs.      *)
Build(s, events) ==
  /\ Running
  /\ now' = now + 1
  /\ hook' = [hook EXCEPT ![s] = [made |-> <<[Head(events) EXCEPT !.ts = now + 1]>>,
                                  todo |-> Tail(events)]]
  /\ UNCHANGED <<log, flushed, cmd, report>>

Enter(s, events) == Idle(s) /\ Build(s, events)

(* The calls a response may carry, in its order. *)
Emissions ==
  {q \in UNION {[1..n -> Calls] : n \in 0..Cardinality(Calls)} : IsInjective(q)}

(* The model answered and emitted the calls q. *)
PostApiRequest(s, q, wall) ==
  /\ \A i \in DOMAIN q : call[q[i]].state = "none"
  /\ Enter(s, [i \in DOMAIN q |-> CallEvent("tool.prepared", q[i], s)]
                \o <<[Event("api.response", s) EXCEPT !.wall = wall]>>)
  /\ call' = [c \in Calls |-> IF c \in Range(q) THEN [state |-> "emitted", session |-> s]
                              ELSE call[c]]
  /\ Other

ApiRequestError(s, status) ==
  /\ Enter(s, <<[Event("api.error", s) EXCEPT !.status = status]>>)
  /\ Other
  /\ UNCHANGED call

PreToolCall(c) ==
  /\ call[c].state = "emitted"
  /\ Enter(call[c].session, <<CallEvent("tool.requested", c, call[c].session)>>)
  /\ call' = [call EXCEPT ![c].state = "running"]
  /\ UNCHANGED others

PostToolCall(c, key) ==
  LET s == call[c].session
      e(type) == [CallEvent(type, c, s) EXCEPT !.key = key]
  IN  /\ call[c].state = "running"
      /\ Enter(s, <<e("tool.executed"), e(IF key \in Fails THEN "tool.failed" ELSE "tool.completed")>>)
      /\ call' = [call EXCEPT ![c].state = "finished"]
      /\ UNCHANGED others

(* A turn is interrupted: its calls never run, or never come back.         *)
AgentLoopStopped(s) ==
  /\ Other
  /\ Enter(s, <<Event("other", NoSession)>>)
  /\ call' = [c \in Calls |->
                IF call[c].session = s /\ call[c].state \in {"emitted", "running"}
                THEN [call[c] EXCEPT !.state = "dropped"] ELSE call[c]]

(* The hooks whose events no rule reads: start and end of sessions, turns   *)
(* and model calls, and the start of a request.                            *)
Note(s) ==
  /\ Other
  /\ Enter(s, <<Event("other", s)>>)
  /\ UNCHANGED call

Stamp(s) ==
  /\ hook[s].made = <<>> /\ hook[s].todo # <<>>
  /\ Build(s, hook[s].todo)
  /\ UNCHANGED <<call, others>>

-----------------------------------------------------------------------------
(* Recorder *)

Record(s) ==
  /\ cmd.pc # "done"
  /\ hook[s].made # <<>>
  /\ hook' = [hook EXCEPT ![s].made = <<>>]
  /\ log' = Append(log, hook[s].made[1])
  /\ UNCHANGED <<now, flushed, call, others, cmd, report>>

(* The row is filed under the working directory, where no wtf of the profile *)
(* looks, because HERMES_HOME could not be found; or record() failed.       *)
RecordAstray(s) ==
  /\ cmd.pc # "done"
  /\ Other
  /\ hook[s].made # <<>>
  /\ hook' = [hook EXCEPT ![s].made = <<>>]
  /\ UNCHANGED <<now, log, flushed, call, cmd, report>>

(* _trim_locked drops rows from the head of memory while the head is too    *)
(* old or there are too many rows. A row once dropped would be dropped at    *)
(* any later time, so what memory holds follows from the log and the clock. *)
Kept(i) ==
  /\ Len(log) - i < MaxEvents /\ Len(log) - i < MaxRows
  /\ log[i].ts >= now - Retention
Memory == {log[i] : i \in {j \in DOMAIN log : \E h \in 1..j : Kept(h)}}

(* Nothing happens for a while. *)
Tick ==
  /\ Running
  /\ Other
  /\ now' = now + HangSeconds
  /\ UNCHANGED <<log, flushed, hook, call, cmd, report>>

-----------------------------------------------------------------------------
(* wtf *)

InScope(e, scope) == scope = All \/ e.session \in {NoSession, scope}

(* The newest n events. *)
Newest(S, n) == {e \in S : Cardinality({f \in S : f.ts > e.ts}) < n}

NoCommand == [pc |-> "idle", scope |-> All, seen |-> 0, at |-> 0, memory |-> {}]

(* The flusher thread writes rows in log order, when it likes. How far it    *)
(* got matters only to a reader, and is chosen when one looks.              *)
Written(n) == flushed' = n /\ n \in flushed..Len(log)

(* freeze_detailed in the gateway flushes, then copies the part of memory    *)
(* that is asked for under the lock: the log may have grown since the flush, *)
(* of which only the n rows it wrote remain. A command line process has      *)
(* nothing to flush and nothing in memory, and n is what is on disk.         *)
WtfFreeze(gateway, scope, n) ==
  /\ cmd.pc = "idle"
  /\ Written(n)
  /\ cmd' = [pc     |-> "frozen",
             scope  |-> scope,
             seen   |-> n,
             at     |-> now,
             memory |-> {e \in Memory : gateway /\ e.ts >= now - Since /\ InScope(e, scope)}]
  /\ UNCHANGED <<now, log, hook, call, others, report>>

(* A row is within the byte budget of the reader when few enough of the rows *)
(* that are left lie behind it.                                            *)
Near(i, n, lost) == Cardinality((i + 1 .. n) \ lost) < MaxRows

(* load_recent_persisted_events: the newest MaxRows of the n rows on disk,  *)
(* of these the ones of the window and the session, of these the newest     *)
(* MaxEvents. The rows `lost` were never on disk or did not reach the        *)
(* reader: a batch that could not be appended or was torn, a file deleted by *)
(* a cleanup or that could not be read, the head of a file that grew between *)
(* the two stats of the reader, the row that the cut falls on.              *)
Cutoff == Max({cmd.at - Retention, cmd.at - Since})
Persisted(n, lost) ==
  Newest({e \in {log[i] : i \in {j \in (1..n) \ lost : Near(j, n, lost)}} :
            e.ts >= Cutoff /\ e.ts <= cmd.at + 300 /\ InScope(e, cmd.scope)},
         MaxEvents)

(* merge_events and the cap after it. *)
Frozen(n, lost) == Newest(cmd.memory \cup Persisted(n, lost), MaxEvents)

(* The lost rows that memory did not make up for.                           *)
Missed(lost) == {i \in lost : log[i] \notin cmd.memory}

(* As if a full window were a complete one.                                 *)
TruncatedPast(W) == Cardinality(W) > MaxEvents

Truncated(W) == Cardinality(W) >= MaxEvents

(* The rest of run_wtf: it reads the disk, and the signals take the time     *)
(* again. `missed` is kept for the properties only.                         *)
WtfAnalyse(n, lost) ==
  /\ cmd.pc = "frozen"
  /\ Cardinality(lost) <= MaxLost
  /\ Written(n)
  /\ cmd' = [NoCommand EXCEPT !.pc = "done"]
  /\ \E W \in {Frozen(n, lost)} : \E rule \in {Classify(W, now)} :
       report' = [window  |-> W,
                  rule    |-> rule,
                  verdict |-> Verdict(W, rule, Truncated(W)),
                  saved   |-> ~SkipSaving(W, rule),
                  missed  |-> Missed(lost)]
  /\ UNCHANGED <<now, log, hook, call, others>>

-----------------------------------------------------------------------------
(* The log begins after rows that no window reaches any more: calls may     *)
(* already be under way.                                                    *)
Init ==
  /\ now = 0 /\ log = <<>> /\ flushed = 0 /\ others = 0
  /\ hook = [s \in Sessions |-> [made |-> <<>>, todo |-> <<>>]]
  /\ call \in [Calls -> [state : {"none"}, session : {NoSession}]
                         \cup [state : {"emitted", "running"}, session : Sessions]]
  /\ cmd = NoCommand
  /\ report = [window |-> {}, rule |-> "none", verdict |-> "none", saved |-> FALSE,
               missed |-> {}]

Next ==
  \/ \E s \in Sessions, q \in Emissions, w \in Speeds : PostApiRequest(s, q, w)
  \/ \E s \in Sessions, status \in Statuses : ApiRequestError(s, status)
  \/ \E c \in Calls : PreToolCall(c)
  \/ \E c \in Calls, k \in Keys : PostToolCall(c, k)
  \/ \E s \in Sessions : AgentLoopStopped(s)
  \/ \E s \in Sessions : Note(s)
  \/ \E s \in Sessions : Stamp(s)
  \/ \E s \in Sessions : Record(s)
  \/ \E s \in Sessions : RecordAstray(s)
  \/ Tick
  \/ \E gateway \in BOOLEAN, scope \in Sessions \cup {All}, n \in 0..Len(log) :
       WtfFreeze(gateway, scope, n)
  \/ \E n \in 0..Len(log) : \E lost \in SUBSET (1..n) : WtfAnalyse(n, lost)

Spec == Init /\ [][Next]_vars

-----------------------------------------------------------------------------
(* Properties *)

Types == {"tool.prepared", "tool.requested", "tool.executed", "tool.completed",
          "tool.failed", "api.response", "api.error", "other"}

Events ==
  [type : Types, ts : Nat, session : Sessions \cup {NoSession},
   tool : {ToolOf[c] : c \in Calls} \cup {"unknown"}, id : {IdOf[c] : c \in Calls} \cup {NoId},
   key : Keys \cup {NoKey}, status : Statuses \cup {0},
   wall : Speeds \cup {"none"}, ttft : {"none"}, call : Calls \cup {NoCall}]

(* The state has the shape the recorder and the command give it: memory is  *)
(* an end of the log, disk a beginning, and a freeze holds events.          *)
DiagnosisTypeOK ==
  /\ now \in Nat /\ others \in Nat
  /\ log \in Seq(Events)
  /\ flushed \in 0..Len(log)
  /\ hook \in [Sessions -> [made : Seq(Events), todo : Seq(Events)]]
  /\ call \in [Calls -> [state : {"none"}, session : {NoSession}]
                         \cup [state : {"emitted", "running", "finished", "dropped"},
                               session : Sessions]]
  /\ cmd \in [pc : {"idle", "frozen", "done"}, scope : Sessions \cup {All},
              seen : 0..Len(log), at : Nat, memory : SUBSET Events]
  /\ report \in [window : SUBSET Events, rule : Range(Rules) \cup {"fallback", "none"},
                 verdict : {"none", "PASS", "FAIL", "UNKNOWN"}, saved : BOOLEAN,
                 missed : SUBSET Nat]

(* The step in which wtf reports, from the window Seen.        *)
Concludes == cmd.pc = "frozen" /\ cmd'.pc = "done"
Seen == report'.window

(* A call is taken for hung only if its result was nowhere to be found when *)
(* wtf was called, or the disk did not give it to the reader: neither       *)
(* trimming, nor the window, nor the session, nor the caps of the freeze     *)
(* (store.py:442-518) separate a result from its request, and a reused id    *)
(* hides no result. Nothing tells wtf of the rows it missed.                *)
HangIsReal ==
  [][Concludes =>
       \A e \in Hung(Seen, now) : \A i \in 1..cmd.seen :
         log[i].type = "tool.executed" /\ log[i].call = e.call => i \in report'.missed]_vars

(* PASS means what rules.py:245 says, though the rule only compares totals: *)
(* every dispatched call of the window has its own result in it or is still  *)
(* young, with or without ids, as long as the window holds the request of    *)
(* each execution it holds.                                                 *)
PassMeansFinished ==
  [][Concludes /\ report'.verdict = "PASS"
     /\ (\A x \in Executed(Seen) : \E r \in Requested(Seen) : r.call = x.call)
     => \A r \in Requested(Seen) :
          (\E x \in Executed(Seen) : x.call = r.call) \/ now - r.ts <= HangSeconds]_vars

(* PASS is never given for a window from which a cap on the number of       *)
(* events took something (wtf.py:57, docs/CLASSIFICATION.md): what was      *)
(* there, is in the window and in scope was read, or lies beyond the byte   *)
(* budget of the reader, or was missed. The test for truncation notices      *)
(* neither of the last two.                                                 *)
PassNotCut ==
  [][Concludes /\ report'.verdict = "PASS"
     => \A i \in 1..cmd.seen :
          (log[i].ts >= Cutoff /\ InScope(log[i], cmd.scope))
          => (log[i] \in Seen \/ i <= flushed' - MaxRows \/ i \in report'.missed)]_vars

(* Where the log shows what the agent of session s executed.                *)
Ran(s) == {i \in DOMAIN log : log[i].type = "tool.executed" /\ log[i].session = s}

(* While a freeze copied and read, no more events came than the recorder     *)
(* keeps in memory and the reader takes from disk; or only disk was read.   *)
KeptUp == cmd.memory = {} \/ Len(log) - cmd.seen <= Min({MaxEvents, MaxRows})

(* "In a row" (rules.py:140): when wtf says tool_loop, one session really   *)
(* executed the same tool with the same arguments and result that many      *)
(* times, and any other execution of the session in between was missed, as   *)
(* long as the freeze kept up with the log: else the part from memory and    *)
(* the part from disk have a gap between them. The signals see neither the   *)
(* gap nor what was missed.                                                 *)
LoopIsReal ==
  [][Concludes /\ report'.rule = "tool_loop" /\ KeptUp
     => \E s \in Sessions : \E i, j \in Ran(s) :
          LET streak == (Ran(s) \cap i..j) \ report'.missed
          IN  /\ Cardinality(streak) >= LoopStreak
              /\ log[i].tool \notin Pollers
              /\ \A k \in streak : log[k].tool = log[i].tool /\ log[k].key = log[i].key]_vars

(* docs/CLASSIFICATION.md, row 6: failure_storm fires when "one tool failed *)
(* >= 5 times, and >= 50% of its executions", whichever tool that is; a rule *)
(* above it is a FAIL as well.                                             *)
StormIsFound ==
  [][Concludes /\ (\E e \in Failed(Seen) : Storming(Seen, e.tool))
     => report'.verdict = "FAIL"]_vars

=============================================================================
