------------------------------ MODULE Analysis ------------------------------
(***************************************************************************)
(* What `wtf` concludes from a window of recorder events: the signals       *)
(* (incident/signals.py), the rules in their order (incident/rules.py) and  *)
(* the verdict (commands/wtf.py). A window is a set of events with distinct  *)
(* timestamps, which is all that sorting by timestamp leaves of a list.     *)
(* The thresholds of the rules are constants, so that small windows reach   *)
(* them.                                                                    *)
(***************************************************************************)
EXTENDS Integers, FiniteSets, FiniteSetsExt

CONSTANTS
  NoId,          \* an event without a tool call id
  NoKey,         \* an execution without an argument fingerprint
  Pollers,       \* tools that may repeat themselves
  LoopStreak,    \* loop_streak_threshold
  HangSeconds,   \* HANG_SECONDS
  ManyRejected,  \* 429s that make a rate limit
  ManyErrors,    \* 5xx or unanswered requests that make a server failure
  ManyFailed,    \* failures that make a storm
  ManyPrepared,  \* prepared calls from which a few dispatched ones are too few
  FewDispatched, \* ... and how few
  ManyMissing,   \* prepared ids that were never dispatched
  Samples        \* responses needed to judge the model's speed

ASSUME ThresholdAssumption ==
  /\ {LoopStreak, HangSeconds, ManyRejected, ManyErrors, ManyFailed,
      ManyPrepared, FewDispatched, ManyMissing, Samples} \subseteq Nat
  /\ LoopStreak > 0

-----------------------------------------------------------------------------
(* Signals *)

OfType(W, type) == {e \in W : e.type = type}

Prepared(W)  == OfType(W, "tool.prepared")
Requested(W) == OfType(W, "tool.requested")
Executed(W)  == OfType(W, "tool.executed")
Failed(W)    == OfType(W, "tool.failed")

IdsOf(S) == {e.id : e \in S} \ {NoId}

OfTool(S, tool) == Cardinality({e \in S : e.tool = tool})

(* The statuses that _status_bucket keeps apart; 0 is no answer at all. *)
Errors(W, statuses) == Cardinality({e \in OfType(W, "api.error") : e.status \in statuses})

Undispatched(W) == IdsOf(Prepared(W)) \ IdsOf(Requested(W))

(* As if an execution did not answer its request.                           *)
OpenForever(W) ==
  {e \in Requested(W) : e.id # NoId /\ \A f \in Requested(W) : f.id = e.id => f.ts <= e.ts}

(* requested_ids keeps the last request of an id, and only ids that no     *)
(* execution carries stay open.                                            *)
Open(W) ==
  {e \in Requested(W) :
     /\ e.id # NoId
     /\ e.id \notin IdsOf(Executed(W))
     /\ \A f \in Requested(W) : f.id = e.id => f.ts <= e.ts}

Hung(W, now)     == {e \in Open(W) : now - e.ts > HangSeconds}
InFlight(W, now) == Open(W) \ Hung(W, now)

(* As if repetitions were counted over all sessions.                        *)
RunOfAll(W) ==
  LET X == Executed(W)
      Earlier(e) == {f \in X : f.ts < e.ts}
      Last(S) == CHOOSE e \in S : \A f \in S : f.ts <= e.ts
      run[e \in X] ==
        IF e.key = NoKey THEN 0
        ELSE IF Earlier(e) = {} THEN 1
        ELSE LET p == Last(Earlier(e))
             IN  IF p.tool = e.tool /\ p.key = e.key THEN run[p] + 1 ELSE 1
  IN  run

(* Run(W)[e] is the number of identical executions that end in e: the run   *)
(* kept per session in streak_state when e has been counted.               *)
Run(W) ==
  LET X == Executed(W)
      Earlier(e) == {f \in X : f.session = e.session /\ f.ts < e.ts}
      Last(S) == CHOOSE e \in S : \A f \in S : f.ts <= e.ts
      run[e \in X] ==
        IF e.key = NoKey THEN 0
        ELSE IF Earlier(e) = {} THEN 1
        ELSE LET p == Last(Earlier(e))
             IN  IF p.tool = e.tool /\ p.key = e.key THEN run[p] + 1 ELSE 1
  IN  run

Longest(W) == Max({0} \cup {Run(W)[e] : e \in {x \in Executed(W) : x.tool \notin Pollers}})

(* percentile(values, 0.95) is above a limit when the sample of that rank is. *)
Rank95(n) == (95 * n + 99) \div 100
P95Slow(S, field) ==
  LET seen == {e \in S : e[field] # "none"}
      slow == {e \in S : e[field] = "slow"}
      n    == Cardinality(seen)
  IN  n >= Samples /\ n > 0 /\ Cardinality(slow) > n - Rank95(n)

-----------------------------------------------------------------------------
(* Rules *)

AuthFailure(W)  == Errors(W, {401, 403}) >= 1
RateLimited(W)  == Errors(W, {429}) >= ManyRejected
ServerErrors(W) == Errors(W, {0} \cup 500..599) >= ManyErrors
ToolHang(W, now) == Hung(W, now) # {}
ToolLoop(W) == Longest(W) >= LoopStreak

(* The tool with most failures; of several, the one that failed first. *)
Worst(W) ==
  LET FailuresOf(t) == OfTool(Failed(W), t)
      First(t) == CHOOSE e \in Failed(W) :
                    e.tool = t /\ \A f \in Failed(W) : f.tool = t => e.ts <= f.ts
      tools == {e.tool : e \in Failed(W)}
  IN  CHOOSE t \in tools : \A u \in tools :
        FailuresOf(u) < FailuresOf(t) \/ (FailuresOf(u) = FailuresOf(t) /\ First(t).ts <= First(u).ts)

Storming(W, tool) ==
  LET failed == OfTool(Failed(W), tool)
  IN  failed >= ManyFailed /\ 2 * failed >= OfTool(Executed(W), tool)

FailureStorm(W) == Failed(W) # {} /\ Storming(W, Worst(W))

NotDispatched(W) ==
  LET prepared   == Cardinality(Prepared(W))
      dispatched == Max({Cardinality(Requested(W)), Cardinality(Executed(W))})
  IN  \/ /\ prepared >= ManyPrepared
         /\ dispatched <= FewDispatched \/ 100 * dispatched <= 15 * prepared
      \/ Cardinality(Undispatched(W)) >= ManyMissing

SlowModel(W) ==
  LET answers == OfType(W, "api.response")
  IN  P95Slow(answers, "wall") \/ P95Slow(answers, "ttft")

Quiet(W) ==
  {e \in W : e.type \in {"tool.prepared", "tool.requested", "tool.executed",
                         "api.error", "api.response"}} = {}

(* As if a reused id were one request.                                      *)
AlignedIds(W, now) ==
  Requested(W) # {} =>
    Cardinality(Executed(W)) + Cardinality(InFlight(W, now)) >= Cardinality(IdsOf(Requested(W)))

Aligned(W, now) ==
  /\ Requested(W) # {} =>
       Cardinality(Executed(W)) + Cardinality(InFlight(W, now)) >= Cardinality(Requested(W))
  /\ Requested(W) = {} /\ Prepared(W) # {} =>
       Cardinality(Executed(W)) = Cardinality(Prepared(W))

Rules == <<"auth_failure", "rate_limited", "server_errors", "tool_hang", "tool_loop",
           "failure_storm", "not_dispatched", "slow_model", "quiet", "aligned">>

Fires(W, now) ==
  [auth_failure   |-> AuthFailure(W),
   rate_limited   |-> RateLimited(W),
   server_errors  |-> ServerErrors(W),
   tool_hang      |-> ToolHang(W, now),
   tool_loop      |-> ToolLoop(W),
   failure_storm  |-> FailureStorm(W),
   not_dispatched |-> NotDispatched(W),
   slow_model     |-> SlowModel(W),
   quiet          |-> Quiet(W),
   aligned        |-> Aligned(W, now)]

(* As if the list of rules had no end of its own.                           *)
ClassifyOrNone(W, now) ==
  LET fires == Fires(W, now)
      hits  == {i \in DOMAIN Rules : fires[Rules[i]]}
  IN  IF hits = {} THEN "unmatched" ELSE Rules[Min(hits)]

(* The first rule that fires. *)
Classify(W, now) ==
  LET fires == Fires(W, now)
      hits  == {i \in DOMAIN Rules : fires[Rules[i]]}
  IN  IF hits = {} THEN "fallback" ELSE Rules[Min(hits)]

-----------------------------------------------------------------------------
(* Verdict *)

(* The rules whose classification is UNKNOWN or EXPECTED_BEHAVIOUR; all of  *)
(* them are of low severity.                                               *)
Unclassified(W, rule) ==
  \/ rule = "quiet"
  \/ /\ rule = "fallback"
     /\ Cardinality(Executed(W)) >=
          Max({Cardinality(Requested(W)), Cardinality(Prepared(W))})

Verdict(W, rule, truncated) ==
  IF W = {} \/ Unclassified(W, rule) THEN "UNKNOWN"
  ELSE IF rule = "aligned" THEN IF truncated THEN "UNKNOWN" ELSE "PASS"
  ELSE "FAIL"

SkipSaving(W, rule) == Unclassified(W, rule) \/ rule = "aligned"

=============================================================================
