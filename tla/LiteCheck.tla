------------------------------- MODULE LiteCheck -------------------------------
(***************************************************************************)
(* Minefield Lite: `check` tests an endpoint and caches its verdict under a *)
(* fingerprint (cache.py), `status` reports it, `doctor` tests without the  *)
(* cache, and auto_lite.py runs one check per process in the background.    *)
(* The cache is one JSON file shared by every process and thread, read and  *)
(* written without a lock: put_entry reads it whole, changes its copy, and  *)
(* replaces the file.                                                       *)
(*                                                                          *)
(* The probes themselves belong to the external package `minefield`: a run  *)
(* of them is any Result. Time is counted in days, and only a fingerprint   *)
(* of an endpoint is stored, never its host: two endpoints may share one.   *)
(***************************************************************************)
EXTENDS Integers, FiniteSets

CONSTANTS
  Procs,         (* processes sharing the minefield directory                *)
  Targets,       (* endpoints a command may test                             *)
  Fingerprints,
  Fp,            (* the fingerprint of each endpoint                         *)
  Slots,         (* how many inference slots each endpoint reports, 0: none  *)
  TTL,           (* fingerprint_cache_ttl_days                               *)
  MaxEntries,    (* 200 in cache.py                                          *)
  Drop,          (* 50 in cache.py                                           *)
  MaxTime, MaxRuns  (* bounds of the model                                   *)

ASSUME TargetsAssumption ==
  /\ Fp \in [Targets -> Fingerprints]
  /\ Slots \in [Targets -> Nat]

ASSUME CacheAssumption ==
  /\ {TTL, MaxEntries} \subseteq Nat
  /\ Drop \in 1..MaxEntries

ASSUME LiteBoundsAssumption == {MaxTime, MaxRuns} \subseteq Nat

VARIABLES
  now,       (* the wall clock                                               *)
  target,    (* the endpoint Hermes is configured for                        *)
  cache,     (* fingerprint_cache.json                                       *)
  auto,      (* _started of auto_lite.py, per process                        *)
  cmd,       (* the command each thread is in                                *)
  shown,     (* what the last step showed to a user, if it did               *)
  runs       (* how many runs of probes were started, for the bound          *)

vars == <<now, target, cache, auto, cmd, shown, runs>>

(* A process runs commands in the foreground and one thread of auto_lite. *)
Threads == Procs \X {"front", "auto"}
IsFront(t) == t[2] = "front"

NoTarget == "none"

-----------------------------------------------------------------------------
(* Verdicts. Findings are reduced to the set of levels that occur, counts to *)
(* the set of those that are not zero. A finding of another level (SKIPPED,  *)
(* N/A, ERROR or none at all) is shown to the user, but counted nowhere.     *)

Buckets == {"clean", "problem", "inconclusive"}
Levels == Buckets \cup {"other"}
Verdicts == {"PASS", "FAIL", "UNKNOWN"}

CleanMeansPass(counts) ==
  IF "problem" \in counts THEN "FAIL"
  ELSE IF "clean" \in counts THEN "PASS" ELSE "UNKNOWN"

FromCounts(counts) ==
  IF "problem" \in counts THEN "FAIL"
  ELSE IF "clean" \in counts /\ "inconclusive" \notin counts THEN "PASS"
  ELSE "UNKNOWN"

(* Counts that are all zero are derived from the findings again. *)
Counts(counts, found) == IF counts = {} THEN found \cap Buckets ELSE counts

(* What the external run_checks and summarize may give: how the run ended,   *)
(* whether it sent a request, its findings, and counts that agree with them  *)
(* or are missing.                                                           *)
Results ==
  {r \in [ending : {"complete", "over_budget", "capped", "unreachable"},
          sent : BOOLEAN, found : SUBSET Levels, counts : SUBSET Buckets] :
     r.counts \in {{}, r.found \cap Buckets}}

CapForgotten(r) ==
  \/ r.ending \in {"over_budget", "unreachable"}
  \/ ~r.sent /\ r.found = {}

(* evaluate_run returns no summary: the run is reported, never cached. *)
Discarded(r) ==
  \/ r.ending # "complete"
  \/ ~r.sent /\ r.found = {}

VerdictOf(r) ==
  IF Discarded(r) THEN "UNKNOWN" ELSE FromCounts(Counts(r.counts, r.found))

(* The reference: a run is evidence of a healthy endpoint if it was finished, *)
(* found something clean, nothing wrong and nothing unresolved. verdict.py:5  *)
(* says more, that every finding is clean: a finding of another level is not, *)
(* and the code gives PASS beside it.                                         *)
NothingWrong(found) == found \cap Buckets = {"clean"}
Evidence(r) == r.ending = "complete" /\ NothingWrong(r.found)

-----------------------------------------------------------------------------
(* The cache. An entry of an older release has no verdict, only findings and *)
(* possibly no counts; `of` and `evidence` are history: the endpoint it came *)
(* from, and whether that run was evidence.                                  *)

Entry == [verdict : Verdicts \cup {"missing"}, found : SUBSET Levels,
          counts : SUBSET Buckets, at : Int, of : Targets, evidence : BOOLEAN]
NoEntry == [verdict |-> "absent", found |-> {}, counts |-> {}, at |-> 0,
            of |-> NoTarget, evidence |-> FALSE]

(* fingerprint_for_hermes_target: model, scheme and path, but not the host.  *)
Key(tgt) == Fp[tgt]

EmptyCache == [f \in Fingerprints |-> NoEntry]
Cached(c) == {f \in Fingerprints : c[f] # NoEntry}

IsFresh(e) == now - e.at <= TTL

StoredVerdict(e) == e.verdict

CachedVerdict(e) ==
  IF e.verdict \in Verdicts THEN e.verdict ELSE FromCounts(Counts(e.counts, e.found))

OneTooMany(c) == Cardinality(Cached(c)) > MaxEntries + 1
Overfull(c) == Cardinality(Cached(c)) > MaxEntries

(* The Drop entries checked longest ago; ties are broken either way. *)
OldestSets(c) ==
  {D \in SUBSET Cached(c) :
     /\ Cardinality(D) = Drop
     /\ \A f \in D, g \in Cached(c) \ D : c[f].at <= c[g].at}

(* What put_entry may make of the file it read. *)
WithEntry(c, f, e) ==
  LET put == [c EXCEPT ![f] = e]
  IN IF Overfull(put)
     THEN {[g \in Fingerprints |-> IF g \in D THEN NoEntry ELSE put[g]] : D \in OldestSets(put)}
     ELSE {put}

-----------------------------------------------------------------------------
(* What a user sees: the command, its verdict, its exit code, the endpoint   *)
(* it was asked about and, as history, the endpoint that was tested and      *)
(* whether evidence that is fresh stands behind it.                          *)

ExitCode(verdict, ok) ==
  CASE verdict = "UNKNOWN" -> 3
    [] verdict = "FAIL"    -> 1
    [] verdict = "PASS"    -> 0
    [] OTHER               -> IF ok THEN 0 ELSE 1
Blocked == 2

Display(name, verdict, exit, t, of, backed) ==
  [cmd |-> name, verdict |-> verdict, exit |-> exit, target |-> t, of |-> of, backed |-> backed]
Nothing == Display("none", "missing", Blocked, NoTarget, NoTarget, FALSE)

(* auto_lite drops what run_check returns. *)
Show(t, d) == shown' = IF IsFront(t) THEN d ELSE Nothing

ShowUnknown(t, name, tgt) == Show(t, Display(name, "UNKNOWN", 3, tgt, tgt, FALSE))

-----------------------------------------------------------------------------
(* A thread between commands, or in one: the endpoint resolved for it, the   *)
(* one auto_lite asked for its slots, whether a user asked for the traffic,  *)
(* the entry to put and the changed copy of the cache.                       *)

Idle == [pc |-> "idle", target |-> NoTarget, probed |-> NoTarget, asked |-> FALSE,
         entry |-> NoEntry, copy |-> EmptyCache]

Goto(t, s) == cmd' = [cmd EXCEPT ![t] = s]
At(t, pc) == cmd[t].pc = pc

(* A check begins when a user calls it, or after auto_lite found slots. *)
MayCheck(t) == At(t, IF IsFront(t) THEN "idle" ELSE "check")

(* resolve_target raised ValueError. *)
Unresolved(t, name) ==
  /\ IF name = "check" THEN MayCheck(t) ELSE IsFront(t) /\ At(t, "idle")
  /\ Goto(t, Idle)
  /\ ShowUnknown(t, name, NoTarget)
  /\ UNCHANGED <<now, target, cache, auto, runs>>

(* A foreground check may name its endpoint, auto_lite resolves the one that *)
(* is configured, for the second time.                                       *)
Resolves(t, tgt) == IsFront(t) \/ tgt = target

Hit(tgt) == cache[Key(tgt)] # NoEntry /\ IsFresh(cache[Key(tgt)])

CheckHit(t, tgt) ==
  LET e == cache[Key(tgt)] IN
  /\ MayCheck(t) /\ Resolves(t, tgt)
  /\ Hit(tgt)
  /\ Show(t, Display("check", CachedVerdict(e), ExitCode(CachedVerdict(e), TRUE),
                     tgt, e.of, e.evidence /\ now - e.at <= TTL))
  /\ Goto(t, Idle)
  /\ UNCHANGED <<now, target, cache, auto, runs>>

(* --force skips the lookup; auto_lite never passes it. *)
CheckRuns(t, tgt, force) ==
  /\ MayCheck(t) /\ Resolves(t, tgt)
  /\ IF force THEN IsFront(t) ELSE ~Hit(tgt)
  /\ runs < MaxRuns
  /\ runs' = runs + 1
  /\ Goto(t, [Idle EXCEPT !.pc = "probing", !.target = tgt, !.probed = cmd[t].probed,
                          !.asked = IsFront(t)])
  /\ shown' = Nothing
  /\ UNCHANGED <<now, target, cache, auto>>

(* run_checks returns: the outcome is reported, or an entry made of it. *)
CheckDiscards(t, r) ==
  /\ At(t, "probing")
  /\ Discarded(r)
  /\ ShowUnknown(t, "check", cmd[t].target)
  /\ Goto(t, Idle)
  /\ UNCHANGED <<now, target, cache, auto, runs>>

(* Findings and counts of an entry that has its verdict are never evaluated  *)
(* again, and left out.                                                      *)
NewEntry(t, r) ==
  [verdict |-> VerdictOf(r), found |-> {}, counts |-> {}, at |-> now,
   of |-> cmd[t].target, evidence |-> Evidence(r)]

CheckEvaluates(t, r) ==
  /\ At(t, "probing")
  /\ ~Discarded(r)
  /\ Goto(t, [cmd[t] EXCEPT !.pc = "put", !.entry = NewEntry(t, r)])
  /\ shown' = Nothing
  /\ UNCHANGED <<now, target, cache, auto, runs>>

(* put_entry: load_cache and the changes to the copy, then save_cache. *)
PutRead(t) ==
  /\ At(t, "put")
  /\ \E c \in WithEntry(cache, Key(cmd[t].target), cmd[t].entry) :
       Goto(t, [cmd[t] EXCEPT !.pc = "save", !.copy = c])
  /\ shown' = Nothing
  /\ UNCHANGED <<now, target, cache, auto, runs>>

PutWrite(t) ==
  LET e == cmd[t].entry IN
  /\ At(t, "save")
  /\ cache' = cmd[t].copy
  /\ Show(t, Display("check", e.verdict, ExitCode(e.verdict, TRUE), cmd[t].target,
                     e.of, e.evidence))
  /\ Goto(t, Idle)
  /\ UNCHANGED <<now, target, auto, runs>>

(* Anything raised on the way: dispatch turns a missing core and a plan over *)
(* the budget into UNKNOWN, all else into a failure without a verdict;       *)
(* auto_lite logs it.                                                        *)
CommandFails(t, verdict) ==
  /\ ~At(t, "idle")
  /\ verdict = "UNKNOWN" => cmd[t].pc \in {"probing", "doctor"}
  /\ Show(t, Display("any", verdict, ExitCode(verdict, FALSE), cmd[t].target,
                     cmd[t].target, FALSE))
  /\ Goto(t, Idle)
  /\ UNCHANGED <<now, target, cache, auto, runs>>

-----------------------------------------------------------------------------
(* status reads the cache without the TTL and marks what is stale. Its exit  *)
(* code says nothing of the verdict.                                         *)
Status(t, tgt) ==
  LET e == cache[Key(tgt)] IN
  /\ IsFront(t) /\ At(t, "idle")
  /\ e # NoEntry
  /\ shown' = Display("status", IF IsFresh(e) THEN CachedVerdict(e) ELSE "UNKNOWN", 0,
                      tgt, e.of, e.evidence /\ now - e.at <= TTL)
  /\ UNCHANGED <<now, target, cache, auto, cmd, runs>>

ClearCache(t) ==
  /\ IsFront(t) /\ At(t, "idle")
  /\ cache' = EmptyCache
  /\ shown' = Nothing
  /\ UNCHANGED <<now, target, auto, cmd, runs>>

-----------------------------------------------------------------------------
(* probe_concurrency asks twice and gives up: the slots, or 0 for unknown. *)
Reported(tgt) == {Slots[tgt], 0}

UnknownIsEnough(slots) == slots # 1
ManySlots(slots) == slots >= 2

DoctorBlocked(t, tgt) ==
  /\ IsFront(t) /\ At(t, "idle")
  /\ \E slots \in Reported(tgt) : ~ManySlots(slots)
  /\ shown' = Display("doctor", "UNKNOWN", Blocked, tgt, tgt, FALSE)
  /\ UNCHANGED <<now, target, cache, auto, cmd, runs>>

DoctorRuns(t, tgt, yes) ==
  /\ IsFront(t) /\ At(t, "idle")
  /\ yes \/ \E slots \in Reported(tgt) : ManySlots(slots)
  /\ runs < MaxRuns
  /\ runs' = runs + 1
  /\ Goto(t, [Idle EXCEPT !.pc = "doctor", !.target = tgt, !.probed = tgt, !.asked = yes])
  /\ shown' = Nothing
  /\ UNCHANGED <<now, target, cache, auto>>

DoctorReports(t, r) ==
  /\ At(t, "doctor")
  /\ Show(t, Display("doctor", VerdictOf(r), ExitCode(VerdictOf(r), ~Discarded(r)),
                     cmd[t].target, cmd[t].target, Evidence(r)))
  /\ Goto(t, Idle)
  /\ UNCHANGED <<now, target, cache, auto, runs>>

-----------------------------------------------------------------------------
(* auto_lite: maybe_start takes the flag under its lock, the thread looks    *)
(* the configured endpoint up, asks it for its slots and calls run_check.    *)
SessionStart(p) ==
  /\ ~auto[p]
  /\ auto' = [auto EXCEPT ![p] = TRUE]
  /\ Goto(<<p, "auto">>, [Idle EXCEPT !.pc = "lookup"])
  /\ shown' = Nothing
  /\ UNCHANGED <<now, target, cache, runs>>

AutoLookup(t) ==
  /\ At(t, "lookup")
  /\ Goto(t, IF Hit(target) THEN Idle ELSE [Idle EXCEPT !.pc = "slots", !.target = target])
  /\ shown' = Nothing
  /\ UNCHANGED <<now, target, cache, auto, runs>>

AutoSlots(t) ==
  /\ At(t, "slots")
  /\ \E slots \in Reported(cmd[t].target) :
       Goto(t, IF ManySlots(slots) THEN [Idle EXCEPT !.pc = "check", !.probed = cmd[t].target]
               ELSE Idle)
  /\ shown' = Nothing
  /\ UNCHANGED <<now, target, cache, auto, runs>>

-----------------------------------------------------------------------------
(* The environment: another model or provider is selected, days pass, a      *)
(* process ends and starts again.                                            *)
Switch(tgt) ==
  /\ tgt # target
  /\ target' = tgt
  /\ shown' = Nothing
  /\ UNCHANGED <<now, cache, auto, cmd, runs>>

Tick ==
  /\ now < MaxTime
  /\ now' = now + 1
  /\ shown' = Nothing
  /\ UNCHANGED <<target, cache, auto, cmd, runs>>

Restart(p) ==
  /\ auto' = [auto EXCEPT ![p] = FALSE]
  /\ cmd' = [t \in Threads |-> IF t[1] = p THEN Idle ELSE cmd[t]]
  /\ shown' = Nothing
  /\ UNCHANGED <<now, target, cache, runs>>

-----------------------------------------------------------------------------
(* An older release left nothing, or entries that agree with what it found. *)
Legacy(tgt, found, counts) ==
  [verdict |-> "missing", found |-> found, counts |-> counts, at |-> 0, of |-> tgt,
   evidence |-> NothingWrong(found)]

Init ==
  /\ now = 0
  /\ target \in Targets
  /\ \/ cache = EmptyCache
     \/ \E tgt \in Targets, found \in SUBSET Levels :
          \E counts \in {{}, found \cap Buckets} :
            cache = [EmptyCache EXCEPT ![Key(tgt)] = Legacy(tgt, found, counts)]
  /\ auto = [p \in Procs |-> FALSE]
  /\ cmd = [t \in Threads |-> Idle]
  /\ shown = Nothing
  /\ runs = 0

Next ==
  \/ \E t \in Threads :
       \/ \E name \in {"check", "doctor"} : Unresolved(t, name)
       \/ \E tgt \in Targets :
            \/ CheckHit(t, tgt)
            \/ \E force \in BOOLEAN : CheckRuns(t, tgt, force)
            \/ Status(t, tgt)
            \/ DoctorBlocked(t, tgt)
            \/ \E yes \in BOOLEAN : DoctorRuns(t, tgt, yes)
       \/ \E r \in Results :
            CheckDiscards(t, r) \/ CheckEvaluates(t, r) \/ DoctorReports(t, r)
       \/ PutRead(t) \/ PutWrite(t)
       \/ \E verdict \in {"UNKNOWN", "missing"} : CommandFails(t, verdict)
       \/ ClearCache(t)
       \/ AutoLookup(t) \/ AutoSlots(t)
  \/ \E p \in Procs : SessionStart(p) \/ Restart(p)
  \/ \E tgt \in Targets : Switch(tgt)
  \/ Tick

Spec == Init /\ [][Next]_vars

-----------------------------------------------------------------------------
(* Properties.                                                               *)

(* Every thread, entry and display has its type; a verdict that is shown is  *)
(* a verdict even for entries of older releases, except for a failure.       *)
Thread ==
  [pc : {"idle", "probing", "put", "save", "doctor", "lookup", "slots", "check"},
   target : Targets \cup {NoTarget}, probed : Targets \cup {NoTarget}, asked : BOOLEAN,
   entry : Entry \cup {NoEntry}, copy : [Fingerprints -> Entry \cup {NoEntry}]]

Shown ==
  [cmd : {"check", "doctor", "status"}, verdict : Verdicts, exit : 0..3,
   target : Targets \cup {NoTarget}, of : Targets \cup {NoTarget}, backed : BOOLEAN]
  \cup {Nothing}
  \cup [cmd : {"any"}, verdict : {"UNKNOWN", "missing"}, exit : {1, 3},
        target : Targets \cup {NoTarget}, of : Targets \cup {NoTarget}, backed : BOOLEAN]

LiteTypeOK ==
  /\ now \in Nat /\ runs \in Nat
  /\ target \in Targets
  /\ cache \in [Fingerprints -> Entry \cup {NoEntry}]
  /\ auto \in [Procs -> BOOLEAN]
  /\ cmd \in [Threads -> Thread]
  /\ shown \in Shown

(* verdict.py: "Missing evidence must never become negative evidence". PASS,  *)
(* or the exit code 0 of check and doctor, is shown only if a complete run    *)
(* with a clean finding, no problem and nothing inconclusive stands behind    *)
(* it, for a cached verdict one within the TTL, whichever threads ran,        *)
(* cleared and overwrote the cache. Findings of other levels do not prevent   *)
(* it (see Evidence).                                                         *)
PassHasEvidence ==
  shown.verdict = "PASS" \/ (shown.cmd # "status" /\ shown.exit = 0) => shown.backed

(* put_entry bounds the file: copies that are written late, over what others  *)
(* added meanwhile, never make it grow beyond the bound either.               *)
CacheBounded == Cardinality(Cached(cache)) <= MaxEntries

(* auto_lite.py and the guard of doctor: probes nobody asked for are sent     *)
(* only to an endpoint that reported two slots. auto_lite resolves its        *)
(* endpoint again after asking, so this is about the one it asked.            *)
QuietServers ==
  \A t \in Threads :
    /\ cmd[t].pc \in {"probing", "doctor"}
    /\ ~cmd[t].asked
    /\ cmd[t].target = cmd[t].probed
    => Slots[cmd[t].target] >= 2

(* verdict.py:5: PASS says that "the target was tested". The fingerprint has  *)
(* no host, so a verdict of one endpoint is shown for another.                *)
TestedTarget == shown.verdict = "PASS" => shown.of = shown.target

=============================================================================
