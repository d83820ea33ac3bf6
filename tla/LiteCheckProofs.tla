---------------------------- MODULE LiteCheckProofs ----------------------------
(***************************************************************************)
(* Proofs about LiteCheck, for any number of processes, endpoints and      *)
(* fingerprints: no PASS without evidence, a bounded cache, no unasked     *)
(* probes on a single slot.                                                *)
(*                                                                         *)
(* A step changes at most the cache, what is shown and the thread that     *)
(* takes it, so the invariant is one of caches, of displays and of         *)
(* threads, each stated for a single value: a copy of the cache that is    *)
(* held, however old it is, is as good as the file it was read from.       *)
(***************************************************************************)
EXTENDS LiteCheck, FiniteSetTheorems, TLAPS

Maybe == Entry \cup {NoEntry}

EntrySound(e) == CachedVerdict(e) = "PASS" => e.evidence

Bounded(c) == IsFiniteSet(Cached(c)) /\ Cardinality(Cached(c)) <= MaxEntries

CacheOK(c) ==
  /\ c \in [Fingerprints -> Maybe]
  /\ Bounded(c)
  /\ \A f \in Fingerprints : EntrySound(c[f])

ShownOK(d) ==
  /\ d \in Shown
  /\ d.verdict = "PASS" \/ (d.cmd # "status" /\ d.exit = 0) => d.backed

(* What a thread holds between two steps. *)
ThreadOK(s) ==
  /\ s \in Thread
  /\ EntrySound(s.entry)
  /\ CacheOK(s.copy)
  /\ s.pc \in {"probing", "doctor", "put", "save", "slots"} => s.target \in Targets
  /\ s.pc \in {"put", "save"} => s.entry \in Entry /\ s.entry.verdict \in Verdicts
  /\ s.pc = "check" => s.probed \in Targets /\ Slots[s.probed] >= 2
  /\ s.pc \in {"probing", "doctor"} /\ ~s.asked /\ s.target = s.probed
       => Slots[s.target] >= 2

Inv ==
  /\ now \in Nat /\ runs \in Nat
  /\ target \in Targets
  /\ auto \in [Procs -> BOOLEAN]
  /\ cmd \in [Threads -> Thread]
  /\ \A t \in Threads : ThreadOK(cmd[t])
  /\ CacheOK(cache)
  /\ ShownOK(shown)

-----------------------------------------------------------------------------
(* Verdicts. *)

LEMMA EntryIsPresent == \A e \in Entry : e # NoEntry
  BY DEF Entry, NoEntry, Verdicts

LEMMA VerdictsShown ==
  \A e \in Entry : CachedVerdict(e) \in Verdicts
  BY DEF CachedVerdict, FromCounts, Verdicts

LEMMA NoEntrySound == EntrySound(NoEntry)
  BY DEF EntrySound, NoEntry, CachedVerdict, FromCounts, Counts, Verdicts

LEMMA ExitCodes ==
  ASSUME NEW ok \in BOOLEAN
  PROVE  /\ \A v \in Verdicts : /\ ExitCode(v, ok) \in 0..3
                                /\ ExitCode(v, ok) = 0 => v = "PASS"
         /\ ExitCode("UNKNOWN", ok) = 3
         /\ ExitCode("missing", FALSE) = 1
  BY DEF ExitCode, Verdicts

(* A verdict PASS of a run is what the reference calls evidence. *)
LEMMA PassOfRun ==
  ASSUME NEW r \in Results
  PROVE  /\ VerdictOf(r) \in Verdicts
         /\ VerdictOf(r) = "PASS" => Evidence(r)
         /\ Evidence(r) \in BOOLEAN
<1>1. r.found \subseteq Levels /\ r.counts \in {{}, r.found \cap Buckets}
  BY DEF Results
<1>2. Counts(r.counts, r.found) = r.found \cap Buckets
  BY <1>1 DEF Counts
<1>3. VerdictOf(r) \in Verdicts
  BY DEF VerdictOf, FromCounts, Verdicts
<1>4. ASSUME VerdictOf(r) = "PASS"
      PROVE  Evidence(r)
  <2>1. ~Discarded(r) /\ FromCounts(r.found \cap Buckets) = "PASS"
    BY <1>2, <1>4 DEF VerdictOf
  <2>2. "clean" \in r.found /\ "problem" \notin r.found /\ "inconclusive" \notin r.found
    BY <2>1 DEF FromCounts, Buckets
  <2>3. r.found \cap Buckets = {"clean"}
    BY <2>2 DEF Buckets
  <2> QED BY <2>1, <2>3 DEF Discarded, Evidence, NothingWrong
<1> QED BY <1>3, <1>4 DEF Evidence, NothingWrong

-----------------------------------------------------------------------------
(* Caches. *)

LEMMA EmptyOK == CacheOK(EmptyCache)
<1>1. Cached(EmptyCache) = {}
  BY DEF Cached, EmptyCache
<1>2. Bounded(EmptyCache)
  BY <1>1, FS_EmptySet, CacheAssumption DEF Bounded
<1> QED BY <1>2, NoEntrySound DEF CacheOK, EmptyCache, Maybe

LEMMA PutCached ==
  ASSUME NEW c \in [Fingerprints -> Maybe], NEW f \in Fingerprints, NEW e \in Entry
  PROVE  Cached([c EXCEPT ![f] = e]) = Cached(c) \cup {f}
  BY EntryIsPresent DEF Cached, Maybe

(* put_entry makes a sound and bounded cache of a sound and bounded one. *)
LEMMA WithEntryOK ==
  ASSUME NEW c, CacheOK(c), NEW f \in Fingerprints, NEW e \in Entry, EntrySound(e),
         NEW d \in WithEntry(c, f, e)
  PROVE  CacheOK(d)
<1> DEFINE put == [c EXCEPT ![f] = e]
<1>1. put \in [Fingerprints -> Maybe] /\ \A g \in Fingerprints : EntrySound(put[g])
  BY DEF CacheOK, Maybe
<1>2. /\ IsFiniteSet(Cached(put))
      /\ Cardinality(Cached(put)) \in Nat
      /\ Cardinality(Cached(put)) <= MaxEntries + 1
  <2>1. c \in [Fingerprints -> Maybe] /\ IsFiniteSet(Cached(c))
        /\ Cardinality(Cached(c)) <= MaxEntries
    BY DEF CacheOK, Bounded
  <2>2. Cached(put) = Cached(c) \cup {f}
    BY <2>1, PutCached
  <2>3. /\ IsFiniteSet(Cached(put))
        /\ Cardinality(Cached(put)) = Cardinality(Cached(c))
             \/ Cardinality(Cached(put)) = Cardinality(Cached(c)) + 1
    BY <2>1, <2>2, FS_AddElement
  <2>4. Cardinality(Cached(c)) \in Nat
    BY <2>1, FS_CardinalityType
  <2> QED BY <2>1, <2>3, <2>4, CacheAssumption
<1>3. CASE ~Overfull(put)
  <2>1. d = put
    BY <1>3 DEF WithEntry
  <2>2. Bounded(put)
    BY <1>2, <1>3, CacheAssumption DEF Overfull, Bounded
  <2> QED BY <1>1, <2>1, <2>2 DEF CacheOK
<1>4. CASE Overfull(put)
  <2>1. PICK D \in OldestSets(put) :
          d = [g \in Fingerprints |-> IF g \in D THEN NoEntry ELSE put[g]]
    BY <1>4 DEF WithEntry
  <2>2. D \subseteq Cached(put) /\ Cardinality(D) = Drop
    BY <2>1 DEF OldestSets
  <2>3. d \in [Fingerprints -> Maybe] /\ \A g \in Fingerprints : EntrySound(d[g])
    BY <1>1, <2>1, NoEntrySound DEF Maybe
  <2>4. Cached(d) = Cached(put) \ D
    BY <2>1, <2>2 DEF Cached
  <2>5. /\ IsFiniteSet(Cached(put) \ D)
        /\ Cardinality(Cached(put) \ D) =
             Cardinality(Cached(put)) - Cardinality(Cached(put) \cap D)
    BY <1>2, FS_Difference
  <2>6. Cached(put) \cap D = D
    BY <2>2
  <2>7. Bounded(d)
    <3>1. Cardinality(Cached(d)) = Cardinality(Cached(put)) - Drop /\ IsFiniteSet(Cached(d))
      BY <2>2, <2>4, <2>5, <2>6
    <3>2. Drop \in Nat /\ Drop >= 1 /\ MaxEntries \in Nat
      BY CacheAssumption
    <3> HIDE DEF put
    <3>3. Cardinality(Cached(d)) <= MaxEntries
      BY <1>2, <3>1, <3>2
    <3> QED BY <3>1, <3>3 DEF Bounded
  <2> QED BY <2>3, <2>7 DEF CacheOK
<1> QED BY <1>3, <1>4

-----------------------------------------------------------------------------
(* Threads and displays. *)

LEMMA IdleOK == ThreadOK(Idle)
  BY EmptyOK, NoEntrySound DEF ThreadOK, Idle, Thread, CacheOK, Maybe

LEMMA NothingOK == ShownOK(Nothing)
  BY DEF ShownOK, Shown, Nothing, Display, Blocked

(* A display of check, status or doctor that is as good as its evidence. *)
LEMMA DisplayOK ==
  ASSUME NEW name \in {"check", "doctor", "status"}, NEW v \in Verdicts, NEW x \in 0..3,
         NEW tgt \in Targets \cup {NoTarget}, NEW of \in Targets \cup {NoTarget},
         NEW backed \in BOOLEAN,
         v = "PASS" => backed,
         name # "status" /\ x = 0 => v = "PASS"
  PROVE  ShownOK(Display(name, v, x, tgt, of, backed))
  BY DEF ShownOK, Shown, Display

(* A display that claims nothing needs no evidence. *)
LEMMA UnknownOK ==
  ASSUME NEW name \in {"check", "doctor"}, NEW x \in {Blocked, 3},
         NEW tgt \in Targets \cup {NoTarget}
  PROVE  ShownOK(Display(name, "UNKNOWN", x, tgt, tgt, FALSE))
<1> DEFINE b == FALSE
<1>1. b \in BOOLEAN
  OBVIOUS
<1>2. "UNKNOWN" \in Verdicts /\ x \in 0..3 /\ x # 0
  BY DEF Verdicts, Blocked
<1> HIDE DEF b
<1>3. ShownOK(Display(name, "UNKNOWN", x, tgt, tgt, b))
  BY <1>1, <1>2, DisplayOK
<1> QED BY <1>3 DEF b

LEMMA FailureOK ==
  ASSUME NEW v \in {"UNKNOWN", "missing"}, NEW x \in {1, 3}, NEW tgt \in Targets \cup {NoTarget}
  PROVE  ShownOK(Display("any", v, x, tgt, tgt, FALSE))
<1> DEFINE b == FALSE
<1>1. b \in BOOLEAN
  OBVIOUS
<1> HIDE DEF b
<1>2. ShownOK(Display("any", v, x, tgt, tgt, b))
  BY <1>1 DEF ShownOK, Shown, Display
<1> QED BY <1>2 DEF b

LEMMA ShowOK ==
  ASSUME NEW t, NEW d, ShownOK(d), Show(t, d)
  PROVE  ShownOK(shown')
  BY NothingOK DEF Show

LEMMA ShowUnknownOK ==
  ASSUME NEW t, NEW name \in {"check", "doctor"}, NEW tgt \in Targets \cup {NoTarget},
         ShowUnknown(t, name, tgt)
  PROVE  ShownOK(shown')
<1>1. ShownOK(Display(name, "UNKNOWN", 3, tgt, tgt, FALSE))
  BY UnknownOK
<1> QED BY <1>1, ShowOK DEF ShowUnknown

(* Only the thread that moves has to be looked at. *)
LEMMA GotoOK ==
  ASSUME cmd \in [Threads -> Thread], \A u \in Threads : ThreadOK(cmd[u]),
         NEW t \in Threads, NEW s, ThreadOK(s), Goto(t, s)
  PROVE  /\ cmd' \in [Threads -> Thread]
         /\ \A u \in Threads : ThreadOK(cmd'[u])
<1>1. s \in Thread
  BY DEF ThreadOK
<1> QED BY <1>1 DEF Goto

(* A cached entry that is shown while it is fresh. *)
LEMMA CachedShown ==
  ASSUME Inv, NEW tgt \in Targets, cache[Key(tgt)] # NoEntry
  PROVE  LET e == cache[Key(tgt)]
         IN /\ e \in Entry
            /\ CachedVerdict(e) \in Verdicts
            /\ (e.evidence /\ now - e.at <= TTL) \in BOOLEAN
            /\ CachedVerdict(e) = "PASS" => e.evidence
<1>1. Key(tgt) \in Fingerprints
  BY TargetsAssumption DEF Key
<1>2. cache[Key(tgt)] \in Entry /\ EntrySound(cache[Key(tgt)])
  BY <1>1 DEF Inv, CacheOK, Maybe
<1> QED BY <1>2, VerdictsShown DEF EntrySound, Entry

-----------------------------------------------------------------------------
(* The initial state and the steps. *)

LEMMA InitOK == Init => Inv
<1> SUFFICES ASSUME Init PROVE Inv
  OBVIOUS
<1>1. CacheOK(cache)
  <2>1. CASE cache = EmptyCache
    BY <2>1, EmptyOK
  <2>2. ASSUME NEW tgt \in Targets, NEW found \in SUBSET Levels,
               NEW counts \in {{}, found \cap Buckets},
               cache = [EmptyCache EXCEPT ![Key(tgt)] = Legacy(tgt, found, counts)]
        PROVE  CacheOK(cache)
    <3> DEFINE e == Legacy(tgt, found, counts)
    <3>1. Key(tgt) \in Fingerprints
      BY TargetsAssumption DEF Key
    <3>2. e \in Entry
      BY DEF Legacy, Entry, NothingWrong
    <3>3. EntrySound(e)
      <4> DEFINE seen == found \cap Buckets
      <4>1. Counts(counts, found) = seen
        BY DEF Counts
      <4>2. e.evidence = (seen = {"clean"}) /\ CachedVerdict(e) = FromCounts(seen)
        BY <4>1 DEF Legacy, NothingWrong, CachedVerdict, Verdicts
      <4>3. FromCounts(seen) = "PASS" => seen = {"clean"}
        BY DEF FromCounts, Buckets
      <4> QED BY <4>2, <4>3 DEF EntrySound
    <3>4. EmptyCache \in [Fingerprints -> Maybe] /\ Cached(EmptyCache) = {}
      BY DEF EmptyCache, Maybe, Cached
    <3>5. Cached(cache) = {Key(tgt)}
      <4> HIDE DEF e
      <4>1. Cached([EmptyCache EXCEPT ![Key(tgt)] = e]) = {} \cup {Key(tgt)}
        BY <3>1, <3>2, <3>4, PutCached
      <4> QED BY <2>2, <4>1 DEF e
    <3>6. Bounded(cache)
      <4>1. IsFiniteSet(Cached(cache)) /\ Cardinality(Cached(cache)) = 1
        BY <3>5, FS_Singleton
      <4>2. MaxEntries \in Nat /\ MaxEntries >= 1
        BY CacheAssumption
      <4> QED BY <4>1, <4>2 DEF Bounded
    <3> QED BY <2>2, <3>1, <3>2, <3>3, <3>4, <3>6, NoEntrySound DEF CacheOK, Maybe, EmptyCache
  <2> QED BY <2>1, <2>2 DEF Init
<1>2. cmd \in [Threads -> Thread] /\ \A t \in Threads : ThreadOK(cmd[t])
  BY IdleOK DEF Init, ThreadOK
<1> QED BY <1>1, <1>2, NothingOK DEF Init, Inv

(* The steps of check. *)
LEMMA CheckSteps ==
  ASSUME Inv, NEW t \in Threads,
         \/ \E name \in {"check", "doctor"} : Unresolved(t, name)
         \/ \E tgt \in Targets : \/ CheckHit(t, tgt)
                                 \/ \E force \in BOOLEAN : CheckRuns(t, tgt, force)
         \/ \E r \in Results : CheckDiscards(t, r) \/ CheckEvaluates(t, r)
         \/ PutRead(t) \/ PutWrite(t)
         \/ \E v \in {"UNKNOWN", "missing"} : CommandFails(t, v)
  PROVE  Inv'
<1>t. ThreadOK(cmd[t]) /\ cmd[t] \in Thread
  BY DEF Inv
<1>1. ASSUME NEW name \in {"check", "doctor"}, Unresolved(t, name)
      PROVE  Inv'
  <2>1. ShownOK(shown')
    BY <1>1, ShowUnknownOK DEF Unresolved
  <2> QED BY <1>1, <2>1, IdleOK, GotoOK DEF Unresolved, Inv
<1>2. ASSUME NEW tgt \in Targets, CheckHit(t, tgt)
      PROVE  Inv'
  <2> DEFINE e == cache[Key(tgt)]
             v == CachedVerdict(e)
             b == e.evidence /\ now - e.at <= TTL
  <2>1. e # NoEntry /\ now - e.at <= TTL
    BY <1>2 DEF CheckHit, Hit, IsFresh
  <2>2. e \in Entry /\ v \in Verdicts /\ b \in BOOLEAN /\ (v = "PASS" => b)
    BY <2>1, CachedShown
  <2>3. ExitCode(v, TRUE) \in 0..3 /\ (ExitCode(v, TRUE) = 0 => v = "PASS")
    BY <2>2, ExitCodes
  <2>4. e.of \in Targets
    BY <2>2 DEF Entry
  <2> HIDE DEF e, v, b
  <2>5. ShownOK(Display("check", v, ExitCode(v, TRUE), tgt, e.of, b))
    BY <2>2, <2>3, <2>4, DisplayOK
  <2>6. ShownOK(shown')
    BY <1>2, <2>5, ShowOK DEF CheckHit, e, v, b
  <2> QED BY <1>2, <2>6, IdleOK, GotoOK DEF CheckHit, Inv
<1>3. ASSUME NEW tgt \in Targets, NEW force \in BOOLEAN, CheckRuns(t, tgt, force)
      PROVE  Inv'
  <2> DEFINE s == [Idle EXCEPT !.pc = "probing", !.target = tgt, !.probed = cmd[t].probed,
                               !.asked = IsFront(t)]
  <2>1. IsFront(t) \in BOOLEAN /\ (~IsFront(t) => At(t, "check"))
    BY <1>3 DEF CheckRuns, MayCheck, IsFront
  <2>2. s = [Idle EXCEPT !.pc = "probing", !.target = tgt, !.probed = cmd[t].probed,
                         !.asked = IsFront(t)]
    OBVIOUS
  <2>3. /\ s.pc = "probing" /\ s.target = tgt /\ s.probed = cmd[t].probed
        /\ s.asked = IsFront(t) /\ s.entry = NoEntry /\ s.copy = EmptyCache
        /\ s \in Thread
    BY <1>t, <2>1, IdleOK DEF Idle, Thread, ThreadOK
  <2>4. ~IsFront(t) => Slots[cmd[t].probed] >= 2
    BY <1>t, <2>1 DEF ThreadOK, At
  <2> HIDE DEF s
  <2>5. ThreadOK(s)
    BY <2>3, <2>4, EmptyOK, NoEntrySound DEF ThreadOK
  <2>6. Goto(t, s)
    BY <1>3 DEF CheckRuns, s
  <2>7. cmd' \in [Threads -> Thread] /\ \A u \in Threads : ThreadOK(cmd'[u])
    BY <2>5, <2>6, GotoOK DEF Inv
  <2>8. runs' \in Nat
    <3>1. runs' = runs + 1
      BY <1>3 DEF CheckRuns
    <3>2. runs \in Nat
      BY DEF Inv
    <3> QED BY <3>1, <3>2
  <2> QED BY <1>3, <2>7, <2>8, NothingOK DEF CheckRuns, Inv
<1>4. ASSUME NEW r \in Results, CheckDiscards(t, r)
      PROVE  Inv'
  <2>1. cmd[t].target \in Targets \cup {NoTarget}
    BY <1>t DEF Thread
  <2>2. ShownOK(shown')
    BY <1>4, <2>1, ShowUnknownOK DEF CheckDiscards
  <2> QED BY <1>4, <2>2, IdleOK, GotoOK DEF CheckDiscards, Inv
<1>5. ASSUME NEW r \in Results, CheckEvaluates(t, r)
      PROVE  Inv'
  <2> DEFINE e == NewEntry(t, r)
             s == [cmd[t] EXCEPT !.pc = "put", !.entry = e]
  <2>1. cmd[t].target \in Targets
    BY <1>5, <1>t DEF CheckEvaluates, At, ThreadOK
  <2>2. e \in Entry /\ e.verdict \in Verdicts
    BY <2>1, PassOfRun DEF NewEntry, Entry, Inv
  <2>3. EntrySound(e)
    BY PassOfRun DEF EntrySound, NewEntry, CachedVerdict
  <2> HIDE DEF e
  <2>4. /\ s.pc = "put" /\ s.entry = e /\ s.target = cmd[t].target
        /\ s.copy = cmd[t].copy /\ s \in Thread
    BY <1>t, <2>2 DEF Thread
  <2> HIDE DEF s
  <2>5. ThreadOK(s)
    BY <1>t, <2>1, <2>2, <2>3, <2>4 DEF ThreadOK
  <2>6. Goto(t, s)
    BY <1>5 DEF CheckEvaluates, s, e
  <2> QED BY <1>5, <2>5, <2>6, NothingOK, GotoOK DEF CheckEvaluates, Inv
<1>6. ASSUME PutRead(t)
      PROVE  Inv'
  <2>1. PICK c \in WithEntry(cache, Key(cmd[t].target), cmd[t].entry) :
          Goto(t, [cmd[t] EXCEPT !.pc = "save", !.copy = c])
    BY <1>6 DEF PutRead
  <2>2. /\ cmd[t].target \in Targets /\ cmd[t].entry \in Entry
        /\ cmd[t].entry.verdict \in Verdicts /\ EntrySound(cmd[t].entry)
    BY <1>6, <1>t DEF PutRead, At, ThreadOK
  <2>3. Key(cmd[t].target) \in Fingerprints
    BY <2>2, TargetsAssumption DEF Key
  <2>4. CacheOK(c)
    BY <2>1, <2>2, <2>3, WithEntryOK DEF Inv
  <2> DEFINE s == [cmd[t] EXCEPT !.pc = "save", !.copy = c]
  <2>5. /\ s.pc = "save" /\ s.entry = cmd[t].entry /\ s.target = cmd[t].target
        /\ s.copy = c /\ s \in Thread
    BY <1>t, <2>4 DEF Thread, CacheOK, Maybe
  <2>6. Goto(t, s)
    BY <2>1
  <2> HIDE DEF s
  <2>7. ThreadOK(s)
    BY <2>2, <2>4, <2>5 DEF ThreadOK
  <2> QED BY <1>6, <2>6, <2>7, NothingOK, GotoOK DEF PutRead, Inv
<1>7. ASSUME PutWrite(t)
      PROVE  Inv'
  <2> DEFINE e == cmd[t].entry
  <2>1. /\ cmd[t].target \in Targets /\ e \in Entry /\ e.verdict \in Verdicts
        /\ EntrySound(e) /\ CacheOK(cmd[t].copy)
    BY <1>7, <1>t DEF PutWrite, At, ThreadOK
  <2>2. /\ e.of \in Targets /\ e.evidence \in BOOLEAN
        /\ e.verdict = "PASS" => e.evidence
    BY <2>1 DEF Entry, EntrySound, CachedVerdict
  <2>3. ExitCode(e.verdict, TRUE) \in 0..3
        /\ (ExitCode(e.verdict, TRUE) = 0 => e.verdict = "PASS")
    BY <2>1, ExitCodes
  <2> HIDE DEF e
  <2>4. ShownOK(Display("check", e.verdict, ExitCode(e.verdict, TRUE), cmd[t].target,
                        e.of, e.evidence))
    BY <2>1, <2>2, <2>3, DisplayOK
  <2>5. ShownOK(shown')
    BY <1>7, <2>4, ShowOK DEF PutWrite, e
  <2> QED BY <1>7, <2>1, <2>5, IdleOK, GotoOK DEF PutWrite, Inv
<1>8. ASSUME NEW v \in {"UNKNOWN", "missing"}, CommandFails(t, v)
      PROVE  Inv'
  <2> DEFINE d == Display("any", v, ExitCode(v, FALSE), cmd[t].target, cmd[t].target, FALSE)
  <2>1. ExitCode(v, FALSE) \in {1, 3}
    BY ExitCodes
  <2>2. cmd[t].target \in Targets \cup {NoTarget}
    BY <1>t DEF Thread
  <2>3. ShownOK(d)
    BY <2>1, <2>2, FailureOK
  <2>4. ShownOK(shown')
    BY <1>8, <2>3, ShowOK DEF CommandFails
  <2> QED BY <1>8, <2>4, IdleOK, GotoOK DEF CommandFails, Inv
<1> QED BY <1>1, <1>2, <1>3, <1>4, <1>5, <1>6, <1>7, <1>8

(* The steps of status, clear-cache and doctor. *)
LEMMA CommandSteps ==
  ASSUME Inv, NEW t \in Threads,
         \/ \E tgt \in Targets : \/ Status(t, tgt)
                                 \/ DoctorBlocked(t, tgt)
                                 \/ \E yes \in BOOLEAN : DoctorRuns(t, tgt, yes)
         \/ \E r \in Results : DoctorReports(t, r)
         \/ ClearCache(t)
  PROVE  Inv'
<1>t. ThreadOK(cmd[t]) /\ cmd[t] \in Thread
  BY DEF Inv
<1>1. ASSUME NEW tgt \in Targets, Status(t, tgt)
      PROVE  Inv'
  <2> DEFINE e == cache[Key(tgt)]
             v == IF IsFresh(e) THEN CachedVerdict(e) ELSE "UNKNOWN"
             b == e.evidence /\ now - e.at <= TTL
  <2>1. e # NoEntry
    BY <1>1 DEF Status
  <2>2. e \in Entry /\ v \in Verdicts /\ b \in BOOLEAN /\ (v = "PASS" => b)
    BY <2>1, CachedShown DEF IsFresh, Verdicts
  <2>3. e.of \in Targets
    BY <2>2 DEF Entry
  <2> HIDE DEF e, v, b
  <2>4. ShownOK(Display("status", v, 0, tgt, e.of, b))
    BY <2>2, <2>3, DisplayOK
  <2>5. ShownOK(shown')
    BY <1>1, <2>4 DEF Status, e, v, b
  <2> QED BY <1>1, <2>5 DEF Status, Inv
<1>2. ASSUME NEW tgt \in Targets, DoctorBlocked(t, tgt)
      PROVE  Inv'
  <2>1. ShownOK(Display("doctor", "UNKNOWN", Blocked, tgt, tgt, FALSE))
    BY UnknownOK
  <2> QED BY <1>2, <2>1 DEF DoctorBlocked, Inv
<1>3. ASSUME NEW tgt \in Targets, NEW yes \in BOOLEAN, DoctorRuns(t, tgt, yes)
      PROVE  Inv'
  <2> DEFINE s == [Idle EXCEPT !.pc = "doctor", !.target = tgt, !.probed = tgt, !.asked = yes]
  <2>1. /\ s.pc = "doctor" /\ s.target = tgt /\ s.probed = tgt
        /\ s.asked = yes /\ s.entry = NoEntry /\ s.copy = EmptyCache
        /\ s \in Thread
    BY IdleOK DEF Idle, Thread, ThreadOK
  <2>2. ~yes => Slots[tgt] >= 2
    <3>1. \A slots \in Reported(tgt) : ManySlots(slots) => Slots[tgt] >= 2
      BY DEF Reported, ManySlots
    <3> QED BY <1>3, <3>1 DEF DoctorRuns
  <2>3. Goto(t, s)
    BY <1>3 DEF DoctorRuns
  <2> HIDE DEF s
  <2>4. ThreadOK(s)
    BY <2>1, <2>2, EmptyOK, NoEntrySound DEF ThreadOK
  <2>7. cmd' \in [Threads -> Thread] /\ \A u \in Threads : ThreadOK(cmd'[u])
    BY <2>3, <2>4, GotoOK DEF Inv
  <2>8. runs' \in Nat
    <3>1. runs' = runs + 1
      BY <1>3 DEF DoctorRuns
    <3>2. runs \in Nat
      BY DEF Inv
    <3> QED BY <3>1, <3>2
  <2> QED BY <1>3, <2>7, <2>8, NothingOK DEF DoctorRuns, Inv
<1>4. ASSUME NEW r \in Results, DoctorReports(t, r)
      PROVE  Inv'
  <2> DEFINE v == VerdictOf(r)
             x == ExitCode(v, ~Discarded(r))
  <2>1. v \in Verdicts /\ (v = "PASS" => Evidence(r)) /\ Evidence(r) \in BOOLEAN
    BY PassOfRun
  <2>2. (~Discarded(r)) \in BOOLEAN
    BY DEF Discarded
  <2>3. x \in 0..3 /\ (x = 0 => v = "PASS")
    BY <2>1, <2>2, ExitCodes
  <2>4. cmd[t].target \in Targets \cup {NoTarget}
    BY <1>t DEF Thread
  <2> HIDE DEF v, x
  <2>5. ShownOK(Display("doctor", v, x, cmd[t].target, cmd[t].target, Evidence(r)))
    BY <2>1, <2>3, <2>4, DisplayOK
  <2>6. ShownOK(shown')
    BY <1>4, <2>5, ShowOK DEF DoctorReports, v, x
  <2> QED BY <1>4, <2>6, IdleOK, GotoOK DEF DoctorReports, Inv
<1>5. CASE ClearCache(t)
  BY <1>5, EmptyOK, NothingOK DEF ClearCache, Inv
<1> QED BY <1>1, <1>2, <1>3, <1>4, <1>5

(* The steps of auto_lite and of the environment. *)
LEMMA OtherSteps ==
  ASSUME Inv,
         \/ \E t \in Threads : AutoLookup(t) \/ AutoSlots(t)
         \/ \E p \in Procs : SessionStart(p) \/ Restart(p)
         \/ \E tgt \in Targets : Switch(tgt)
         \/ Tick
  PROVE  Inv'
<1>1. ASSUME NEW t \in Threads, AutoLookup(t)
      PROVE  Inv'
  <2> DEFINE s == [Idle EXCEPT !.pc = "slots", !.target = target]
  <2>1. /\ s.pc = "slots" /\ s.target = target /\ s.entry = NoEntry
        /\ s.copy = EmptyCache /\ s \in Thread
    BY IdleOK DEF Idle, Thread, ThreadOK, Inv
  <2>2. ThreadOK(s)
    <3> HIDE DEF s
    <3> QED BY <2>1, EmptyOK, NoEntrySound DEF ThreadOK, Inv
  <2>3. ThreadOK(IF Hit(target) THEN Idle ELSE s)
    BY <2>2, IdleOK
  <2> QED BY <1>1, <2>3, GotoOK, NothingOK DEF AutoLookup, Inv
<1>2. ASSUME NEW t \in Threads, AutoSlots(t)
      PROVE  Inv'
  <2> DEFINE s == [Idle EXCEPT !.pc = "check", !.probed = cmd[t].target]
  <2>1. PICK slots \in Reported(cmd[t].target) : Goto(t, IF ManySlots(slots) THEN s ELSE Idle)
    BY <1>2 DEF AutoSlots
  <2>2. cmd[t].target \in Targets
    BY <1>2 DEF AutoSlots, At, ThreadOK, Inv
  <2>3. /\ s.pc = "check" /\ s.probed = cmd[t].target /\ s.entry = NoEntry
        /\ s.copy = EmptyCache /\ s \in Thread
    BY <2>2, IdleOK DEF Idle, Thread, ThreadOK
  <2>4. ASSUME ManySlots(slots) PROVE ThreadOK(s)
    <3>1. Slots[cmd[t].target] >= 2
      BY <2>1, <2>4 DEF Reported, ManySlots
    <3> HIDE DEF s
    <3> QED BY <2>2, <2>3, <3>1, EmptyOK, NoEntrySound DEF ThreadOK
  <2>5. ThreadOK(IF ManySlots(slots) THEN s ELSE Idle)
    BY <2>4, IdleOK
  <2> QED BY <1>2, <2>1, <2>5, GotoOK, NothingOK DEF AutoSlots, Inv
<1>3. ASSUME NEW p \in Procs, SessionStart(p)
      PROVE  Inv'
  <2> DEFINE s == [Idle EXCEPT !.pc = "lookup"]
  <2>1. s.pc = "lookup" /\ s.entry = NoEntry /\ s.copy = EmptyCache /\ s \in Thread
    BY IdleOK DEF Idle, Thread, ThreadOK
  <2>2. ThreadOK(s)
    <3> HIDE DEF s
    <3> QED BY <2>1, EmptyOK, NoEntrySound DEF ThreadOK
  <2>3. <<p, "auto">> \in Threads
    BY DEF Threads
  <2> QED BY <1>3, <2>2, <2>3, GotoOK, NothingOK DEF SessionStart, Inv
<1>4. ASSUME NEW p \in Procs, Restart(p)
      PROVE  Inv'
  <2>1. cmd' \in [Threads -> Thread] /\ \A t \in Threads : ThreadOK(cmd'[t])
    BY <1>4, IdleOK DEF Restart, Inv, ThreadOK
  <2> QED BY <1>4, <2>1, NothingOK DEF Restart, Inv
<1>5. ASSUME NEW tgt \in Targets, Switch(tgt)
      PROVE  Inv'
  BY <1>5, NothingOK DEF Switch, Inv
<1>6. CASE Tick
  BY <1>6, NothingOK, LiteBoundsAssumption DEF Tick, Inv
<1> QED BY <1>1, <1>2, <1>3, <1>4, <1>5, <1>6

LEMMA NextOK == Inv /\ [Next]_vars => Inv'
<1> SUFFICES ASSUME Inv, [Next]_vars PROVE Inv'
  OBVIOUS
<1>1. CASE UNCHANGED vars
  BY <1>1 DEF vars, Inv
<1>2. CASE Next
  BY <1>2, CheckSteps, CommandSteps, OtherSteps DEF Next
<1> QED BY <1>1, <1>2

LEMMA InvAlways == Spec => []Inv
  BY InitOK, NextOK, PTL DEF Spec

-----------------------------------------------------------------------------
(* The theorems. *)

(* Types, and that every verdict of an entry that is shown is a verdict. *)
THEOREM LiteTypeCorrect == Spec => []LiteTypeOK
<1>1. Inv => LiteTypeOK
  BY DEF Inv, LiteTypeOK, CacheOK, ShownOK, Maybe
<1> QED BY <1>1, InvAlways, PTL

(* No PASS, and no exit code 0 of check or doctor, without a complete and     *)
(* fresh run that found something clean and nothing wrong or unresolved:      *)
(* evaluate_run, the TTL and the cache together.                              *)
THEOREM PassIsEvidence == Spec => []PassHasEvidence
<1>1. Inv => PassHasEvidence
  BY DEF Inv, ShownOK, PassHasEvidence
<1> QED BY <1>1, InvAlways, PTL

(* put_entry keeps the cache within its bound, late copies included. *)
THEOREM CacheStaysBounded == Spec => []CacheBounded
<1>1. Inv => CacheBounded
  BY DEF Inv, CacheOK, Bounded, CacheBounded
<1> QED BY <1>1, InvAlways, PTL

(* auto_lite and doctor send unasked probes only where there are two slots. *)
THEOREM ServersAreLeftAlone == Spec => []QuietServers
<1>1. Inv => QuietServers
  BY DEF Inv, ThreadOK, QuietServers
<1> QED BY <1>1, InvAlways, PTL
=============================================================================
