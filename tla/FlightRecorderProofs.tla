------------------------ MODULE FlightRecorderProofs ------------------------
(* Theorems about FlightRecorder, for every value of its constants. *)
EXTENDS FlightRecorder, FiniteSetTheorems, SequenceTheorems, WellFoundedInduction, TLAPS

(* The inductive invariant, whose last part (Placed) is further down.        *)

(* Who holds _io_lock, at which stage, and what that says of the batch.      *)
LockedBy(p) ==
  /\ cmd[p].pc # "idle" => cmd[p].home \in Homes
  /\ io[p].owner = "free" <=> io[p].stage = "none"
  /\ io[p].owner = "cmd" => cmd[p].pc = "flush"
  /\ io[p].owner = "stop" => stp[p] = "flush"
  /\ io[p].stage \notin {"append", "opened"} => batch[p] = {}
  /\ io[p].stage = "opened" =>
       /\ batch[p] # {}
       /\ io[p].seg \in SegId
       /\ io[p].seg[1] = p
       /\ io[p].seg[2] = GroupDir(p)

LockInv == \A p \in Procs : LockedBy(p)

(* A deleted segment keeps nothing. *)
NothingDead == \A f \in SegId : ~files[f].live => files[f].rows = {}

(* A stopped recorder queues nothing, so the last writer leaves nothing.     *)
StopInv ==
  \A p \in Procs :
    /\ stp[p] # "no" => stopSet[p]
    /\ io[p].owner = "stop" => pending[p] = {}
    /\ stp[p] = "done" => pending[p] = {} /\ batch[p] = {}

-----------------------------------------------------------------------------
(* Numbers, rows and types.                                                  *)

(* A non-empty set of numbers has a least element, and Min finds it. *)
LEMMA MinIsMember ==
  ASSUME NEW S, S \subseteq Nat, S # {}
  PROVE  Min(S) \in S /\ \A x \in S : Min(S) <= x
<1> DEFINE R == {ss \in Nat \X Nat : ss[1] < ss[2]}
<1>0. IsWellFoundedOn(R, Nat)
  BY NatLessThanWellFounded DEF OpToRel
<1>1. \E m \in S : \A y \in S : ~(<<y, m>> \in R)
  <2> HIDE DEF R
  <2> QED BY <1>0, WFMin, Zenon
<1>2. PICK m \in S : \A y \in S : ~(<<y, m>> \in R)
  BY <1>1
<1>3. \A y \in Nat : y < m => <<y, m>> \in R
  OBVIOUS
<1>4. \A y \in S : m <= y
  <2> HIDE DEF R
  <2> TAKE y \in S
  <2>1. y \in Nat /\ m \in Nat
    OBVIOUS
  <2>2. ~(y < m)
    BY <1>2, <1>3, <2>1, Zenon
  <2>3. QED
    BY <2>1, <2>2
<1>5. QED
  BY <1>4 DEF Min

LEMMA RowsFinite ==
  ASSUME NEW S, TypeOK, S \subseteq Ids
  PROVE  S \subseteq Nat /\ IsFiniteSet(S) /\ Cardinality(S) \in Nat
<1>1. Len(row) \in Nat
  BY DEF TypeOK
<1>2. IsFiniteSet(Ids)
  BY <1>1, FS_Interval DEF Ids
<1>3. S \subseteq Nat
  BY <1>1 DEF Ids
<1>4. IsFiniteSet(S)
  BY <1>2, FS_Subset, Zenon
<1>5. QED
  BY <1>3, <1>4, FS_CardinalityType, Zenon

(* The group of rows written next is a non-empty part of the batch. *)
LEMMA GroupFacts ==
  ASSUME TypeOK, NEW p \in Procs, batch[p] # {}
  PROVE  /\ GroupDir(p) \in Homes
         /\ Group(p) \subseteq batch[p]
         /\ Group(p) # {}
         /\ \A e \in Group(p) : row[e].home = GroupDir(p)
<1>1. batch[p] \subseteq Ids
  BY DEF TypeOK
<1>2. batch[p] \subseteq Nat
  BY <1>1, RowsFinite
<1>3. Min(batch[p]) \in batch[p]
  BY <1>2, MinIsMember
<1>4. row[Min(batch[p])] \in RowType
  <2> DEFINE m == Min(batch[p])
  <2>1. m \in 1..Len(row)
    BY <1>1, <1>3 DEF Ids
  <2>2. row \in Seq(RowType)
    BY DEF TypeOK
  <2> HIDE DEF m
  <2>3. row[m] \in RowType
    BY <2>1, <2>2
  <2>4. QED
    BY <2>3 DEF m
<1>5. QED
  BY <1>3, <1>4 DEF GroupDir, Group, HomeOf, RowType

(* Finitely many files are so many units large. *)
LEMMA FileUnits ==
  ASSUME NEW f, NEW n \in Nat
  PROVE  /\ IsFiniteSet({f} \X (1..n))
         /\ Cardinality({f} \X (1..n)) = n
<1>1. IsFiniteSet({f}) /\ Cardinality({f}) = 1
  BY FS_Singleton
<1>2. IsFiniteSet(1..n) /\ Cardinality(1..n) = n
  BY FS_Interval
<1>3. /\ IsFiniteSet({f} \X (1..n))
      /\ Cardinality({f} \X (1..n)) = Cardinality({f}) * Cardinality(1..n)
  BY <1>1, <1>2, FS_Product
<1>4. QED
  BY <1>1, <1>2, <1>3

StatUnits(S) == UNION {{k.seg} \X (1..k.size) : k \in S}

LEMMA TotalFinite ==
  ASSUME NEW S, S \subseteq StatType, IsFiniteSet(S)
  PROVE  IsFiniteSet(StatUnits(S)) /\ Total(S) = Cardinality(StatUnits(S)) /\ Total(S) \in Nat
<1> DEFINE Part(k) == {k.seg} \X (1..k.size)
           parts == {Part(k) : k \in S}
<1>1. \A k \in S : k.size \in Nat
  BY DEF StatType
<1>2. IsFiniteSet(parts)
  <2>1. [k \in S |-> Part(k)] \in Surjection(S, parts)
    BY DEF Surjection
  <2> HIDE DEF Part, parts
  <2>2. QED
    BY <2>1, FS_Surjection
<1>3. \A U \in parts : IsFiniteSet(U)
  <2>1. TAKE U \in parts
  <2>2. PICK k \in S : U = {k.seg} \X (1..k.size)
    OBVIOUS
  <2>3. QED
    BY <1>1, <2>2, FileUnits
<1>4. StatUnits(S) = UNION parts /\ Total(S) = Cardinality(UNION parts)
  BY DEF StatUnits, Total
<1> HIDE DEF parts
<1>5. IsFiniteSet(UNION parts)
  BY <1>2, <1>3, FS_UNION
<1>6. QED
  BY <1>4, <1>5, FS_CardinalityType

LEMMA InitTypeOK == Init => TypeOK
  BY BoundsAssumption, ActorsAssumption
     DEF Init, TypeOK, StatType, NoCommand, Unlocked, NoCleanup, NoFile, FileType, Never, Ids,
         ThreadStates, Owners, NoSeg, CommandType, LockType, CleanupType

(* A row added to the log keeps every earlier row's number. *)
LEMMA IdsGrow ==
  ASSUME TypeOK, NEW r \in RowType, row' = Append(row, r), Len(row) < NEvents
  PROVE  /\ row' \in Seq(RowType)
         /\ Len(row') = Len(row) + 1 /\ Len(row') <= NEvents
         /\ Len(row) + 1 \notin Ids
         /\ Ids' = Ids \cup {Len(row) + 1}
         /\ \A e \in Ids : row'[e] = row[e]
         /\ row'[Len(row) + 1] = r
<1>1. row \in Seq(RowType) /\ r \in RowType /\ NEvents \in Nat
  BY BoundsAssumption DEF TypeOK
<1>2. /\ row' \in Seq(RowType) /\ Len(row) \in Nat /\ Len(row') = Len(row) + 1
      /\ \A i \in 1..Len(row) : row'[i] = row[i]
      /\ row'[Len(row) + 1] = r
  BY <1>1
<1>3. Ids' = Ids \cup {Len(row) + 1} /\ Len(row) + 1 \notin Ids
  BY <1>2 DEF Ids
<1>4. QED
  BY <1>1, <1>2, <1>3 DEF Ids

LEMMA RowTyped ==
  ASSUME TypeOK, NEW e \in Ids
  PROVE  /\ row[e] \in RowType
         /\ row[e].home \in Homes /\ row[e].ts \in Nat /\ row[e].proc \in Procs
<1>1. row \in Seq(RowType)
  BY DEF TypeOK
<1>2. row[e] \in RowType
  BY <1>1 DEF Ids
<1>3. QED
  BY <1>2 DEF RowType

(* A failure outside the program, or none, counts as at most one more. *)
LEMMA FaultTyped ==
  ASSUME TypeOK, Fault \/ UNCHANGED boundVars
  PROVE  faults' \in Nat /\ crashes' \in Nat
  BY DEF TypeOK, Fault, boundVars

(* What record() does to the memory, with or without a fault. *)
Entered(p, t, profile, h) ==
  \E kept \in BOOLEAN : (kept => Stays(p)) /\ Enter(p, t, profile, h, kept)

LEMMA RecordEnters ==
  ASSUME TypeOK, NEW p \in Procs, NEW t \in Hooks, NEW profile \in Profiles,
         Record(p, t, profile) \/ RecordAstray(p, t, profile)
  PROVE  /\ \E h \in {profile, Cwd} : h \in Homes /\ Entered(p, t, profile, h)
         /\ profile \in Homes
         /\ faults' \in Nat /\ crashes' \in Nat
<1>1. profile \in Homes /\ Cwd \in Homes
  BY ActorsAssumption DEF Profiles
<1>2. PICK b \in BOOLEAN : b = Stays(p)
  BY DEF TypeOK, Stays
<1>3. \A h : Enter(p, t, profile, h, b) => Entered(p, t, profile, h)
  BY <1>2, Zenon DEF Entered
<1>4. \A h : Enter(p, t, profile, h, FALSE) => Entered(p, t, profile, h)
  BY Zenon DEF Entered
<1>5. faults' \in Nat /\ crashes' \in Nat
  BY FaultTyped DEF Record, RecordAstray
<1>6. CASE Record(p, t, profile)
  <2>1. Enter(p, t, profile, profile, b)
    BY <1>2, <1>6 DEF Record
  <2>2. QED
    BY <1>1, <1>3, <1>5, <2>1
<1>7. CASE RecordAstray(p, t, profile)
  <2>1. Enter(p, t, profile, Cwd, b) \/ Enter(p, t, profile, profile, FALSE)
    BY <1>2, <1>7 DEF RecordAstray
  <2>2. QED
    BY <1>1, <1>3, <1>4, <1>5, <2>1
<1>8. QED
  BY <1>6, <1>7

LEMMA RecordTypeOK ==
  ASSUME TypeOK, NEW p \in Procs, NEW t \in Hooks, NEW profile \in Homes, NEW h \in Homes,
         Entered(p, t, profile, h), faults' \in Nat, crashes' \in Nat
  PROVE  TypeOK'
<1> DEFINE e == Len(row) + 1
<1>a. PICK kept \in BOOLEAN : Enter(p, t, profile, h, kept)
  BY DEF Entered
<1>0. [profile |-> profile, home |-> h, ts |-> now, proc |-> p] \in RowType
  BY DEF TypeOK, RowType
<1>1. /\ row' \in Seq(RowType) /\ Len(row') <= NEvents
      /\ Ids' = Ids \cup {e}
  BY <1>a, <1>0, IdsGrow DEF Enter
<1>2. Ids \subseteq Ids' /\ e \in Ids'
  BY <1>1
<1> HIDE DEF e
<1>3. buf' \in [Procs -> SUBSET Ids']
  BY <1>a, <1>2 DEF Enter, TypeOK, Trimmed, Newest, e
<1>4. pending' \in [Procs -> SUBSET Ids'] /\ gone' \subseteq Ids'
  BY <1>a, <1>2 DEF Enter, TypeOK, e
<1>5. hook' \in [Procs -> [Hooks -> {"idle", "recorded", "starting"}]]
  BY <1>a DEF Enter, TypeOK
<1>6. wake' \in [Procs -> BOOLEAN]
  BY <1>a DEF Enter, TypeOK, Full
<1>7. /\ batch' \in [Procs -> SUBSET Ids']
      /\ files' \in [SegId -> FileType'] /\ stamp' \in Nat
      /\ cmd' \in [Procs -> CommandType']
  BY <1>a, <1>2 DEF Enter, TypeOK, FileType, CommandType, diskVars, writerVars
<1>8. /\ now' \in Nat
      /\ thr' \in [Procs -> ThreadStates]
      /\ stopSet' \in [Procs -> BOOLEAN]
      /\ stp' \in [Procs -> {"no", "join", "flush", "done", "raised"}]
      /\ lastCleanup' \in [Procs -> Int]
      /\ segs' \in [Procs -> [Homes -> 0..MaxSegs]]
      /\ seq' \in [Procs -> 0..MaxSegs]
      /\ dirsSeen' \in [Procs -> SUBSET Homes]
      /\ io' = io /\ clean' = clean
  BY <1>a DEF Enter, TypeOK, writerVars, segVars
<1>9. QED
  BY <1>1, <1>3, <1>4, <1>5, <1>6, <1>7, <1>8 DEF TypeOK

(* Steps that touch neither rows nor files keep the sets types are made of. *)
LEMMA SameIds == row' = row => Ids' = Ids /\ FileType' = FileType /\ CommandType' = CommandType
  BY DEF Ids, FileType, CommandType

LEMMA ThreadTypeOK ==
  ASSUME TypeOK, NEW p \in Procs,
         \/ \E t \in Hooks : EnsureFlusher(p, t) \/ StartThread(p, t)
         \/ RequestFlush(p) \/ FlusherTop(p) \/ FlusherWake(p)
         \/ StopCall(p) \/ StopJoin(p)
  PROVE  TypeOK'
<1>1. row' = row
  BY DEF EnsureFlusher, StartThread, RequestFlush, FlusherTop, FlusherWake, StopCall, StopJoin
<1>2. Ids' = Ids /\ FileType' = FileType /\ CommandType' = CommandType
  BY <1>1, SameIds
<1>3. CASE \E t \in Hooks : EnsureFlusher(p, t)
  <2>1. PICK t \in Hooks : EnsureFlusher(p, t)
    BY <1>3
  <2>2. hook' \in [Procs -> [Hooks -> {"idle", "recorded", "starting"}]]
    <3>1. hook \in [Procs -> [Hooks -> {"idle", "recorded", "starting"}]]
      BY DEF TypeOK
    <3>2. CASE thr[p] = "none" /\ ~stopSet[p]
      BY <2>1, <3>1, <3>2 DEF EnsureFlusher
    <3>3. CASE ~(thr[p] = "none" /\ ~stopSet[p])
      BY <2>1, <3>1, <3>3 DEF EnsureFlusher
    <3>4. QED
      BY <3>2, <3>3
  <2>3. thr' \in [Procs -> ThreadStates]
    <3>1. thr \in [Procs -> ThreadStates]
      BY DEF TypeOK
    <3>2. QED
      BY <2>1, <3>1 DEF EnsureFlusher, ThreadStates
  <2>4. QED
    BY <1>2, <2>1, <2>2, <2>3
       DEF EnsureFlusher, TypeOK, writerVars, segVars, diskVars, boundVars
<1>4. CASE \E t \in Hooks : StartThread(p, t)
  BY <1>2, <1>4 DEF StartThread, TypeOK, ThreadStates, writerVars, segVars, diskVars, boundVars
<1>5. CASE RequestFlush(p)
  BY <1>2, <1>5 DEF RequestFlush, TypeOK, ThreadStates, writerVars, segVars, diskVars, boundVars
<1>6. CASE FlusherTop(p)
  BY <1>2, <1>6 DEF FlusherTop, TypeOK, ThreadStates, writerVars, segVars, diskVars, boundVars
<1>7. CASE FlusherWake(p)
  BY <1>2, <1>7 DEF FlusherWake, TypeOK, ThreadStates, writerVars, segVars, diskVars, boundVars
<1>8. CASE StopCall(p)
  BY <1>2, <1>8 DEF StopCall, TypeOK, ThreadStates, writerVars, segVars, diskVars, boundVars
<1>9. CASE StopJoin(p)
  BY <1>2, <1>9 DEF StopJoin, TypeOK, ThreadStates, writerVars, segVars, diskVars, boundVars
<1>10. QED
  BY <1>3, <1>4, <1>5, <1>6, <1>7, <1>8, <1>9

LEMMA TakeTypeOK ==
  ASSUME TypeOK, NEW p \in Procs, NEW o \in Owners, TakePending(p, o)
  PROVE  TypeOK'
<1>1. Ids' = Ids /\ FileType' = FileType /\ CommandType' = CommandType
  BY SameIds DEF TakePending
<1>2. QED
  BY <1>1 DEF TakePending, TypeOK, LockType, Taken, Left, Unlocked, Owners, NoSeg, threadVars,
              segVars, diskVars, boundVars

LEMMA TargetFacts ==
  ASSUME TypeOK, NEW p \in Procs, NEW d \in Homes, ChooseTarget(p, d)
  PROVE  /\ TargetNumber(p, d) \in 1..MaxSegs
         /\ segs' \in [Procs -> [Homes -> 0..MaxSegs]]
         /\ seq' \in [Procs -> 0..MaxSegs]
<1>1. /\ segs \in [Procs -> [Homes -> 0..MaxSegs]]
      /\ seq \in [Procs -> 0..MaxSegs]
      /\ MaxSegs \in Nat
  BY BoundsAssumption DEF TypeOK
<1>2. segs[p][d] \in 0..MaxSegs /\ seq[p] \in 0..MaxSegs
  BY <1>1
<1>3. TargetNumber(p, d) \in 1..MaxSegs
  BY <1>1, <1>2 DEF ChooseTarget, TargetNumber
<1>4. segs' \in [Procs -> [Homes -> 0..MaxSegs]]
  <2> DEFINE n == TargetNumber(p, d)
  <2>1. n \in 0..MaxSegs /\ segs' = [segs EXCEPT ![p][d] = n]
    BY <1>1, <1>3 DEF ChooseTarget
  <2> HIDE DEF n
  <2>2. QED
    BY <1>1, <2>1
<1>5. seq' \in [Procs -> 0..MaxSegs]
  <2>1. segs[p][d] = 0 => seq[p] + 1 \in 0..MaxSegs
    BY <1>1, <1>2 DEF ChooseTarget, TargetNumber
  <2>2. QED
    BY <1>1, <2>1 DEF ChooseTarget
<1>6. QED
  BY <1>3, <1>4, <1>5

LEMMA OpenTypeOK ==
  ASSUME TypeOK, NEW p \in Procs, AppendOpen(p)
  PROVE  TypeOK'
<1> DEFINE d == GroupDir(p)
           n == TargetNumber(p, d)
<1>1. Ids' = Ids /\ FileType' = FileType /\ CommandType' = CommandType
  BY SameIds DEF AppendOpen
<1>2. d \in Homes
  BY GroupFacts DEF AppendOpen
<1>3. n \in 1..MaxSegs
  BY <1>2, TargetFacts DEF AppendOpen
<1>4. <<p, d, n>> \in SegId
  BY <1>2, <1>3 DEF SegId
<1> HIDE DEF d, n
<1>5. /\ segs' \in [Procs -> [Homes -> 0..MaxSegs]]
      /\ seq' \in [Procs -> 0..MaxSegs]
  BY <1>2, TargetFacts DEF AppendOpen, d
<1>6. dirsSeen' \in [Procs -> SUBSET Homes]
  BY <1>2 DEF AppendOpen, TypeOK, d
<1>7. files' \in [SegId -> FileType] /\ stamp' \in Nat
  <2>1. files \in [SegId -> FileType] /\ stamp \in Nat /\ now \in Nat
    BY DEF TypeOK
  <2>2. [NoFile EXCEPT !.live = TRUE, !.mtime = now, !.nth = stamp] \in FileType
    BY <2>1 DEF NoFile, FileType
  <2>3. QED
    BY <1>4, <2>1, <2>2 DEF AppendOpen, diskVars, d, n
<1>8. io' \in [Procs -> LockType]
  <2>1. io \in [Procs -> LockType]
    BY DEF TypeOK
  <2>2. io' = [io EXCEPT ![p].stage = "opened", ![p].seg = <<p, d, n>>, ![p].linked = TRUE]
    BY DEF AppendOpen, d, n
  <2>3. QED
    BY <1>4, <2>1, <2>2 DEF LockType
<1>9. QED
  BY <1>1, <1>5, <1>6, <1>7, <1>8 DEF AppendOpen, TypeOK, threadVars, boundVars

LEMMA FailsTypeOK ==
  ASSUME TypeOK, NEW p \in Procs, AppendFails(p)
  PROVE  TypeOK'
<1> DEFINE d == GroupDir(p)
           n == TargetNumber(p, d)
<1>1. Ids' = Ids /\ FileType' = FileType /\ CommandType' = CommandType
  BY SameIds DEF AppendFails
<1>2. d \in Homes /\ Group(p) \subseteq batch[p]
  BY GroupFacts DEF AppendFails
<1>3. n \in 1..MaxSegs
  BY <1>2, TargetFacts DEF AppendFails
<1> HIDE DEF d, n
<1>5. /\ segs' \in [Procs -> [Homes -> 0..MaxSegs]]
      /\ seq' \in [Procs -> 0..MaxSegs]
  BY <1>2, TargetFacts DEF AppendFails, d
<1>6. dirsSeen' \in [Procs -> SUBSET Homes]
  <2>1. dirsSeen \in [Procs -> SUBSET Homes]
    BY DEF TypeOK
  <2>2. QED
    BY <1>2, <2>1 DEF AppendFails, d
<1>7. batch' \in [Procs -> SUBSET Ids] /\ gone' \subseteq Ids
  BY <1>2 DEF AppendFails, TypeOK
<1>8. faults' \in Nat /\ crashes' \in Nat
  BY FaultTyped DEF AppendFails
<1>9. QED
  BY <1>1, <1>5, <1>6, <1>7, <1>8 DEF AppendFails, TypeOK, threadVars, diskVars

LEMMA WriteRowsTypeOK ==
  ASSUME TypeOK, NEW p \in Procs, NEW written \in SUBSET Group(p), NEW torn \in BOOLEAN,
         batch[p] # {}, io[p].seg \in SegId, WriteRows(p, written, torn)
  PROVE  /\ files' \in [SegId -> FileType] /\ stamp' \in Nat
         /\ gone' \subseteq Ids
         /\ batch' \in [Procs -> SUBSET Ids]
         /\ io' \in [Procs -> LockType]
<1> DEFINE f == io[p].seg
           fragment == IF torn THEN 1 ELSE 0
           size == files[f].size + Cardinality(written) + fragment
<1>1. Group(p) \subseteq Ids
  BY GroupFacts DEF TypeOK
<1>2. Readable(p, written) \subseteq written
  BY DEF Readable
<1>3. size \in Nat
  <2>1. Cardinality(written) \in Nat
    BY <1>1, RowsFinite
  <2>2. files[f].size \in Nat
    BY DEF TypeOK, FileType
  <2>3. QED
    BY <2>1, <2>2
<1>4. files[f].rows \cup Readable(p, written) \subseteq Ids
  BY <1>1, <1>2 DEF TypeOK, FileType
<1>5. now \in Nat /\ stamp \in Nat
  BY DEF TypeOK
<1> DEFINE start == [e \in 1..NEvents |->
                        IF e \in written
                          THEN files[f].size + Cardinality({x \in written : x < e})
                          ELSE files[f].start[e]]
           r == [live |-> TRUE, rows |-> files[f].rows \cup Readable(p, written),
                 start |-> start, size |-> size, mtime |-> now, nth |-> stamp, torn |-> torn]
<1>6. start \in [1..NEvents -> Nat]
  <2>1. \A e : Cardinality({x \in written : x < e}) \in Nat
    <3>1. TAKE e
    <3>2. {x \in written : x < e} \subseteq Ids
      BY <1>1
    <3>3. QED
      BY <3>2, RowsFinite
  <2>2. files[f].size \in Nat /\ files[f].start \in [1..NEvents -> Nat]
    BY DEF TypeOK, FileType
  <2>3. ASSUME NEW e \in 1..NEvents
        PROVE  (IF e \in written THEN files[f].size + Cardinality({x \in written : x < e})
                                 ELSE files[f].start[e]) \in Nat
    <3>1. Cardinality({x \in written : x < e}) \in Nat
      BY <2>1
    <3> HIDE DEF f
    <3>2. files[f].start[e] \in Nat
      BY <2>2, <2>3
    <3>3. files[f].size + Cardinality({x \in written : x < e}) \in Nat
      BY <2>2, <3>1
    <3>4. QED
      BY <3>2, <3>3
  <2>4. QED
    BY <2>3
<1> HIDE DEF size, f, start
<1>b. r \in FileType
  BY <1>3, <1>4, <1>5, <1>6 DEF FileType
<1>7. files' \in [SegId -> FileType] /\ stamp' \in Nat
  <2>1. files \in [SegId -> FileType] /\ f \in SegId
    BY DEF TypeOK, f
  <2>2. CASE io[p].linked
    <3>1. files' = [files EXCEPT ![f] = r] /\ stamp' = stamp + 1
      BY <2>2, Zenon DEF WriteRows, size, start, f
    <3> HIDE DEF r
    <3>2. QED
      BY <1>5, <1>b, <2>1, <3>1
  <2>3. CASE ~io[p].linked
    BY <1>5, <2>1, <2>3 DEF WriteRows, diskVars
  <2>4. QED
    BY <2>2, <2>3
<1>8. gone' \subseteq Ids /\ batch' \in [Procs -> SUBSET Ids]
  BY <1>1 DEF WriteRows, TypeOK
<1>9. io' \in [Procs -> LockType]
  <2>1. io \in [Procs -> LockType]
    BY DEF TypeOK
  <2>2. io' = [io EXCEPT ![p].stage = "append", ![p].seg = NoSeg, ![p].linked = FALSE]
    BY DEF WriteRows
  <2>3. [io[p] EXCEPT !.stage = "append", !.seg = NoSeg, !.linked = FALSE] \in LockType
    BY <2>1 DEF LockType
  <2>4. io' = [io EXCEPT ![p] = [io[p] EXCEPT !.stage = "append", !.seg = NoSeg,
                                              !.linked = FALSE]]
    BY <2>1, <2>2
  <2>5. QED
    BY <2>1, <2>3, <2>4
<1>10. QED
  BY <1>7, <1>8, <1>9

LEMMA WriteTypeOK ==
  ASSUME TypeOK, NEW p \in Procs, batch[p] # {}, io[p].seg \in SegId,
         AppendWrite(p) \/ AppendTorn(p)
  PROVE  TypeOK'
<1>1. Ids' = Ids /\ FileType' = FileType /\ CommandType' = CommandType
  BY SameIds DEF AppendWrite, AppendTorn
<1>2. PICK written \in SUBSET Group(p), torn \in BOOLEAN : WriteRows(p, written, torn)
  BY DEF AppendWrite, AppendTorn
<1>3. /\ files' \in [SegId -> FileType] /\ stamp' \in Nat
      /\ gone' \subseteq Ids
      /\ batch' \in [Procs -> SUBSET Ids]
      /\ io' \in [Procs -> LockType]
  BY <1>2, WriteRowsTypeOK
<1>4. segs' \in [Procs -> [Homes -> 0..MaxSegs]] /\ faults' \in Nat /\ crashes' \in Nat
  <2>1. segs \in [Procs -> [Homes -> 0..MaxSegs]] /\ MaxSegs \in Nat
    BY BoundsAssumption DEF TypeOK
  <2>2. segs' = segs \/ segs' = [segs EXCEPT ![p][GroupDir(p)] = 0]
    BY DEF AppendWrite, AppendTorn, segVars
  <2>3. segs' \in [Procs -> [Homes -> 0..MaxSegs]]
    BY <2>1, <2>2
  <2>4. QED
    BY <2>3, FaultTyped DEF AppendWrite, AppendTorn
<1>5. UNCHANGED <<now, row, buf, pending, threadVars, cmd, clean, lastCleanup, seq,
                  dirsSeen>>
  BY DEF AppendWrite, AppendTorn, segVars
<1>6. QED
  BY <1>1, <1>3, <1>4, <1>5 DEF TypeOK, threadVars

LEMMA CleanupTypeOK ==
  ASSUME TypeOK, LockInv, NEW p \in Procs,
         CleanupStart(p) \/ CleanupScan(p) \/ CleanupDone(p)
  PROVE  TypeOK'
<1>1. Ids' = Ids /\ FileType' = FileType /\ CommandType' = CommandType
  BY SameIds DEF CleanupStart, CleanupScan, CleanupDone
<1>2. clean \in [Procs -> CleanupType] /\ io \in [Procs -> LockType]
  BY DEF TypeOK
<1>3. PICK s \in {"clean", "delete"} : io' = [io EXCEPT ![p].stage = s]
  BY DEF CleanupStart, CleanupScan, CleanupDone
<1>4. io' \in [Procs -> LockType]
  BY <1>2, <1>3 DEF LockType
<1>5. clean' \in [Procs -> CleanupType]
  <2>1. CASE CleanupStart(p)
    <3>1. CleanupDirs(p) \subseteq Homes
      BY ActorsAssumption DEF CleanupDirs, TypeOK, LockInv, LockedBy
    <3>2. [NoCleanup EXCEPT !.todo = CleanupDirs(p)] \in CleanupType
      BY <3>1 DEF NoCleanup, CleanupType
    <3>3. clean' = [clean EXCEPT ![p] = [NoCleanup EXCEPT !.todo = CleanupDirs(p)]]
      BY <2>1 DEF CleanupStart
    <3>4. QED
      BY <1>2, <3>2, <3>3
  <2>2. CASE CleanupScan(p)
    <3>a. PICK d \in clean[p].todo : \E missed \in SUBSET InDir(d) :
            LET seen == InDir(d) \ missed
                doomed == {f \in seen : Expired(p, f) /\ ~IsCurrent(p, f)}
            IN  clean' = [clean EXCEPT ![p] =
                  [todo |-> clean[p].todo \ {d}, dir |-> d, doomed |-> doomed,
                   keep |-> Stats(seen \ doomed), failed |-> clean[p].failed \cup missed]]
      BY <2>2, Zenon DEF CleanupScan
    <3>1. PICK missed \in SUBSET InDir(d), doomed \in SUBSET InDir(d) :
            clean' = [clean EXCEPT ![p] =
              [todo |-> clean[p].todo \ {d}, dir |-> d, doomed |-> doomed,
               keep |-> Stats((InDir(d) \ missed) \ doomed),
               failed |-> clean[p].failed \cup missed]]
      BY <3>a
    <3>2. clean[p].todo \subseteq Homes /\ clean[p].failed \subseteq SegId
      BY <1>2 DEF CleanupType
    <3>3. InDir(d) \subseteq SegId
      BY DEF InDir
    <3>4. Stats((InDir(d) \ missed) \ doomed) \subseteq StatType
      BY <3>3 DEF TypeOK, FileType, Stats, StatType
    <3>5. [todo |-> clean[p].todo \ {d}, dir |-> d, doomed |-> doomed,
           keep |-> Stats((InDir(d) \ missed) \ doomed),
           failed |-> clean[p].failed \cup missed] \in CleanupType
      BY <3>1, <3>2, <3>3, <3>4 DEF CleanupType
    <3>6. QED
      BY <1>2, <3>1, <3>5
  <2>3. CASE CleanupDone(p)
    BY <1>2, <2>3 DEF CleanupDone, CleanupType, NoCleanup
  <2>4. QED
    BY <2>1, <2>2, <2>3
<1>6. lastCleanup' \in [Procs -> Int]
  BY DEF CleanupStart, CleanupScan, CleanupDone, TypeOK
<1>7. UNCHANGED <<now, row, buf, pending, threadVars, cmd, batch, segVars, diskVars,
                  gone>>
  BY DEF CleanupStart, CleanupScan, CleanupDone
<1>8. faults' \in Nat /\ crashes' \in Nat
  BY FaultTyped DEF CleanupStart, CleanupScan, CleanupDone, Missing
<1>9. QED
  BY <1>1, <1>4, <1>5, <1>6, <1>7, <1>8 DEF TypeOK, threadVars, segVars, diskVars

(* Cleanup deletes, or fails to delete, one file at a time. *)
LEMMA DeleteRemoves ==
  ASSUME TypeOK, NEW p \in Procs, DeleteExpired(p) \/ DeleteOldest(p)
  PROVE  \E f \in SegId, rest \in CleanupType : Remove(p, f, rest)
<1>1. clean[p] \in CleanupType
  BY DEF TypeOK
<1>2. CASE DeleteExpired(p)
  <2>1. PICK f \in clean[p].doomed : Remove(p, f, [clean[p] EXCEPT !.doomed = @ \ {f}])
    BY <1>2 DEF DeleteExpired
  <2>2. f \in SegId /\ [clean[p] EXCEPT !.doomed = @ \ {f}] \in CleanupType
    BY <1>1 DEF CleanupType
  <2>3. QED
    BY <2>1, <2>2, Zenon
<1>3. CASE DeleteOldest(p)
  <2>1. PICK k \in Victims(p) : Remove(p, k.seg, [clean[p] EXCEPT !.keep = @ \ {k}])
    BY <1>3 DEF DeleteOldest
  <2>2. k.seg \in SegId /\ [clean[p] EXCEPT !.keep = @ \ {k}] \in CleanupType
    BY <1>1 DEF CleanupType, StatType, Victims
  <2>3. QED
    BY <2>1, <2>2, Zenon
<1>4. QED
  BY <1>2, <1>3

LEMMA DeleteTypeOK ==
  ASSUME TypeOK, NEW p \in Procs, DeleteExpired(p) \/ DeleteOldest(p)
  PROVE  TypeOK'
<1>1. Ids' = Ids /\ FileType' = FileType /\ CommandType' = CommandType
  BY SameIds DEF DeleteExpired, DeleteOldest
<1>2. /\ clean \in [Procs -> CleanupType] /\ io \in [Procs -> LockType]
      /\ files \in [SegId -> FileType]
  BY DEF TypeOK
<1>3. PICK f \in SegId, rest \in CleanupType : Remove(p, f, rest)
  BY DeleteRemoves
<1>4. io' \in [Procs -> LockType]
  <2>1. \A r \in LockType : [r EXCEPT !.linked = FALSE] \in LockType
    BY DEF LockType
  <2>2. QED
    BY <1>2, <1>3, <2>1 DEF Cut, Remove
<1>5. clean' \in [Procs -> CleanupType]
  <2>1. [rest EXCEPT !.failed = rest.failed \cup {f}] \in CleanupType
    BY <1>3 DEF CleanupType
  <2>2. QED
    BY <1>2, <1>3, <2>1 DEF Remove
<1>6. files' \in [SegId -> FileType] /\ gone' \subseteq Ids /\ stamp' \in Nat
  <2>1. NoFile \in FileType
    BY DEF NoFile, FileType
  <2>2. files[f].rows \subseteq Ids /\ gone \subseteq Ids /\ stamp \in Nat
    BY <1>2 DEF FileType, TypeOK
  <2>3. CASE Unlink(f)
    BY <1>2, <1>3, <2>1, <2>2, <2>3 DEF Unlink
  <2>4. CASE UNCHANGED <<files, stamp, gone>>
    BY <1>2, <2>2, <2>4
  <2>5. QED
    BY <1>3, <2>3, <2>4 DEF Remove, diskVars
<1>7. UNCHANGED <<now, row, buf, pending, threadVars, cmd, batch, lastCleanup, segVars>>
  BY DEF DeleteExpired, DeleteOldest
<1>8. faults' \in Nat /\ crashes' \in Nat
  BY <1>3, FaultTyped DEF Remove
<1>9. QED
  BY <1>1, <1>4, <1>5, <1>6, <1>7, <1>8 DEF TypeOK, threadVars, segVars

LEMMA WriteEndTypeOK ==
  ASSUME TypeOK, NEW p \in Procs, WriteEnd(p)
  PROVE  TypeOK'
<1>1. Ids' = Ids /\ FileType' = FileType /\ CommandType' = CommandType
  BY SameIds DEF WriteEnd
<1>2. /\ thr \in [Procs -> ThreadStates] /\ cmd \in [Procs -> CommandType]
      /\ io \in [Procs -> LockType]
      /\ stp \in [Procs -> {"no", "join", "flush", "done", "raised"}]
  BY DEF TypeOK
<1>3. io' \in [Procs -> LockType]
  <2>1. Unlocked \in LockType
    BY DEF Unlocked, LockType, Owners, NoSeg
  <2>2. QED
    BY <1>2, <2>1 DEF WriteEnd
<1>4. thr' \in [Procs -> ThreadStates]
  BY <1>2 DEF WriteEnd, ThreadStates
<1>5. cmd' \in [Procs -> CommandType]
  BY <1>2 DEF WriteEnd, CommandType
<1>6. stp' \in [Procs -> {"no", "join", "flush", "done", "raised"}]
  BY <1>2 DEF WriteEnd
<1>7. QED
  BY <1>1, <1>3, <1>4, <1>5, <1>6 DEF WriteEnd, TypeOK, segVars, diskVars, boundVars

(* The steps of load_recent_persisted_events, and what they know of files. *)
Reading(p) ==
  FreezeList(p) \/ FreezeStat(p) \/ FreezeTail(p) \/ FreezeUnread(p) \/ FreezeMerge(p)

ReadsHome(p) ==
  /\ \A k \in cmd[p].listed \cup cmd[p].read : k.seg[2] = cmd[p].home
  /\ cmd[p].pc = "tail" => cmd[p].seg \in SegId /\ cmd[p].seg[2] = cmd[p].home

ReadInv == \A p \in Procs : IsFiniteSet(cmd[p].read) /\ ReadsHome(p)

(* A reader reads, changes its own command and nothing else. *)
LEMMA ReadingFrame ==
  ASSUME NEW p \in Procs, Reading(p)
  PROVE  /\ UNCHANGED <<now, row, buf, pending, threadVars, writerVars, segVars, diskVars, gone>>
         /\ Fault \/ UNCHANGED boundVars
         /\ cmd[p].pc \in {"read", "scan", "tail"}
  BY DEF Reading, FreezeList, FreezeStat, FreezeTail, FreezeUnread, FreezeMerge, Missing, NextFile

LEMMA AllowedTyped ==
  ASSUME TypeOK, NEW c, c \in CommandType, IsFiniteSet(c.read), Budget(c) > 0, NEW f \in SegId
  PROVE  /\ Allowed(c, f) \in Nat
         /\ Budget(c) = MaxBytes - Total(c.read) /\ Total(c.read) \in Nat
         /\ files[f].live /\ files[f].mtime >= c.at - Retention =>
              Allowed(c, f) = Budget(c) \/ Allowed(c, f) = files[f].size
<1>1. c.read \subseteq StatType /\ files[f].size \in Nat /\ MaxBytes \in Nat
  BY BoundsAssumption DEF TypeOK, CommandType, FileType
<1>2. Total(c.read) \in Nat
  BY <1>1, TotalFinite
<1>3. Budget(c) = MaxBytes - Total(c.read) /\ Budget(c) \in Nat
  BY <1>1, <1>2 DEF Budget
<1>4. Min({Budget(c), files[f].size}) \in {Budget(c), files[f].size}
  <2> DEFINE S == {Budget(c), files[f].size}
  <2>1. S \subseteq Nat /\ S # {}
    BY <1>1, <1>3
  <2> HIDE DEF S
  <2>2. Min(S) \in S
    BY <2>1, MinIsMember
  <2>3. QED
    BY <2>2 DEF S
<1>5. QED
  BY <1>1, <1>2, <1>3, <1>4 DEF Allowed

(* What a reader knows after each of its steps. *)
LEMMA ReadingFacts ==
  ASSUME TypeOK, ReadInv, NEW p \in Procs, Reading(p)
  PROVE  \E c \in CommandType :
           /\ cmd' = [cmd EXCEPT ![p] = c]
           /\ c.pc \in {"scan", "tail", "done"}
           /\ c.home = cmd[p].home /\ c.asked = cmd[p].asked /\ c.at = cmd[p].at
           /\ c.mem = cmd[p].mem
           /\ IsFiniteSet(c.read)
           /\ \A k \in c.listed \cup c.read : k.seg[2] = c.home
           /\ c.pc = "tail" => c.seg \in SegId /\ c.seg[2] = c.home
           /\ c.disk \subseteq cmd[p].disk \cup UNION {files[f].rows : f \in {g \in SegId : g[2] = c.home}}
           /\ c.out \subseteq cmd[p].out \cup cmd[p].mem \cup cmd[p].disk
<1>0. /\ cmd \in [Procs -> CommandType] /\ cmd[p] \in CommandType
      /\ files \in [SegId -> FileType]
      /\ IsFiniteSet(cmd[p].read) /\ ReadsHome(p)
  BY DEF TypeOK, ReadInv
<1>1. CASE FreezeList(p)
  <2>1. PICK missed \in SUBSET InDir(cmd[p].home) :
          cmd' = [cmd EXCEPT ![p] = [cmd[p] EXCEPT !.pc = "scan", !.failed = missed,
                                       !.listed = Stats(InDir(cmd[p].home) \ missed)]]
    BY <1>1 DEF FreezeList
  <2>2. Stats(InDir(cmd[p].home) \ missed) \subseteq StatType /\ missed \subseteq SegId
    BY <1>0 DEF Stats, StatType, InDir, FileType
  <2>3. \A k \in Stats(InDir(cmd[p].home) \ missed) : k.seg[2] = cmd[p].home
    BY DEF Stats, InDir
  <2> DEFINE listed == Stats(InDir(cmd[p].home) \ missed)
             c == [cmd[p] EXCEPT !.pc = "scan", !.failed = missed, !.listed = listed]
  <2> HIDE DEF listed
  <2>4. /\ c \in CommandType /\ c.pc = "scan" /\ c.listed = listed /\ c.read = cmd[p].read
        /\ c.home = cmd[p].home /\ c.asked = cmd[p].asked /\ c.at = cmd[p].at
        /\ c.mem = cmd[p].mem /\ c.disk = cmd[p].disk /\ c.out = cmd[p].out
    BY <1>0, <2>2 DEF CommandType, listed
  <2>5. cmd' = [cmd EXCEPT ![p] = c]
    BY <2>1 DEF listed
  <2>6. \A k \in listed \cup cmd[p].read : k.seg[2] = cmd[p].home
    BY <1>0, <2>3 DEF ReadsHome, listed
  <2> HIDE DEF c
  <2>7. QED
    BY <1>0, <2>4, <2>5, <2>6
<1>2. ASSUME NEW k \in cmd[p].listed, NEW n \in Nat, NEW pc \in {"scan", "tail"},
             NEW seg \in {k.seg, cmd[p].seg}, NEW failed \in SUBSET SegId,
             pc = "tail" => seg = k.seg,
             cmd' = [cmd EXCEPT ![p] =
               [cmd[p] EXCEPT !.pc = pc, !.seg = seg, !.failed = failed,
                              !.read = @ \cup {[k EXCEPT !.size = n]}]]
      PROVE  \E c \in CommandType :
           /\ cmd' = [cmd EXCEPT ![p] = c]
           /\ c.pc \in {"scan", "tail", "done"}
           /\ c.home = cmd[p].home /\ c.asked = cmd[p].asked /\ c.at = cmd[p].at
           /\ c.mem = cmd[p].mem
           /\ IsFiniteSet(c.read)
           /\ \A i \in c.listed \cup c.read : i.seg[2] = c.home
           /\ c.pc = "tail" => c.seg \in SegId /\ c.seg[2] = c.home
           /\ c.disk \subseteq cmd[p].disk \cup UNION {files[f].rows : f \in {g \in SegId : g[2] = c.home}}
           /\ c.out \subseteq cmd[p].out \cup cmd[p].mem \cup cmd[p].disk
  <2> DEFINE r == [k EXCEPT !.size = n]
             read == cmd[p].read \cup {r}
             c == [cmd[p] EXCEPT !.pc = pc, !.seg = seg, !.failed = failed, !.read = read]
  <2>1. k \in StatType
    BY <1>0 DEF CommandType
  <2>2. r \in StatType /\ r.seg = k.seg /\ k.seg \in SegId
    BY <2>1 DEF StatType
  <2> HIDE DEF r
  <2>3. read \subseteq StatType /\ IsFiniteSet(read)
    BY <1>0, <2>2, FS_AddElement DEF CommandType
  <2>4. \A i \in cmd[p].listed \cup read : i.seg[2] = cmd[p].home
    BY <1>0, <2>2 DEF ReadsHome
  <2> HIDE DEF read
  <2>5. /\ c \in CommandType /\ c.pc = pc /\ c.listed = cmd[p].listed /\ c.read = read
        /\ c.home = cmd[p].home /\ c.asked = cmd[p].asked /\ c.at = cmd[p].at
        /\ c.mem = cmd[p].mem /\ c.disk = cmd[p].disk /\ c.out = cmd[p].out /\ c.seg = seg
    BY <1>0, <1>2, <2>2, <2>3 DEF CommandType
  <2>6. cmd' = [cmd EXCEPT ![p] = c]
    BY <1>2 DEF r, read
  <2>7. k.seg[2] = cmd[p].home
    BY <1>0 DEF ReadsHome
  <2> HIDE DEF c
  <2>8. QED
    BY <1>2, <2>2, <2>3, <2>4, <2>5, <2>6, <2>7
<1>3. CASE FreezeStat(p)
  <2>1. PICK k \in cmd[p].listed :
          /\ Budget(cmd[p]) > 0
          /\ cmd' = [cmd EXCEPT ![p] =
            [cmd[p] EXCEPT !.pc = IF Allowed(cmd[p], k.seg) = 0 THEN "scan" ELSE "tail",
                           !.seg = k.seg,
                           !.read = @ \cup {[k EXCEPT !.size = Allowed(cmd[p], k.seg)]}]]
    BY <1>3 DEF FreezeStat, NextFile
  <2>2. k.seg \in SegId
    BY <1>0 DEF CommandType, StatType
  <2>3. Allowed(cmd[p], k.seg) \in Nat
    BY <1>0, <2>1, <2>2, AllowedTyped
  <2> DEFINE n == Allowed(cmd[p], k.seg)
             pc == IF n = 0 THEN "scan" ELSE "tail"
  <2>4. pc \in {"scan", "tail"} /\ cmd[p].failed \in SUBSET SegId
    BY <1>0 DEF CommandType
  <2>5. cmd' = [cmd EXCEPT ![p] =
               [cmd[p] EXCEPT !.pc = pc, !.seg = k.seg, !.failed = cmd[p].failed,
                              !.read = @ \cup {[k EXCEPT !.size = n]}]]
    BY <1>0, <2>1 DEF CommandType
  <2> HIDE DEF n, pc
  <2>6. n \in Nat
    BY <2>3 DEF n
  <2>7. QED
    BY <1>2, <2>4, <2>5, <2>6
<1>4. CASE FreezeUnread(p)
  <2>1. CASE \E k \in cmd[p].listed :
          /\ NextFile(cmd[p], k)
          /\ cmd' = [cmd EXCEPT ![p] =
               [cmd[p] EXCEPT !.read = @ \cup {[k EXCEPT !.size = 0]},
                              !.failed = @ \cup {k.seg}]]
    <3>1. PICK k \in cmd[p].listed :
          /\ NextFile(cmd[p], k)
          /\ cmd' = [cmd EXCEPT ![p] =
               [cmd[p] EXCEPT !.read = @ \cup {[k EXCEPT !.size = 0]},
                              !.failed = @ \cup {k.seg}]]
      BY <2>1
    <3>2. k.seg \in SegId /\ cmd[p].pc = "scan"
      BY <1>0, <3>1 DEF CommandType, StatType, NextFile
    <3>3. cmd[p].failed \cup {k.seg} \in SUBSET SegId
      BY <1>0, <3>2 DEF CommandType
    <3>4. cmd' = [cmd EXCEPT ![p] =
               [cmd[p] EXCEPT !.pc = "scan", !.seg = cmd[p].seg,
                              !.failed = cmd[p].failed \cup {k.seg},
                              !.read = @ \cup {[k EXCEPT !.size = 0]}]]
      BY <1>0, <3>1, <3>2 DEF CommandType
    <3>5. QED
      BY <1>2, <3>3, <3>4
  <2>2. CASE /\ cmd[p].pc = "tail"
             /\ cmd' = [cmd EXCEPT ![p] = [cmd[p] EXCEPT !.pc = "scan",
                                                      !.failed = @ \cup {cmd[p].seg}]]
    <3> DEFINE c == [cmd[p] EXCEPT !.pc = "scan", !.failed = @ \cup {cmd[p].seg}]
    <3>1. cmd[p].seg \in SegId
      BY <1>0, <2>2 DEF ReadsHome
    <3>2. /\ c \in CommandType /\ c.pc = "scan" /\ c.listed = cmd[p].listed /\ c.read = cmd[p].read
          /\ c.home = cmd[p].home /\ c.asked = cmd[p].asked /\ c.at = cmd[p].at
          /\ c.mem = cmd[p].mem /\ c.disk = cmd[p].disk /\ c.out = cmd[p].out
      BY <1>0, <3>1 DEF CommandType
    <3>3. cmd' = [cmd EXCEPT ![p] = c]
      BY <2>2
    <3>4. \A i \in cmd[p].listed \cup cmd[p].read : i.seg[2] = cmd[p].home
      BY <1>0 DEF ReadsHome
    <3> HIDE DEF c
    <3>5. QED
      BY <1>0, <3>2, <3>3, <3>4
  <2>3. QED
    BY <1>4, <2>1, <2>2 DEF FreezeUnread
<1>5. CASE FreezeTail(p)
  <2> DEFINE c == [cmd[p] EXCEPT !.pc = "scan", !.disk = cmd[p].disk \cup TailRows(cmd[p])]
  <2>1. cmd[p].seg \in SegId /\ cmd[p].seg[2] = cmd[p].home
    BY <1>0, <1>5 DEF FreezeTail, ReadsHome
  <2>2. TailRows(cmd[p]) \subseteq files[cmd[p].seg].rows
    BY DEF TailRows
  <2>3. files[cmd[p].seg].rows \subseteq Ids
    BY <1>0, <2>1 DEF FileType
  <2>4. TailRows(cmd[p]) \subseteq UNION {files[f].rows : f \in {g \in SegId : g[2] = cmd[p].home}}
    BY <2>1, <2>2
  <2>5. /\ c \in CommandType /\ c.pc = "scan" /\ c.listed = cmd[p].listed /\ c.read = cmd[p].read
        /\ c.home = cmd[p].home /\ c.asked = cmd[p].asked /\ c.at = cmd[p].at
        /\ c.mem = cmd[p].mem /\ c.disk = cmd[p].disk \cup TailRows(cmd[p]) /\ c.out = cmd[p].out
    BY <1>0, <2>2, <2>3 DEF CommandType
  <2>6. cmd' = [cmd EXCEPT ![p] = c]
    BY <1>0, <1>5 DEF FreezeTail, CommandType
  <2>7. \A i \in cmd[p].listed \cup cmd[p].read : i.seg[2] = cmd[p].home
    BY <1>0 DEF ReadsHome
  <2> HIDE DEF c
  <2>8. QED
    BY <1>0, <2>4, <2>5, <2>6, <2>7
<1>6. CASE FreezeMerge(p)
  <2> DEFINE out == Newest(cmd[p].mem \cup Newest(cmd[p].disk, MaxEvents), MaxEvents)
             c == [cmd[p] EXCEPT !.pc = "done", !.out = out]
  <2>1. out \subseteq cmd[p].mem \cup cmd[p].disk
    BY DEF Newest
  <2>2. cmd' = [cmd EXCEPT ![p] = c]
    BY <1>6 DEF FreezeMerge
  <2> HIDE DEF out
  <2>3. /\ c \in CommandType /\ c.pc = "done" /\ c.listed = cmd[p].listed /\ c.read = cmd[p].read
        /\ c.home = cmd[p].home /\ c.asked = cmd[p].asked /\ c.at = cmd[p].at
        /\ c.mem = cmd[p].mem /\ c.disk = cmd[p].disk /\ c.out = out
    BY <1>0, <2>1 DEF CommandType
  <2>4. \A i \in cmd[p].listed \cup cmd[p].read : i.seg[2] = cmd[p].home
    BY <1>0 DEF ReadsHome
  <2> HIDE DEF c
  <2>5. QED
    BY <1>0, <2>1, <2>2, <2>3, <2>4
<1>7. QED
  BY <1>1, <1>3, <1>4, <1>5, <1>6 DEF Reading

(* A command changes its own state and, in its process's memory, what is too *)
(* old to be kept there.                                                     *)
LEMMA CommandFrame ==
  ASSUME NEW p \in Procs, CommandStep(p)
  PROVE  /\ UNCHANGED <<now, row, pending, threadVars, writerVars, segVars, diskVars, gone>>
         /\ Fault \/ UNCHANGED boundVars
  BY ReadingFrame DEF CommandStep, Reading, FreezeCall, FreezeMemory, FreezeReturn

(* What a freeze copies from memory are events the process recorded. *)
LEMMA FreezeTypeOK ==
  ASSUME TypeOK, ReadInv, NEW p \in Procs, CommandStep(p)
  PROVE  TypeOK'
<1>1. Ids' = Ids /\ FileType' = FileType /\ CommandType' = CommandType
  BY SameIds, CommandFrame
<1>2. cmd \in [Procs -> CommandType] /\ buf \in [Procs -> SUBSET Ids] /\ now \in Nat
  BY DEF TypeOK
<1>3. \A S \in SUBSET Ids : \A n : Newest(S, n) \subseteq Ids /\ Newest(S, n) \subseteq S
  BY DEF Newest
<1>4. Trimmed(buf[p], row) \subseteq Ids
  BY <1>2, <1>3 DEF Trimmed
<1>5. buf' \in [Procs -> SUBSET Ids]
  BY <1>2, <1>4, ReadingFrame DEF CommandStep, FreezeCall, FreezeMemory, FreezeReturn, Reading
<1>6. cmd' \in [Procs -> CommandType]
  <2>1. CASE \E h \in Profiles : FreezeCall(p, h)
    <3>1. PICK h \in Homes, S \in SUBSET Ids :
            cmd' = [cmd EXCEPT ![p] = [NoCommand EXCEPT !.pc = "flush", !.home = h, !.asked = S]]
      BY <2>1 DEF FreezeCall, HomeOf, Profiles
    <3>2. [NoCommand EXCEPT !.pc = "flush", !.home = h, !.asked = S] \in CommandType
      BY DEF NoCommand, CommandType
    <3>3. QED
      BY <1>2, <3>1, <3>2
  <2>2. CASE FreezeMemory(p)
    <3>1. MemoryOf(p) \in SUBSET Ids
      BY <1>4 DEF MemoryOf, HomeOf
    <3>2. [cmd[p] EXCEPT !.pc = "read", !.at = now, !.mem = MemoryOf(p)] \in CommandType
      BY <1>2, <3>1 DEF CommandType
    <3>3. cmd' = [cmd EXCEPT ![p] = [cmd[p] EXCEPT !.pc = "read", !.at = now,
                                                   !.mem = MemoryOf(p)]]
      BY <2>2 DEF FreezeMemory
    <3>4. QED
      BY <1>2, <3>2, <3>3
  <2>3. CASE Reading(p)
    BY <1>2, <2>3, ReadingFacts
  <2>4. CASE FreezeReturn(p)
    BY <1>2, <2>4 DEF FreezeReturn, NoCommand, CommandType
  <2>5. QED
    BY <2>1, <2>2, <2>3, <2>4 DEF CommandStep, Reading
<1>7. UNCHANGED <<now, row, pending, threadVars, writerVars, segVars, diskVars, gone>>
  BY CommandFrame
<1>8. faults' \in Nat /\ crashes' \in Nat
  BY FaultTyped, CommandFrame
<1>9. QED
  BY <1>1, <1>5, <1>6, <1>7, <1>8 DEF TypeOK, threadVars, writerVars, segVars, diskVars

LEMMA CrashTypeOK ==
  ASSUME TypeOK, NEW p \in Procs, Crash(p)
  PROVE  TypeOK'
<1>1. Ids' = Ids /\ FileType' = FileType /\ CommandType' = CommandType
  BY SameIds DEF Crash
<1>2. /\ NoCommand \in CommandType /\ Unlocked \in LockType /\ NoCleanup \in CleanupType
      /\ Never \in Int
  BY BoundsAssumption DEF NoCommand, CommandType, Unlocked, LockType, Owners, NoSeg,
                          NoCleanup, CleanupType, Never
<1>3. /\ buf' \in [Procs -> SUBSET Ids] /\ pending' \in [Procs -> SUBSET Ids]
      /\ batch' \in [Procs -> SUBSET Ids] /\ gone' \subseteq Ids
      /\ dirsSeen' \in [Procs -> SUBSET Homes]
  BY DEF Crash, TypeOK
<1>4. /\ hook' \in [Procs -> [Hooks -> {"idle", "recorded", "starting"}]]
      /\ thr' \in [Procs -> ThreadStates]
      /\ wake' \in [Procs -> BOOLEAN] /\ stopSet' \in [Procs -> BOOLEAN]
      /\ stp' \in [Procs -> {"no", "join", "flush", "done", "raised"}]
  BY DEF Crash, TypeOK, ThreadStates
<1>5. /\ cmd' \in [Procs -> CommandType] /\ io' \in [Procs -> LockType]
      /\ clean' \in [Procs -> CleanupType] /\ lastCleanup' \in [Procs -> Int]
  BY <1>2 DEF Crash, TypeOK
<1>6. segs' \in [Procs -> [Homes -> 0..MaxSegs]]
  BY BoundsAssumption DEF Crash, TypeOK
<1>7. crashes' \in Nat
  BY DEF Crash, TypeOK
<1>8. QED
  BY <1>1, <1>3, <1>4, <1>5, <1>6, <1>7 DEF Crash, TypeOK, diskVars

LEMMA TickTypeOK == TypeOK /\ Tick => TypeOK'
  BY SameIds DEF Tick, TypeOK, threadVars, writerVars, segVars, diskVars, boundVars

(* One step preserves the types, given who holds the lock. *)
LEMMA NextTypeOK ==
  ASSUME TypeOK, LockInv, ReadInv, [Next]_vars
  PROVE  TypeOK'
<1>1. CASE \E p \in Procs : HookStep(p)
  <2>1. PICK p \in Procs : HookStep(p)
    BY <1>1
  <2>2. ASSUME NEW t \in Hooks, NEW h \in Profiles, Record(p, t, h) \/ RecordAstray(p, t, h)
        PROVE  TypeOK'
    BY <2>2, RecordEnters, RecordTypeOK
  <2>3. QED
    BY <2>1, <2>2, ThreadTypeOK DEF HookStep
<1>2. CASE \E p \in Procs : FlusherTop(p) \/ FlusherWake(p)
  BY <1>2, ThreadTypeOK
<1>3. CASE \E p \in Procs : WriteStep(p)
  <2>1. PICK p \in Procs : WriteStep(p)
    BY <1>3
  <2>2. CASE AppendWrite(p) \/ AppendTorn(p)
    BY <2>2, WriteTypeOK DEF LockInv, LockedBy, AppendWrite, AppendTorn
  <2>3. CASE ~(AppendWrite(p) \/ AppendTorn(p))
    BY <2>1, <2>3, TakeTypeOK, OpenTypeOK, FailsTypeOK, CleanupTypeOK, DeleteTypeOK,
       WriteEndTypeOK DEF WriteStep
  <2>4. QED
    BY <2>2, <2>3
<1>4. CASE \E p \in Procs : StopCall(p) \/ StopJoin(p)
  BY <1>4, ThreadTypeOK
<1>5. CASE \E p \in Procs : CommandStep(p)
  BY <1>5, FreezeTypeOK
<1>6. CASE \E p \in Procs : Crash(p)
  BY <1>6, CrashTypeOK
<1>7. CASE Tick
  BY <1>7, TickTypeOK
<1>8. CASE UNCHANGED vars
  BY <1>8, SameIds DEF vars, TypeOK, threadVars, writerVars, segVars, diskVars, boundVars
<1>9. QED
  BY <1>1, <1>2, <1>3, <1>4, <1>5, <1>6, <1>7, <1>8 DEF Next

-----------------------------------------------------------------------------
(* The lock: who is inside _write_pending, and what that says of the batch.  *)

LEMMA RowsKept ==
  ASSUME TypeOK, [Next]_vars
  PROVE  /\ Ids \subseteq Ids'
         /\ \A e \in Ids : row'[e] = row[e]
<1>1. ASSUME NEW p \in Procs, NEW t \in Hooks, NEW h \in Profiles,
             Record(p, t, h) \/ RecordAstray(p, t, h)
      PROVE  Ids \subseteq Ids' /\ \A e \in Ids : row'[e] = row[e]
  <2>1. PICK d \in Homes : Entered(p, t, h, d) /\ h \in Homes
    BY <1>1, RecordEnters
  <2>2. [profile |-> h, home |-> d, ts |-> now, proc |-> p] \in RowType
    BY <2>1 DEF TypeOK, RowType
  <2>3. QED
    BY <2>1, <2>2, IdsGrow DEF Entered, Enter
<1>2. CASE row' = row
  BY <1>2, SameIds
<1>3. ASSUME NEW p \in Procs, CommandStep(p) PROVE row' = row
  BY <1>3, CommandFrame
<1>4. QED
  BY <1>1, <1>2, <1>3
     DEF Next, HookStep, WriteStep, EnsureFlusher, StartThread, RequestFlush,
         FlusherTop, FlusherWake, TakePending, AppendOpen, AppendFails, AppendWrite,
         AppendTorn, CleanupStart, CleanupScan, DeleteExpired, DeleteOldest, CleanupDone,
         WriteEnd, StopCall, StopJoin, Crash, Tick, vars

(* The directory of the group written next does not depend on later events. *)
LEMMA GroupDirKept ==
  ASSUME TypeOK, [Next]_vars, NEW q \in Procs, batch[q] # {}, batch'[q] = batch[q]
  PROVE  GroupDir(q)' = GroupDir(q)
<1>1. batch[q] \subseteq Ids
  BY DEF TypeOK
<1>2. Min(batch[q]) \in Ids
  BY <1>1, RowsFinite, MinIsMember
<1>3. QED
  BY <1>2, RowsKept DEF GroupDir

LEMMA InitLockInv == Init => LockInv
  BY DEF Init, LockInv, LockedBy, NoCommand, Unlocked

(* Steps outside _write_pending leave the lock alone. *)
LEMMA OutsideLockInv ==
  ASSUME TypeOK, LockInv, [Next]_vars, NEW p \in Procs,
         UNCHANGED <<io, batch>>,
         \A q \in Procs : /\ cmd'[q].pc # "idle" => cmd'[q].home \in Homes
                          /\ io[q].owner = "cmd" => cmd'[q].pc = "flush"
                          /\ io[q].owner = "stop" => stp'[q] = "flush"
  PROVE  LockInv'
<1>1. \A q \in Procs : io[q].stage = "opened" => GroupDir(q)' = GroupDir(q)
  BY GroupDirKept DEF LockInv, LockedBy
<1>2. QED
  BY <1>1 DEF LockInv, LockedBy

(* A step of p inside _write_pending: the other processes' locks are as they *)
(* were, though one may learn nothing of a segment p has deleted.            *)
LEMMA InsideLockInv ==
  ASSUME TypeOK, LockInv, [Next]_vars, NEW p \in Procs, LockedBy(p)',
         \A q \in Procs \ {p} :
           /\ batch'[q] = batch[q] /\ cmd'[q] = cmd[q] /\ stp'[q] = stp[q]
           /\ io'[q].owner = io[q].owner /\ io'[q].stage = io[q].stage
           /\ io'[q].seg = io[q].seg
  PROVE  LockInv'
<1>1. \A q \in Procs \ {p} : io[q].stage = "opened" => GroupDir(q)' = GroupDir(q)
  BY GroupDirKept DEF LockInv, LockedBy
<1>2. \A q \in Procs \ {p} : LockedBy(q)'
  BY <1>1 DEF LockInv, LockedBy
<1>3. QED
  BY <1>2 DEF LockInv

LEMMA OpenLockInv ==
  ASSUME TypeOK, LockInv, [Next]_vars, NEW p \in Procs, AppendOpen(p)
  PROVE  LockInv'
<1> DEFINE d == GroupDir(p)
           f == <<p, d, TargetNumber(p, d)>>
<1>1. d \in Homes /\ TargetNumber(p, d) \in 1..MaxSegs
  BY GroupFacts, TargetFacts DEF AppendOpen
<1>2. f \in SegId /\ f[1] = p /\ f[2] = d
  BY <1>1 DEF SegId
<1>3. GroupDir(p)' = d
  BY GroupDirKept DEF AppendOpen
<1> HIDE DEF f, d
<1>4. io \in [Procs -> LockType] /\ LockedBy(p) /\ batch[p] # {} /\ io[p].stage = "append"
  BY DEF TypeOK, LockInv, AppendOpen
<1>5. io' = [io EXCEPT ![p].stage = "opened", ![p].seg = f, ![p].linked = TRUE]
  BY DEF AppendOpen, f, d
<1>6. /\ io'[p].stage = "opened" /\ io'[p].seg = f /\ io'[p].owner = io[p].owner
      /\ \A q \in Procs \ {p} : io'[q] = io[q]
  BY <1>4, <1>5 DEF LockType
<1>7. UNCHANGED <<batch, cmd, stp>>
  BY DEF AppendOpen, threadVars
<1>8. LockedBy(p)'
  BY <1>2, <1>3, <1>4, <1>6, <1>7 DEF LockedBy
<1>9. QED
  BY <1>6, <1>7, <1>8, InsideLockInv

LEMMA WriteLockInv ==
  ASSUME TypeOK, LockInv, [Next]_vars, NEW p \in Procs,
         AppendFails(p) \/ AppendWrite(p) \/ AppendTorn(p)
  PROVE  LockInv'
<1>1. io \in [Procs -> LockType] /\ batch \in [Procs -> SUBSET Ids] /\ LockedBy(p)
  BY DEF TypeOK, LockInv
<1>2. /\ io'[p].stage = "append" /\ io'[p].owner = io[p].owner
      /\ io[p].stage \in {"append", "opened"}
      /\ \A q \in Procs \ {p} : io'[q] = io[q] /\ batch'[q] = batch[q]
  <2>1. CASE AppendFails(p)
    BY <1>1, <2>1 DEF AppendFails
  <2>2. CASE AppendWrite(p) \/ AppendTorn(p)
    <3>1. /\ io' = [io EXCEPT ![p].stage = "append", ![p].seg = NoSeg, ![p].linked = FALSE]
          /\ io[p].stage = "opened"
          /\ batch' = [batch EXCEPT ![p] = @ \ Group(p)]
      BY <2>2 DEF AppendWrite, AppendTorn, WriteRows
    <3>2. QED
      BY <1>1, <3>1 DEF LockType
  <2>3. QED
    BY <2>1, <2>2
<1>3. UNCHANGED <<cmd, stp>>
  BY DEF AppendFails, AppendWrite, AppendTorn, threadVars
<1>4. LockedBy(p)'
  BY <1>1, <1>2, <1>3 DEF LockedBy
<1>5. QED
  BY <1>2, <1>3, <1>4, InsideLockInv

LEMMA TakeLockInv ==
  ASSUME TypeOK, LockInv, [Next]_vars, NEW p \in Procs, NEW o \in Owners, TakePending(p, o)
  PROVE  LockInv'
<1>1. /\ io \in [Procs -> LockType] /\ batch \in [Procs -> SUBSET Ids] /\ LockedBy(p)
      /\ o # "free"
  BY DEF TypeOK, LockInv, Owners
<1>2. /\ io'[p].stage = "append" /\ io'[p].owner = o
      /\ \A q \in Procs \ {p} : io'[q] = io[q] /\ batch'[q] = batch[q]
  BY <1>1 DEF TakePending, Unlocked
<1>3. UNCHANGED <<cmd, stp>>
  BY DEF TakePending, threadVars
<1>4. LockedBy(p)'
  BY <1>1, <1>2, <1>3 DEF LockedBy, TakePending, Wants
<1>5. QED
  BY <1>2, <1>3, <1>4, InsideLockInv

LEMMA CleanupLockInv ==
  ASSUME TypeOK, LockInv, [Next]_vars, NEW p \in Procs,
         \/ CleanupStart(p) \/ CleanupScan(p) \/ CleanupDone(p)
         \/ DeleteExpired(p) \/ DeleteOldest(p)
  PROVE  LockInv'
<1>1. io \in [Procs -> LockType] /\ LockedBy(p)
  BY DEF TypeOK, LockInv
<1>2. UNCHANGED <<batch, cmd, stp>>
  BY DEF CleanupStart, CleanupScan, CleanupDone, DeleteExpired, DeleteOldest, threadVars
<1>3. CASE CleanupStart(p) \/ CleanupScan(p) \/ CleanupDone(p)
  <2>1. PICK s \in {"clean", "delete"} : io' = [io EXCEPT ![p].stage = s]
    BY <1>3 DEF CleanupStart, CleanupScan, CleanupDone
  <2>2. batch[p] = {} /\ io[p].stage # "none"
    BY <1>1, <1>3 DEF CleanupStart, CleanupScan, CleanupDone, LockedBy
  <2>3. /\ io'[p].stage = s /\ io'[p].owner = io[p].owner
        /\ \A q \in Procs \ {p} : io'[q] = io[q]
    BY <1>1, <2>1 DEF LockType
  <2>4. LockedBy(p)'
    BY <1>1, <1>2, <2>2, <2>3 DEF LockedBy
  <2>5. QED
    BY <1>2, <2>3, <2>4, InsideLockInv
<1>4. CASE DeleteExpired(p) \/ DeleteOldest(p)
  <2>1. PICK f : io' = [q \in Procs |-> Cut(q, f, io[q])] \/ io' = io
    BY <1>4 DEF DeleteExpired, DeleteOldest, Remove
  <2>2. io[p].stage = "delete"
    BY <1>4 DEF DeleteExpired, DeleteOldest
  <2>3. \A q \in Procs : /\ io'[q].owner = io[q].owner /\ io'[q].stage = io[q].stage
                         /\ io'[q].seg = io[q].seg
    BY <1>1, <2>1 DEF Cut, LockType
  <2>4. LockedBy(p)'
    BY <1>1, <1>2, <2>2, <2>3 DEF LockedBy
  <2>5. QED
    BY <1>2, <2>3, <2>4, InsideLockInv
<1>5. QED
  BY <1>3, <1>4

LEMMA EndLockInv ==
  ASSUME TypeOK, LockInv, [Next]_vars, NEW p \in Procs, WriteEnd(p) \/ Crash(p)
  PROVE  LockInv'
<1>1. /\ io \in [Procs -> LockType] /\ batch \in [Procs -> SUBSET Ids] /\ LockedBy(p)
      /\ cmd \in [Procs -> CommandType]
      /\ stp \in [Procs -> {"no", "join", "flush", "done", "raised"}]
  BY DEF TypeOK, LockInv
<1>2. io' = [io EXCEPT ![p] = Unlocked]
  BY DEF WriteEnd, Crash
<1>3. /\ \A q \in Procs \ {p} : /\ io'[q] = io[q] /\ batch'[q] = batch[q]
                               /\ cmd'[q] = cmd[q] /\ stp'[q] = stp[q]
      /\ io'[p] = Unlocked /\ batch'[p] = {}
  BY <1>1, <1>2 DEF WriteEnd, Crash, LockedBy
<1>4. cmd'[p].pc # "idle" => cmd'[p].home \in Homes
  BY <1>1 DEF WriteEnd, Crash, LockedBy, NoCommand, CommandType
<1>5. LockedBy(p)'
  BY <1>3, <1>4 DEF LockedBy, Unlocked
<1>6. QED
  BY <1>3, <1>5, InsideLockInv

LEMMA NextLockInv ==
  ASSUME TypeOK, LockInv, ReadInv, [Next]_vars
  PROVE  LockInv'
<1>0. cmd \in [Procs -> CommandType]
  BY DEF TypeOK
<1>1. ASSUME NEW p \in Procs, HookStep(p) \/ FlusherTop(p) \/ FlusherWake(p)
      PROVE  LockInv'
  <2>1. UNCHANGED <<io, batch, cmd, stp>>
    BY <1>1 DEF HookStep, Record, RecordAstray, Enter, EnsureFlusher, StartThread, RequestFlush,
                FlusherTop, FlusherWake, writerVars, threadVars
  <2>2. QED
    BY <1>1, <2>1, OutsideLockInv DEF LockInv, LockedBy
<1>2. ASSUME NEW p \in Procs, WriteStep(p)
      PROVE  LockInv'
  BY <1>2, TakeLockInv, OpenLockInv, WriteLockInv, CleanupLockInv, EndLockInv DEF WriteStep
<1>3. ASSUME NEW p \in Procs, StopCall(p) \/ StopJoin(p)
      PROVE  LockInv'
  <2>1. UNCHANGED <<io, batch, cmd>>
    BY <1>3 DEF StopCall, StopJoin, writerVars
  <2>2. \A q \in Procs : io[q].owner = "stop" => stp'[q] = "flush"
    BY <1>3 DEF StopCall, StopJoin, LockInv, LockedBy, TypeOK
  <2>3. QED
    BY <1>3, <2>1, <2>2, OutsideLockInv DEF LockInv, LockedBy
<1>4. ASSUME NEW p \in Procs, CommandStep(p)
      PROVE  LockInv'
  <2>1. UNCHANGED <<io, batch, stp>>
    BY <1>4, CommandFrame DEF writerVars, threadVars
  <2>2. /\ \A q \in Procs \ {p} : cmd'[q] = cmd[q]
        /\ cmd'[p].pc # "idle" => cmd'[p].home \in Homes
        /\ io[p].owner # "cmd"
    <3>1. cmd[p].pc # "idle" => cmd[p].home \in Homes
      BY DEF LockInv, LockedBy
    <3>2. io[p].owner # "cmd"
      BY <1>4, ReadingFrame DEF CommandStep, Reading, FreezeCall, FreezeMemory, FreezeReturn,
                                Flushed, LockInv, LockedBy
    <3>3. CASE \E h \in Profiles : FreezeCall(p, h)
      BY <1>0, <3>2, <3>3 DEF FreezeCall, NoCommand, Profiles
    <3>4. CASE FreezeMemory(p)
      BY <1>0, <3>1, <3>2, <3>4 DEF FreezeMemory, Flushed, CommandType
    <3>5. CASE Reading(p)
      <4>1. PICK c : cmd' = [cmd EXCEPT ![p] = c] /\ c.home = cmd[p].home
        BY <3>5, ReadingFacts
      <4>2. cmd[p].pc # "idle"
        BY <3>5, ReadingFrame
      <4>3. QED
        BY <1>0, <3>1, <3>2, <4>1, <4>2
    <3>6. CASE FreezeReturn(p)
      BY <1>0, <3>2, <3>6 DEF FreezeReturn, NoCommand
    <3>7. QED
      BY <1>4, <3>3, <3>4, <3>5, <3>6 DEF CommandStep, Reading
  <2>3. QED
    BY <1>4, <2>1, <2>2, OutsideLockInv DEF LockInv, LockedBy
<1>5. ASSUME NEW p \in Procs, Crash(p)
      PROVE  LockInv'
  BY <1>5, EndLockInv
<1>6. CASE Tick \/ UNCHANGED vars
  <2>1. UNCHANGED <<io, batch, cmd, stp, row>>
    BY <1>6 DEF Tick, vars, writerVars, threadVars
  <2>2. QED
    BY <2>1, <1>6 DEF LockInv, LockedBy, GroupDir
<1>7. QED
  BY <1>1, <1>2, <1>3, <1>4, <1>5, <1>6 DEF Next

-----------------------------------------------------------------------------
(* What a step does to the rows: one of six moves.                           *)

RowsIn == [f \in SegId |-> files[f].rows]

(* A new event enters some process's memory, or (stopped) is never written.  *)
MoveAccept(p, profile, h) ==
  /\ h \in {profile, Cwd}
  /\ Len(row) < NEvents
  /\ row' = Append(row, [profile |-> profile, home |-> h, ts |-> now, proc |-> p])
  /\ \/ pending' = [pending EXCEPT ![p] = @ \cup {Len(row) + 1}] /\ gone' = gone
     \/ pending' = pending /\ gone' = gone \cup {Len(row) + 1}
  /\ batch' = batch
  /\ RowsIn' = RowsIn

MoveNothing == UNCHANGED <<row, pending, batch, gone, RowsIn>>

MoveTake(p) ==
  /\ batch[p] = {}
  /\ batch' = [batch EXCEPT ![p] = pending[p]]
  /\ pending' = [pending EXCEPT ![p] = {}]
  /\ UNCHANGED <<row, gone, RowsIn>>

(* Of the group, the rows in W reach segment f and the others are lost. *)
MoveCommit(p, f, W) ==
  /\ batch[p] # {}
  /\ f[1] = p /\ f[2] = GroupDir(p)
  /\ W \subseteq Group(p)
  /\ batch' = [batch EXCEPT ![p] = @ \ Group(p)]
  /\ RowsIn' = [RowsIn EXCEPT ![f] = @ \cup W]
  /\ gone' = gone \cup (Group(p) \ W)
  /\ UNCHANGED <<row, pending>>

MoveDelete(f) ==
  /\ RowsIn' = [RowsIn EXCEPT ![f] = {}]
  /\ gone' = gone \cup RowsIn[f]
  /\ UNCHANGED <<row, pending, batch>>

MoveCrash(p) ==
  /\ pending' = [pending EXCEPT ![p] = {}]
  /\ batch' = [batch EXCEPT ![p] = {}]
  /\ gone' = gone \cup pending[p] \cup batch[p]
  /\ UNCHANGED <<row, RowsIn>>

Move ==
  \/ \E p \in Procs, profile \in Homes, h \in Homes : MoveAccept(p, profile, h)
  \/ MoveNothing
  \/ \E p \in Procs : MoveTake(p)
  \/ \E p \in Procs, f \in SegId, W \in SUBSET Ids : MoveCommit(p, f, W)
  \/ \E f \in SegId : MoveDelete(f)
  \/ \E p \in Procs : MoveCrash(p)

LEMMA RowsInSame == files' = files => RowsIn' = RowsIn
  BY DEF RowsIn



LEMMA InitNothingDead == Init => NothingDead
  BY DEF Init, NothingDead, NoFile

LEMMA NextNothingDead ==
  ASSUME TypeOK, LockInv, NothingDead, [Next]_vars
  PROVE  NothingDead'
<1>1. files \in [SegId -> FileType]
  BY DEF TypeOK
<1>2. CASE files' = files
  BY <1>2 DEF NothingDead
<1>3. ASSUME NEW f \in SegId, NEW r, files' = [files EXCEPT ![f] = r], r.live \/ r.rows = {}
      PROVE  NothingDead'
  BY <1>1, <1>3 DEF NothingDead
<1>4. ASSUME NEW p \in Procs, AppendOpen(p)
      PROVE  NothingDead'
  <2> DEFINE f == <<p, GroupDir(p), TargetNumber(p, GroupDir(p))>>
             r == [NoFile EXCEPT !.live = TRUE, !.mtime = now, !.nth = stamp]
  <2>1. GroupDir(p) \in Homes /\ TargetNumber(p, GroupDir(p)) \in 1..MaxSegs
    BY <1>4, GroupFacts, TargetFacts DEF AppendOpen
  <2>2. f \in SegId
    BY <2>1 DEF SegId
  <2>3. files' = files \/ files' = [files EXCEPT ![f] = r]
    BY <1>4 DEF AppendOpen, diskVars
  <2>4. r.live
    BY DEF NoFile
  <2>5. QED
    BY <1>2, <1>3, <2>2, <2>3, <2>4
<1>5. ASSUME NEW p \in Procs, AppendWrite(p) \/ AppendTorn(p)
      PROVE  NothingDead'
  <2>1. io[p].seg \in SegId
    BY <1>5 DEF AppendWrite, AppendTorn, LockInv, LockedBy
  <2>2. PICK written, torn : WriteRows(p, written, torn)
    BY <1>5 DEF AppendWrite, AppendTorn
  <2>3. CASE ~io[p].linked
    BY <1>2, <2>2, <2>3 DEF WriteRows, diskVars
  <2>4. CASE io[p].linked
    <3>1. PICK r : files' = [files EXCEPT ![io[p].seg] = r] /\ r.live
      BY <2>2, <2>4 DEF WriteRows
    <3>2. QED
      BY <1>3, <2>1, <3>1
  <2>5. QED
    BY <2>3, <2>4
<1>6. ASSUME NEW p \in Procs, DeleteExpired(p) \/ DeleteOldest(p)
      PROVE  NothingDead'
  <2>1. PICK f \in SegId, rest \in CleanupType : Remove(p, f, rest)
    BY <1>6, DeleteRemoves
  <2>2. NoFile.rows = {}
    BY DEF NoFile
  <2>3. QED
    BY <1>2, <1>3, <2>1, <2>2 DEF Remove, Unlink, diskVars
<1>7. ASSUME NEW p \in Procs, CommandStep(p)
      PROVE  NothingDead'
  BY <1>2, <1>7, CommandFrame DEF diskVars
<1>8. ASSUME NEW p \in Procs, HookStep(p)
      PROVE  NothingDead'
  BY <1>2, <1>8 DEF HookStep, Record, RecordAstray, Enter, EnsureFlusher, StartThread,
                    RequestFlush, diskVars
<1>9. QED
  BY <1>2, <1>4, <1>5, <1>6, <1>7, <1>8
     DEF Next, WriteStep, FlusherTop, FlusherWake, TakePending, AppendFails, CleanupStart,
         CleanupScan, CleanupDone, WriteEnd, StopCall, StopJoin, Crash, Tick, vars, diskVars

LEMMA OpenMoves ==
  ASSUME TypeOK, NothingDead, NEW p \in Procs, AppendOpen(p)
  PROVE  MoveNothing
<1> DEFINE f == <<p, GroupDir(p), TargetNumber(p, GroupDir(p))>>
<1>1. files \in [SegId -> FileType]
  BY DEF TypeOK
<1>2. RowsIn' = RowsIn
  <2>1. CASE files[f].live
    BY <2>1 DEF AppendOpen, diskVars, RowsIn
  <2>2. CASE ~files[f].live
    <3> DEFINE r == [NoFile EXCEPT !.live = TRUE, !.mtime = now, !.nth = stamp]
    <3>1. files' = [files EXCEPT ![f] = r]
      BY <2>2 DEF AppendOpen
    <3>2. r.rows = {}
      BY DEF NoFile
    <3>3. f \in SegId => files[f].rows = {}
      BY <2>2 DEF NothingDead
    <3> HIDE DEF f, r
    <3>4. QED
      BY <1>1, <3>1, <3>2, <3>3 DEF RowsIn
  <2>3. QED
    BY <2>1, <2>2
<1>3. QED
  BY <1>2 DEF AppendOpen, MoveNothing

LEMMA WriteRowsMoves ==
  ASSUME TypeOK, LockInv, NEW p \in Procs, io[p].stage = "opened",
         NEW written \in SUBSET Group(p), NEW torn, WriteRows(p, written, torn),
         UNCHANGED <<row, pending>>
  PROVE  \E f \in SegId, W \in SUBSET Ids : MoveCommit(p, f, W)
<1> DEFINE f == io[p].seg
           W == IF io[p].linked THEN Readable(p, written) ELSE {}
<1>1. f \in SegId /\ f[1] = p /\ f[2] = GroupDir(p) /\ batch[p] # {}
  BY DEF LockInv, LockedBy
<1>2. W \subseteq Group(p)
  BY DEF Readable
<1>3. Group(p) \subseteq Ids
  BY <1>1, GroupFacts DEF TypeOK
<1>4. files \in [SegId -> FileType]
  BY DEF TypeOK
<1>5. RowsIn' = [RowsIn EXCEPT ![f] = @ \cup W]
  <2>1. CASE io[p].linked
    <3>1. PICK r : /\ files' = [files EXCEPT ![f] = r]
                   /\ r.rows = files[f].rows \cup Readable(p, written)
      BY <2>1 DEF WriteRows
    <3> HIDE DEF f
    <3>2. QED
      BY <1>1, <1>4, <2>1, <3>1 DEF RowsIn
  <2>2. CASE ~io[p].linked
    BY <1>1, <2>2 DEF WriteRows, diskVars, RowsIn
  <2>3. QED
    BY <2>1, <2>2
<1>6. gone' = gone \cup (Group(p) \ W)
  BY DEF WriteRows
<1>7. batch' = [batch EXCEPT ![p] = @ \ Group(p)]
  BY DEF WriteRows
<1> HIDE DEF f, W
<1>8. MoveCommit(p, f, W)
  BY <1>1, <1>2, <1>5, <1>6, <1>7 DEF MoveCommit
<1>9. QED
  BY <1>1, <1>2, <1>3, <1>8

LEMMA FailsMoves ==
  ASSUME TypeOK, NEW p \in Procs, AppendFails(p)
  PROVE  \E f \in SegId, W \in SUBSET Ids : MoveCommit(p, f, W)
<1> DEFINE f == <<p, GroupDir(p), TargetNumber(p, GroupDir(p))>>
<1>1. GroupDir(p) \in Homes /\ TargetNumber(p, GroupDir(p)) \in 1..MaxSegs
  BY GroupFacts, TargetFacts DEF AppendFails
<1>2. f \in SegId /\ f[1] = p /\ f[2] = GroupDir(p)
  BY <1>1 DEF SegId
<1>3. RowsIn' = [RowsIn EXCEPT ![f] = @ \cup {}]
  <2> HIDE DEF f
  <2>1. QED
    BY <1>2 DEF AppendFails, diskVars, RowsIn
<1> HIDE DEF f
<1>4. MoveCommit(p, f, {})
  BY <1>2, <1>3 DEF AppendFails, MoveCommit
<1>5. QED
  BY <1>2, <1>4

LEMMA DeleteMoves ==
  ASSUME TypeOK, NEW p \in Procs, DeleteExpired(p) \/ DeleteOldest(p)
  PROVE  MoveNothing \/ \E f \in SegId : MoveDelete(f)
<1>1. PICK f \in SegId, rest \in CleanupType : Remove(p, f, rest)
  BY DeleteRemoves
<1>2. files \in [SegId -> FileType] /\ NoFile.rows = {}
  BY DEF TypeOK, NoFile
<1>3. UNCHANGED <<row, pending, batch>>
  BY DEF DeleteExpired, DeleteOldest
<1>4. CASE Unlink(f)
  <2>1. RowsIn' = [RowsIn EXCEPT ![f] = {}]
    BY <1>2, <1>4 DEF Unlink, RowsIn
  <2>2. gone' = gone \cup RowsIn[f]
    BY <1>4 DEF Unlink, RowsIn
  <2>3. QED
    BY <1>3, <2>1, <2>2 DEF MoveDelete
<1>5. CASE UNCHANGED <<diskVars, gone>>
  BY <1>3, <1>5, RowsInSame DEF MoveNothing, diskVars
<1>6. QED
  BY <1>1, <1>4, <1>5 DEF Remove

(* Every step of the recorder is one of the moves. *)
LEMMA NextMoves ==
  ASSUME TypeOK, LockInv, NothingDead, [Next]_vars
  PROVE  Move
<1>1. ASSUME NEW p \in Procs, NEW t \in Hooks, NEW h \in Profiles,
             Record(p, t, h) \/ RecordAstray(p, t, h)
      PROVE  Move
  <2>1. PICK d \in {h, Cwd} : d \in Homes /\ Entered(p, t, h, d)
    BY <1>1, RecordEnters
  <2>2. PICK kept \in BOOLEAN : Enter(p, t, h, d, kept)
    BY <2>1 DEF Entered
  <2>3. h \in Homes
    BY DEF Profiles
  <2>4. CASE kept
    BY <2>1, <2>2, <2>3, <2>4, RowsInSame DEF Enter, MoveAccept, Move, writerVars, diskVars
  <2>5. CASE ~kept
    <3>1. pending' = pending
      BY <2>2, <2>5 DEF Enter, TypeOK
    <3>2. QED
      BY <2>1, <2>2, <2>3, <2>5, <3>1, RowsInSame
         DEF Enter, MoveAccept, Move, writerVars, diskVars
  <2>6. QED
    BY <2>4, <2>5
<1>2. ASSUME NEW p \in Procs, NEW o \in Owners, TakePending(p, o)
      PROVE  MoveTake(p)
  BY <1>2, RowsInSame DEF TakePending, MoveTake, diskVars, Taken, Left, LockInv, LockedBy
<1>3. ASSUME NEW p \in Procs, AppendWrite(p) \/ AppendTorn(p)
      PROVE  \E f \in SegId, W \in SUBSET Ids : MoveCommit(p, f, W)
  <2>1. CASE AppendWrite(p)
    BY <2>1, WriteRowsMoves DEF AppendWrite
  <2>2. CASE AppendTorn(p)
    <3>1. PICK W \in SUBSET Group(p), torn \in BOOLEAN : WriteRows(p, W, torn)
      BY <2>2 DEF AppendTorn
    <3>2. QED
      BY <2>2, <3>1, WriteRowsMoves DEF AppendTorn
  <2>3. QED
    BY <1>3, <2>1, <2>2
<1>4. ASSUME NEW p \in Procs, Crash(p)
      PROVE  MoveCrash(p)
  BY <1>4, RowsInSame DEF Crash, MoveCrash, diskVars
<1>5. ASSUME UNCHANGED <<row, pending, batch, files, gone>>
      PROVE  MoveNothing
  BY <1>5, RowsInSame DEF MoveNothing
<1>6. ASSUME NEW p \in Procs, HookStep(p)
      PROVE  Move
  <2>1. CASE \E t \in Hooks, h \in Profiles : Record(p, t, h) \/ RecordAstray(p, t, h)
    BY <1>1, <2>1
  <2>2. CASE (\E t \in Hooks : EnsureFlusher(p, t) \/ StartThread(p, t)) \/ RequestFlush(p)
    BY <1>5, <2>2 DEF Move, EnsureFlusher, StartThread, RequestFlush, writerVars, diskVars
  <2>3. QED
    BY <1>6, <2>1, <2>2 DEF HookStep
<1>7. ASSUME NEW p \in Procs, WriteStep(p)
      PROVE  Move
  <2>1. CASE \E o \in Owners : TakePending(p, o)
    BY <1>2, <2>1 DEF Move
  <2>2. CASE AppendOpen(p)
    BY <2>2, OpenMoves DEF Move
  <2>3. CASE AppendFails(p)
    BY <2>3, FailsMoves DEF Move
  <2>4. CASE AppendWrite(p) \/ AppendTorn(p)
    BY <1>3, <2>4 DEF Move
  <2>5. CASE DeleteExpired(p) \/ DeleteOldest(p)
    BY <2>5, DeleteMoves DEF Move
  <2>6. CASE CleanupStart(p) \/ CleanupScan(p) \/ CleanupDone(p) \/ WriteEnd(p)
    BY <1>5, <2>6 DEF Move, CleanupStart, CleanupScan, CleanupDone, WriteEnd, diskVars
  <2>7. QED
    BY <1>7, <2>1, <2>2, <2>3, <2>4, <2>5, <2>6 DEF WriteStep
<1>8. ASSUME NEW p \in Procs,
             FlusherTop(p) \/ FlusherWake(p) \/ StopCall(p) \/ StopJoin(p) \/ CommandStep(p)
      PROVE  Move
  BY <1>5, <1>8, CommandFrame DEF Move, FlusherTop, FlusherWake, StopCall, StopJoin, writerVars,
                                  diskVars
<1>9. CASE Tick \/ UNCHANGED vars
  BY <1>5, <1>9 DEF Move, Tick, vars, writerVars, diskVars
<1>10. QED
  BY <1>4, <1>6, <1>7, <1>8, <1>9 DEF Next, Move

-----------------------------------------------------------------------------
(* Where the rows are.                                                       *)

Somewhere(e) ==
  \/ e \in gone
  \/ \E f \in SegId : e \in RowsIn[f]
  \/ \E p \in Procs : e \in pending[p] \cup batch[p]

Placed ==
  /\ \A p \in Procs : \A e \in pending[p] \cup batch[p] : row[e].proc = p
  /\ \A f \in SegId : \A e \in RowsIn[f] : row[e].proc = f[1] /\ row[e].home = f[2]
  /\ \A e \in Ids : row[e].home \in {row[e].profile, Cwd}
  /\ \A p \in Procs : pending[p] \cap batch[p] = {}
  /\ \A p \in Procs, f \in SegId : (pending[p] \cup batch[p]) \cap RowsIn[f] = {}
  /\ \A f, g \in SegId : f # g => RowsIn[f] \cap RowsIn[g] = {}
  /\ \A e \in Ids : Somewhere(e)

LEMMA InitPlaced == Init => Placed
<1>1. SUFFICES ASSUME Init PROVE Placed
  OBVIOUS
<1>2. Ids = {} /\ \A f \in SegId : RowsIn[f] = {}
  BY <1>1 DEF Init, Ids, RowsIn, NoFile
<1>3. QED
  BY <1>1, <1>2 DEF Init, Placed

LEMMA RowsTyped ==
  ASSUME TypeOK
  PROVE  /\ pending \in [Procs -> SUBSET Ids] /\ batch \in [Procs -> SUBSET Ids]
         /\ RowsIn \in [SegId -> SUBSET Ids]
  BY DEF TypeOK, FileType, RowsIn

(* Placed says that every row has one place, the right one. *)
LEMMA PlacedMeans ==
  ASSUME TypeOK, Placed
  PROVE  FiledByProfile /\ WrittenOnce /\ Accounted
<1>1. \A f \in SegId : RowsIn[f] = files[f].rows
  BY DEF RowsIn
<1>2. \A p, q \in Procs : p # q => /\ pending[p] \cap pending[q] = {}
                                 /\ batch[p] \cap batch[q] = {}
                                 /\ pending[p] \cap batch[q] = {}
  <2>1. SUFFICES ASSUME NEW p \in Procs, NEW q \in Procs, NEW e \in pending[p] \cup batch[p],
                        e \in pending[q] \cup batch[q]
                 PROVE  p = q
    BY <2>1
  <2>2. row[e].proc = p /\ row[e].proc = q
    BY <2>1 DEF Placed
  <2>3. QED
    BY <2>2
<1>3. Accounted
  <2>1. SUFFICES ASSUME NEW e \in Ids, e \notin gone, \A p \in Procs : e \notin pending[p] \cup batch[p]
                 PROVE  e \in OnDisk
    BY <2>1 DEF Accounted
  <2>2. PICK f \in SegId : e \in RowsIn[f]
    BY <2>1 DEF Placed, Somewhere
  <2>3. e \in files[f].rows
    BY <1>1, <2>2
  <2>4. QED
    BY <2>3 DEF OnDisk
<1>4. FiledByProfile
  <2>1. \A f \in SegId : RowsIn[f] \subseteq Ids
    BY RowsTyped
  <2>2. QED
    BY <1>1, <2>1 DEF Placed, FiledByProfile
<1>5. WrittenOnce
  BY <1>1, <1>2 DEF Placed, WrittenOnce
<1>6. QED
  BY <1>3, <1>4, <1>5

LEMMA AcceptPlaced ==
  ASSUME TypeOK, Placed, [Next]_vars, NEW p \in Procs, NEW profile \in Homes, NEW h \in Homes,
         MoveAccept(p, profile, h)
  PROVE  Placed'
<1>0. PICK e : e = Len(row) + 1
  OBVIOUS
<1>1. [profile |-> profile, home |-> h, ts |-> now, proc |-> p] \in RowType
  BY DEF TypeOK, RowType
<1>2. /\ e \notin Ids /\ Ids' = Ids \cup {e} /\ \A x \in Ids : row'[x] = row[x]
      /\ row'[e].proc = p /\ row'[e].home \in {row'[e].profile, Cwd}
  <2>1. /\ row' = Append(row, [profile |-> profile, home |-> h, ts |-> now, proc |-> p])
        /\ Len(row) < NEvents /\ h \in {profile, Cwd}
    BY DEF MoveAccept
  <2>2. /\ row'[e] = [profile |-> profile, home |-> h, ts |-> now, proc |-> p]
        /\ e \notin Ids /\ Ids' = Ids \cup {e} /\ \A x \in Ids : row'[x] = row[x]
    BY <1>0, <1>1, <2>1, IdsGrow
  <2>3. row'[e].profile = profile /\ row'[e].home = h /\ row'[e].proc = p
    BY <2>2
  <2>4. QED
    BY <2>1, <2>2, <2>3
<1>3. /\ pending \in [Procs -> SUBSET Ids] /\ batch \in [Procs -> SUBSET Ids]
      /\ RowsIn \in [SegId -> SUBSET Ids]
      /\ \/ pending' = [pending EXCEPT ![p] = @ \cup {e}] /\ gone' = gone
         \/ pending' = pending /\ gone' = gone \cup {e}
      /\ batch' = batch /\ RowsIn' = RowsIn
  BY <1>0, RowsTyped DEF MoveAccept
<1>4. /\ \A q \in Procs : pending'[q] = pending[q] \/ (q = p /\ pending'[q] = pending[q] \cup {e})
      /\ e \in gone' \/ e \in pending'[p]
      /\ gone \subseteq gone'
  BY <1>3
<1>5. \A q \in Procs : \A x \in pending'[q] \cup batch'[q] : row'[x].proc = q
  BY <1>2, <1>3, <1>4 DEF Placed
<1>6. \A f \in SegId : \A x \in RowsIn'[f] : row'[x].proc = f[1] /\ row'[x].home = f[2]
  BY <1>2, <1>3 DEF Placed
<1>7. \A q \in Procs : pending'[q] \cap batch'[q] = {}
  BY <1>2, <1>3, <1>4 DEF Placed
<1>8. \A q \in Procs, f \in SegId : (pending'[q] \cup batch'[q]) \cap RowsIn'[f] = {}
  BY <1>2, <1>3, <1>4 DEF Placed
<1>9. \A f, g \in SegId : f # g => RowsIn'[f] \cap RowsIn'[g] = {}
  BY <1>3 DEF Placed
<1>10. \A x \in Ids' : Somewhere(x)'
  <2>1. \A x \in Ids : Somewhere(x)'
    <3>1. SUFFICES ASSUME NEW x \in Ids PROVE Somewhere(x)'
      OBVIOUS
    <3>2. Somewhere(x)
      BY DEF Placed
    <3>3. QED
      BY <1>3, <1>4, <3>2 DEF Somewhere
  <2>2. Somewhere(e)'
    BY <1>4 DEF Somewhere
  <2>3. QED
    BY <1>2, <2>1, <2>2
<1>11. \A x \in Ids' : row'[x].home \in {row'[x].profile, Cwd}
  BY <1>2 DEF Placed
<1>12. QED
  BY <1>5, <1>6, <1>7, <1>8, <1>9, <1>10, <1>11 DEF Placed

LEMMA TakePlaced ==
  ASSUME TypeOK, Placed, NEW p \in Procs, MoveTake(p)
  PROVE  Placed'
<1>1. /\ \A q \in Procs : pending'[q] \cup batch'[q] = pending[q] \cup batch[q]
      /\ \A q \in Procs : pending'[q] \cap batch'[q] = {}
  BY RowsTyped DEF MoveTake, Placed
<1>2. row' = row /\ RowsIn' = RowsIn /\ gone' = gone /\ Ids' = Ids
  BY SameIds DEF MoveTake
<1>3. \A x \in Ids' : Somewhere(x)'
  <2>1. SUFFICES ASSUME NEW x \in Ids PROVE Somewhere(x)'
    BY <1>2
  <2>2. Somewhere(x)
    BY DEF Placed
  <2>3. QED
    BY <1>1, <1>2, <2>2 DEF Somewhere
<1>4. QED
  BY <1>1, <1>2, <1>3 DEF Placed

LEMMA CommitPlaced ==
  ASSUME TypeOK, Placed, NEW p \in Procs, NEW f \in SegId, NEW W, MoveCommit(p, f, W)
  PROVE  Placed'
<1>1. /\ \A q \in Procs : pending'[q] = pending[q] /\ batch'[q] \subseteq batch[q]
      /\ batch'[p] = batch[p] \ Group(p)
      /\ \A q \in Procs \ {p} : batch'[q] = batch[q]
  BY DEF MoveCommit, TypeOK
<1>2. /\ W \subseteq Group(p) /\ Group(p) \subseteq batch[p]
      /\ \A e \in Group(p) : row[e].home = f[2] /\ row[e].proc = f[1]
  BY GroupFacts DEF Placed, MoveCommit
<1>3. /\ RowsIn'[f] = RowsIn[f] \cup W
      /\ \A g \in SegId \ {f} : RowsIn'[g] = RowsIn[g]
  BY DEF MoveCommit, RowsIn
<1>4. row' = row /\ gone' = gone \cup (Group(p) \ W) /\ Ids' = Ids
  BY SameIds DEF MoveCommit
<1>5. \A q \in Procs : \A x \in pending'[q] \cup batch'[q] : row'[x].proc = q
  BY <1>1, <1>4 DEF Placed
<1>6. \A g \in SegId : \A x \in RowsIn'[g] : row'[x].proc = g[1] /\ row'[x].home = g[2]
  BY <1>2, <1>3, <1>4 DEF Placed
<1>7. \A q \in Procs : pending'[q] \cap batch'[q] = {}
  BY <1>1 DEF Placed
<1>8. \A q \in Procs, g \in SegId : (pending'[q] \cup batch'[q]) \cap RowsIn'[g] = {}
  <2>1. SUFFICES ASSUME NEW q \in Procs, NEW x \in pending'[q] \cup batch'[q], x \in W
                 PROVE  FALSE
    BY <1>1, <1>3, <2>1 DEF Placed
  <2>2. x \in batch[p] /\ x \in Group(p) /\ x \in pending[q] \cup batch[q]
    BY <1>1, <1>2, <2>1
  <2>3. q = p
    BY <2>2 DEF Placed
  <2>4. QED
    BY <1>1, <2>1, <2>2, <2>3 DEF Placed
<1>9. \A g, k \in SegId : g # k => RowsIn'[g] \cap RowsIn'[k] = {}
  <2>1. \A g \in SegId : W \cap RowsIn[g] = {}
    BY <1>2 DEF Placed
  <2>2. QED
    BY <1>3, <2>1 DEF Placed
<1>10. \A x \in Ids' : Somewhere(x)'
  <2>1. SUFFICES ASSUME NEW x \in Ids, x \notin gone',
                        ~(\E g \in SegId : x \in RowsIn'[g])
                 PROVE  \E q \in Procs : x \in pending'[q] \cup batch'[q]
    BY <1>4, <2>1 DEF Somewhere
  <2>2. x \notin gone /\ x \notin Group(p) /\ ~(\E g \in SegId : x \in RowsIn[g])
    BY <1>3, <1>4, <2>1
  <2>3. PICK q \in Procs : x \in pending[q] \cup batch[q]
    BY <2>2 DEF Placed, Somewhere
  <2>4. QED
    BY <1>1, <2>2, <2>3
<1>11. QED
  BY <1>4, <1>5, <1>6, <1>7, <1>8, <1>9, <1>10 DEF Placed

LEMMA DeletePlaced ==
  ASSUME TypeOK, Placed, NEW f \in SegId, MoveDelete(f)
  PROVE  Placed'
<1>1. RowsIn'[f] = {} /\ \A g \in SegId \ {f} : RowsIn'[g] = RowsIn[g]
  BY DEF MoveDelete, RowsIn
<1>2. row' = row /\ pending' = pending /\ batch' = batch /\ gone' = gone \cup RowsIn[f]
      /\ Ids' = Ids
  BY SameIds DEF MoveDelete
<1>3. \A x \in Ids' : Somewhere(x)'
  <2>1. SUFFICES ASSUME NEW x \in Ids PROVE Somewhere(x)'
    BY <1>2
  <2>2. Somewhere(x)
    BY DEF Placed
  <2>3. QED
    BY <1>1, <1>2, <2>2 DEF Somewhere
<1>4. /\ \A g \in SegId : RowsIn'[g] \subseteq RowsIn[g]
  BY <1>1
<1>5. \A g, k \in SegId : g # k => RowsIn'[g] \cap RowsIn'[k] = {}
  BY <1>4 DEF Placed
<1>6. \A q \in Procs, g \in SegId : (pending'[q] \cup batch'[q]) \cap RowsIn'[g] = {}
  BY <1>2, <1>4 DEF Placed
<1>7. QED
  BY <1>2, <1>3, <1>4, <1>5, <1>6 DEF Placed

LEMMA CrashPlaced ==
  ASSUME TypeOK, Placed, NEW p \in Procs, MoveCrash(p)
  PROVE  Placed'
<1>1. /\ \A q \in Procs \ {p} : pending'[q] = pending[q] /\ batch'[q] = batch[q]
      /\ pending'[p] = {} /\ batch'[p] = {}
  BY DEF MoveCrash, TypeOK
<1>2. row' = row /\ RowsIn' = RowsIn /\ gone' = gone \cup pending[p] \cup batch[p]
      /\ Ids' = Ids
  BY SameIds DEF MoveCrash
<1>3. \A q \in Procs : pending'[q] \subseteq pending[q] /\ batch'[q] \subseteq batch[q]
  BY <1>1
<1>4. \A x \in Ids' : Somewhere(x)'
  <2>1. SUFFICES ASSUME NEW x \in Ids PROVE Somewhere(x)'
    BY <1>2
  <2>2. Somewhere(x)
    BY DEF Placed
  <2>3. QED
    BY <1>1, <1>2, <2>2 DEF Somewhere
<1>5. /\ \A q \in Procs : pending'[q] \cap batch'[q] = {}
      /\ \A q \in Procs, g \in SegId : (pending'[q] \cup batch'[q]) \cap RowsIn'[g] = {}
  BY <1>2, <1>3 DEF Placed
<1>6. \A q \in Procs : \A x \in pending'[q] \cup batch'[q] : row'[x].proc = q
  BY <1>2, <1>3 DEF Placed
<1>7. QED
  BY <1>2, <1>4, <1>5, <1>6 DEF Placed

LEMMA NextPlaced ==
  ASSUME TypeOK, LockInv, NothingDead, Placed, [Next]_vars
  PROVE  Placed'
<1>1. CASE MoveNothing
  <2>1. UNCHANGED <<row, pending, batch, gone, RowsIn, Ids>>
    BY <1>1, SameIds DEF MoveNothing
  <2>2. QED
    BY <2>1 DEF Placed, Somewhere
<1>2. QED
  BY <1>1, NextMoves, AcceptPlaced, TakePlaced, CommitPlaced, DeletePlaced, CrashPlaced DEF Move

(* While p writes, the lock has the same owner. *)
LEMMA OwnerKept ==
  ASSUME TypeOK, NEW p \in Procs,
         \/ AppendOpen(p) \/ AppendFails(p) \/ AppendWrite(p) \/ AppendTorn(p)
         \/ CleanupStart(p) \/ CleanupScan(p) \/ CleanupDone(p)
         \/ DeleteExpired(p) \/ DeleteOldest(p)
  PROVE  \A q \in Procs : io'[q].owner = io[q].owner
<1>0. io \in [Procs -> LockType]
  BY DEF TypeOK
<1>1. CASE AppendFails(p)
  BY <1>1 DEF AppendFails
<1>2. CASE AppendOpen(p)
  <2>1. PICK f : io' = [io EXCEPT ![p].stage = "opened", ![p].seg = f, ![p].linked = TRUE]
    BY <1>2 DEF AppendOpen
  <2>2. QED
    BY <1>0, <2>1 DEF LockType
<1>3. CASE AppendWrite(p) \/ AppendTorn(p)
  <2>1. io' = [io EXCEPT ![p].stage = "append", ![p].seg = NoSeg, ![p].linked = FALSE]
    BY <1>3 DEF AppendWrite, AppendTorn, WriteRows
  <2>2. QED
    BY <1>0, <2>1 DEF LockType
<1>4. CASE CleanupStart(p) \/ CleanupScan(p) \/ CleanupDone(p)
  <2>1. PICK s : io' = [io EXCEPT ![p].stage = s]
    BY <1>4 DEF CleanupStart, CleanupScan, CleanupDone
  <2>2. QED
    BY <1>0, <2>1 DEF LockType
<1>5. CASE DeleteExpired(p) \/ DeleteOldest(p)
  <2>1. PICK f : io' = [q \in Procs |-> Cut(q, f, io[q])] \/ io' = io
    BY <1>5 DEF DeleteExpired, DeleteOldest, Remove
  <2>2. QED
    BY <1>0, <2>1 DEF Cut, LockType
<1>6. QED
  BY <1>1, <1>2, <1>3, <1>4, <1>5

-----------------------------------------------------------------------------
(* Stop.                                                                     *)

LEMMA InitStopInv == Init => StopInv
  BY DEF Init, StopInv, Unlocked

LEMMA NextStopInv ==
  ASSUME TypeOK, LockInv, StopInv, [Next]_vars
  PROVE  StopInv'
<1> DEFINE Stopped(q) ==
      /\ stp[q] # "no" => stopSet[q]
      /\ io[q].owner = "stop" => pending[q] = {}
      /\ stp[q] = "done" => pending[q] = {} /\ batch[q] = {}
<1>1. /\ io \in [Procs -> LockType] /\ batch \in [Procs -> SUBSET Ids]
      /\ pending \in [Procs -> SUBSET Ids]
      /\ stp \in [Procs -> {"no", "join", "flush", "done", "raised"}]
      /\ stopSet \in [Procs -> BOOLEAN]
      /\ \A q \in Procs : LockedBy(q) /\ Stopped(q)
  BY DEF TypeOK, LockInv, StopInv
<1>2. CASE UNCHANGED <<io, pending, batch, stp, stopSet>>
  BY <1>1, <1>2 DEF StopInv
<1>3. ASSUME NEW p \in Procs, NEW t \in Hooks, NEW h \in Profiles,
             Record(p, t, h) \/ RecordAstray(p, t, h)
      PROVE  StopInv'
  <2>a. PICK d \in {h, Cwd} : Entered(p, t, h, d)
    BY <1>3, RecordEnters
  <2>0. PICK kept \in BOOLEAN : (kept => Stays(p)) /\ Enter(p, t, h, d, kept)
    BY <2>a DEF Entered
  <2>1. UNCHANGED <<io, batch, stp, stopSet>>
    BY <2>0 DEF Enter, writerVars
  <2>2. /\ \A q \in Procs \ {p} : pending'[q] = pending[q]
        /\ stopSet[p] => pending'[p] = pending[p]
    BY <1>1, <2>0 DEF Enter, Stays
  <2>3. io[p].owner = "stop" => stopSet[p]
    BY <1>1 DEF LockedBy
  <2>4. stp[p] = "done" => stopSet[p]
    BY <1>1
  <2>5. QED
    BY <1>1, <2>1, <2>2, <2>3, <2>4 DEF StopInv
<1>4. ASSUME NEW p \in Procs, NEW o \in Owners, TakePending(p, o)
      PROVE  StopInv'
  <2>1. UNCHANGED <<stp, stopSet>>
    BY <1>4 DEF TakePending, threadVars
  <2>2. /\ \A q \in Procs \ {p} : io'[q] = io[q] /\ pending'[q] = pending[q]
                               /\ batch'[q] = batch[q]
        /\ pending'[p] = {} /\ batch'[p] = pending[p]
    BY <1>1, <1>4 DEF TakePending, Taken, Left
  <2>3. QED
    BY <1>1, <2>1, <2>2 DEF StopInv
<1>5. ASSUME NEW p \in Procs,
             \/ AppendOpen(p) \/ AppendFails(p) \/ AppendWrite(p) \/ AppendTorn(p)
             \/ CleanupStart(p) \/ CleanupScan(p) \/ CleanupDone(p)
             \/ DeleteExpired(p) \/ DeleteOldest(p)
      PROVE  StopInv'
  <2>1. UNCHANGED <<stp, stopSet, pending>>
    BY <1>5 DEF AppendOpen, AppendFails, AppendWrite, AppendTorn, CleanupStart, CleanupScan,
                CleanupDone, DeleteExpired, DeleteOldest, threadVars
  <2>2. \A q \in Procs : batch'[q] \subseteq batch[q]
    <3>1. batch' = batch \/ batch' = [batch EXCEPT ![p] = @ \ Group(p)]
      BY <1>5 DEF AppendOpen, AppendFails, AppendWrite, AppendTorn, WriteRows, CleanupStart,
                  CleanupScan, CleanupDone, DeleteExpired, DeleteOldest
    <3>2. QED
      BY <1>1, <3>1
  <2>3. \A q \in Procs : io'[q].owner = io[q].owner
    BY <1>5, OwnerKept
  <2>4. QED
    BY <1>1, <2>1, <2>2, <2>3 DEF StopInv
<1>6. ASSUME NEW p \in Procs, WriteEnd(p)
      PROVE  StopInv'
  <2>1. UNCHANGED <<pending, batch, stopSet>>
    BY <1>6 DEF WriteEnd
  <2>2. /\ \A q \in Procs \ {p} : io'[q] = io[q] /\ stp'[q] = stp[q]
        /\ io'[p].owner = "free"
        /\ stp'[p] = IF io[p].owner = "stop" THEN "done" ELSE stp[p]
        /\ batch[p] = {}
    BY <1>1, <1>6 DEF WriteEnd, Unlocked, LockedBy
  <2>3. io[p].owner = "stop" => stopSet[p]
    BY <1>1 DEF LockedBy
  <2>4. QED
    BY <1>1, <2>1, <2>2, <2>3 DEF StopInv
<1>7. ASSUME NEW p \in Procs, StopCall(p) \/ StopJoin(p)
      PROVE  StopInv'
  <2>1. UNCHANGED <<pending, batch, io>>
    BY <1>7 DEF StopCall, StopJoin, writerVars
  <2>2. /\ \A q \in Procs \ {p} : stp'[q] = stp[q] /\ stopSet'[q] = stopSet[q]
        /\ stp'[p] # "done" /\ stopSet'[p]
    BY <1>1, <1>7 DEF StopCall, StopJoin
  <2>3. QED
    BY <1>1, <2>1, <2>2 DEF StopInv
<1>8. ASSUME NEW p \in Procs, Crash(p)
      PROVE  StopInv'
  <2>1. /\ \A q \in Procs \ {p} : /\ io'[q] = io[q] /\ stp'[q] = stp[q]
                                /\ stopSet'[q] = stopSet[q]
                                /\ pending'[q] = pending[q] /\ batch'[q] = batch[q]
        /\ stp'[p] = "no" /\ pending'[p] = {}
    BY <1>1, <1>8 DEF Crash
  <2>2. QED
    BY <1>1, <2>1 DEF StopInv
<1>9. ASSUME NEW p \in Procs,
             \/ FlusherTop(p) \/ FlusherWake(p) \/ CommandStep(p) \/ RequestFlush(p)
             \/ \E t \in Hooks : EnsureFlusher(p, t) \/ StartThread(p, t)
      PROVE  StopInv'
  BY <1>2, <1>9, CommandFrame DEF FlusherTop, FlusherWake, RequestFlush, EnsureFlusher,
                                  StartThread, writerVars, threadVars
<1>10. CASE Tick \/ UNCHANGED vars
  BY <1>2, <1>10 DEF Tick, vars, threadVars, writerVars
<1>11. QED
  BY <1>3, <1>4, <1>5, <1>6, <1>7, <1>8, <1>9, <1>10 DEF Next, HookStep, WriteStep

-----------------------------------------------------------------------------
(* Wake-ups. One hook thread at a time is about to start the flusher, and a  *)
(* full batch has woken the flusher or is about to be taken by it.           *)

OneStarter ==
  \A p \in Procs : \A t \in Hooks : hook[p][t] = "starting" =>
    /\ thr[p] = "created"
    /\ \A u \in Hooks \ {t} : hook[p][u] # "starting"

Woken ==
  \A p \in Procs :
    /\ io[p].owner = "flusher" => thr[p] = "flush"
    /\ Full(pending[p]) => wake[p] \/ (thr[p] = "flush" /\ io[p].owner # "flusher")

WakeInv == OneStarter /\ Woken

LEMMA NotFullEmpty == ~Full({})
<1>1. Cardinality({}) = 0
  BY FS_EmptySet
<1>2. QED
  BY <1>1, BoundsAssumption DEF Full

LEMMA InitWakeInv == Init => WakeInv
  BY NotFullEmpty DEF Init, WakeInv, OneStarter, Woken, Unlocked

(* Of the lock and the memory, most steps change nothing a wake-up needs. *)
LEMMA WokenFrame ==
  ASSUME Woken, UNCHANGED <<thr, wake, pending>>,
         \A q \in Procs : io'[q].owner = io[q].owner
  PROVE  Woken'
  BY DEF Woken, Full

LEMMA NextOneStarter ==
  ASSUME TypeOK, OneStarter, [Next]_vars, LockInv, Woken
  PROVE  OneStarter'
<1>1. /\ hook \in [Procs -> [Hooks -> {"idle", "recorded", "starting"}]]
      /\ thr \in [Procs -> ThreadStates]
  BY DEF TypeOK
<1>2. CASE UNCHANGED <<hook, thr>>
  BY <1>2 DEF OneStarter
<1>3. ASSUME NEW p \in Procs, NEW t \in Hooks, NEW h \in Profiles,
             Record(p, t, h) \/ RecordAstray(p, t, h)
      PROVE  OneStarter'
  <2>1. hook' = [hook EXCEPT ![p][t] = "recorded"] /\ thr' = thr
    BY <1>3 DEF Record, RecordAstray, Enter
  <2>2. QED
    BY <1>1, <2>1 DEF OneStarter
<1>4. ASSUME NEW p \in Procs, NEW t \in Hooks, EnsureFlusher(p, t)
      PROVE  OneStarter'
  <2>1. CASE thr[p] = "none" /\ ~stopSet[p]
    <3>1. /\ hook' = [hook EXCEPT ![p][t] = "starting"]
          /\ thr' = [thr EXCEPT ![p] = "created"]
      BY <1>4, <2>1 DEF EnsureFlusher
    <3>2. \A u \in Hooks : hook[p][u] # "starting"
      BY <2>1 DEF OneStarter
    <3>3. QED
      BY <1>1, <3>1, <3>2 DEF OneStarter
  <2>2. CASE ~(thr[p] = "none" /\ ~stopSet[p])
    <3>1. hook' = [hook EXCEPT ![p][t] = "idle"] /\ thr' = thr
      BY <1>4, <2>2 DEF EnsureFlusher
    <3>2. QED
      BY <1>1, <3>1 DEF OneStarter
  <2>3. QED
    BY <2>1, <2>2
<1>5. ASSUME NEW p \in Procs, NEW t \in Hooks, StartThread(p, t)
      PROVE  OneStarter'
  <2>1. /\ hook' = [hook EXCEPT ![p][t] = "idle"]
        /\ thr' = [thr EXCEPT ![p] = "top"]
        /\ hook[p][t] = "starting"
    BY <1>5 DEF StartThread
  <2>2. \A u \in Hooks : hook'[p][u] # "starting"
    BY <1>1, <2>1 DEF OneStarter
  <2>3. QED
    BY <1>1, <2>1, <2>2 DEF OneStarter
<1>6. ASSUME NEW p \in Procs,
             thr[p] # "created", \E s : thr' = [thr EXCEPT ![p] = s], hook' = hook
      PROVE  OneStarter'
  BY <1>1, <1>6 DEF OneStarter
<1>7. ASSUME NEW p \in Procs, FlusherTop(p) \/ FlusherWake(p)
      PROVE  OneStarter'
  BY <1>6, <1>7 DEF FlusherTop, FlusherWake
<1>8. ASSUME NEW p \in Procs, WriteEnd(p)
      PROVE  OneStarter'
  <2>1. CASE io[p].owner = "flusher"
    BY <1>6, <1>8, <2>1 DEF WriteEnd, Woken
  <2>2. CASE io[p].owner # "flusher"
    BY <1>2, <1>8, <2>2 DEF WriteEnd
  <2>3. QED
    BY <2>1, <2>2
<1>9. ASSUME NEW p \in Procs, Crash(p)
      PROVE  OneStarter'
  <2>1. /\ hook' = [hook EXCEPT ![p] = [t \in Hooks |-> "idle"]]
        /\ thr' = [thr EXCEPT ![p] = "none"]
    BY <1>9 DEF Crash
  <2>2. QED
    BY <1>1, <2>1 DEF OneStarter
<1>10. QED
  BY <1>2, <1>3, <1>4, <1>5, <1>7, <1>8, <1>9, CommandFrame
     DEF Next, HookStep, WriteStep, RequestFlush, TakePending, AppendOpen,
         AppendFails, AppendWrite, AppendTorn, CleanupStart, CleanupScan, DeleteExpired,
         DeleteOldest, CleanupDone, StopCall, StopJoin, Tick, vars, threadVars

LEMMA NextWoken ==
  ASSUME TypeOK, LockInv, WakeInv, [Next]_vars
  PROVE  Woken'
<1>1. /\ thr \in [Procs -> ThreadStates] /\ wake \in [Procs -> BOOLEAN]
      /\ pending \in [Procs -> SUBSET Ids] /\ io \in [Procs -> LockType]
      /\ Woken /\ OneStarter
  BY DEF TypeOK, WakeInv
<1>2. CASE UNCHANGED <<thr, wake, pending, io>>
  BY <1>1, <1>2, WokenFrame
<1>3. ASSUME NEW p \in Procs, NEW t \in Hooks, NEW h \in Profiles,
             Record(p, t, h) \/ RecordAstray(p, t, h)
      PROVE  Woken'
  <2>a. PICK d \in {h, Cwd} : Entered(p, t, h, d)
    BY <1>3, RecordEnters
  <2>0. PICK kept \in BOOLEAN : Enter(p, t, h, d, kept)
    BY <2>a DEF Entered
  <2>1. /\ UNCHANGED <<thr, io>>
        /\ \A q \in Procs \ {p} : pending'[q] = pending[q] /\ wake'[q] = wake[q]
        /\ \/ pending'[p] = pending[p] /\ wake'[p] = wake[p]
           \/ wake'[p] = (wake[p] \/ Full(pending'[p]))
    BY <1>1, <2>0 DEF Enter, writerVars
  <2>2. QED
    BY <1>1, <2>1 DEF Woken
<1>4. ASSUME NEW p \in Procs, NEW t \in Hooks, EnsureFlusher(p, t) \/ StartThread(p, t)
      PROVE  Woken'
  <2>1. thr[p] # "flush" \/ thr' = thr
    BY <1>1, <1>4 DEF EnsureFlusher, StartThread, OneStarter
  <2>2. UNCHANGED <<pending, wake, io>> /\ \A q \in Procs \ {p} : thr'[q] = thr[q]
    BY <1>1, <1>4 DEF EnsureFlusher, StartThread, writerVars
  <2>3. QED
    BY <1>1, <2>1, <2>2 DEF Woken
<1>5. ASSUME NEW p \in Procs, RequestFlush(p) \/ StopCall(p)
      PROVE  Woken'
  <2>1. /\ UNCHANGED <<pending, thr, io>>
        /\ \A q \in Procs \ {p} : wake'[q] = wake[q]
        /\ wake'[p]
    BY <1>1, <1>5 DEF RequestFlush, StopCall, writerVars
  <2>2. QED
    BY <1>1, <2>1 DEF Woken
<1>6. ASSUME NEW p \in Procs, FlusherTop(p) \/ FlusherWake(p)
      PROVE  Woken'
  <2>1. /\ UNCHANGED <<pending, io>>
        /\ \A q \in Procs \ {p} : thr'[q] = thr[q] /\ wake'[q] = wake[q]
        /\ thr[p] # "flush"
        /\ wake'[p] = wake[p] \/ thr'[p] = "flush"
    BY <1>1, <1>6 DEF FlusherTop, FlusherWake, writerVars
  <2>2. QED
    BY <1>1, <2>1 DEF Woken
<1>7. ASSUME NEW p \in Procs, NEW o \in Owners, TakePending(p, o)
      PROVE  Woken'
  <2>1. /\ UNCHANGED <<thr, wake>>
        /\ \A q \in Procs \ {p} : io'[q] = io[q] /\ pending'[q] = pending[q]
        /\ pending'[p] = {} /\ io'[p].owner = o
        /\ o = "flusher" => thr[p] = "flush"
    BY <1>1, <1>7 DEF TakePending, Left, Unlocked, Wants, threadVars
  <2>2. QED
    BY <1>1, <2>1, NotFullEmpty DEF Woken
<1>8. ASSUME NEW p \in Procs,
             \/ AppendOpen(p) \/ AppendFails(p) \/ AppendWrite(p) \/ AppendTorn(p)
             \/ CleanupStart(p) \/ CleanupScan(p) \/ CleanupDone(p)
             \/ DeleteExpired(p) \/ DeleteOldest(p)
      PROVE  Woken'
  <2>1. UNCHANGED <<thr, wake, pending>>
    BY <1>8 DEF AppendOpen, AppendFails, AppendWrite, AppendTorn, CleanupStart, CleanupScan,
                CleanupDone, DeleteExpired, DeleteOldest, threadVars
  <2>2. QED
    BY <1>1, <1>8, <2>1, OwnerKept, WokenFrame
<1>9. ASSUME NEW p \in Procs, WriteEnd(p)
      PROVE  Woken'
  <2>1. /\ UNCHANGED <<pending, wake>>
        /\ \A q \in Procs \ {p} : io'[q] = io[q] /\ thr'[q] = thr[q]
        /\ io'[p].owner = "free"
        /\ io[p].owner # "flusher" => thr'[p] = thr[p]
    BY <1>1, <1>9 DEF WriteEnd, Unlocked
  <2>2. QED
    BY <1>1, <2>1 DEF Woken
<1>10. ASSUME NEW p \in Procs, Crash(p)
      PROVE  Woken'
  <2>1. /\ \A q \in Procs \ {p} : /\ io'[q] = io[q] /\ thr'[q] = thr[q]
                                /\ wake'[q] = wake[q] /\ pending'[q] = pending[q]
        /\ io'[p].owner = "free" /\ pending'[p] = {}
    BY <1>1, <1>10 DEF Crash, Unlocked
  <2>2. QED
    BY <1>1, <2>1, NotFullEmpty DEF Woken
<1>11. QED
  BY <1>2, <1>3, <1>4, <1>5, <1>6, <1>7, <1>8, <1>9, <1>10, CommandFrame
     DEF Next, HookStep, WriteStep, StopJoin, Tick, vars, threadVars, writerVars

-----------------------------------------------------------------------------
(* A freeze and the profile it was asked for.                                *)

FreezeInv ==
  \A p \in Procs : \A e \in cmd[p].mem \cup cmd[p].disk \cup cmd[p].out :
    row[e].home = cmd[p].home

LEMMA NoCommandIs ==
  /\ NoCommand.mem \cup NoCommand.disk \cup NoCommand.out = {}
  /\ NoCommand.listed \cup NoCommand.read = {} /\ IsFiniteSet(NoCommand.read)
  /\ NoCommand.pc = "idle"
  BY FS_EmptySet DEF NoCommand

(* Only a command, or the death of its process, changes a command's state.   *)
LEMMA CommandsChange ==
  ASSUME [Next]_vars
  PROVE  cmd' = cmd \/ \E p \in Procs : CommandStep(p) \/ WriteEnd(p) \/ Crash(p)
<1>1. ASSUME NEW p \in Procs, HookStep(p)
      PROVE  cmd' = cmd
  BY <1>1 DEF HookStep, Record, RecordAstray, Enter, EnsureFlusher, StartThread, RequestFlush
<1>2. ASSUME NEW p \in Procs, WriteStep(p), ~WriteEnd(p)
      PROVE  cmd' = cmd
  BY <1>2 DEF WriteStep, TakePending, AppendOpen, AppendFails, AppendWrite, AppendTorn,
              CleanupStart, CleanupScan, DeleteExpired, DeleteOldest, CleanupDone
<1>3. QED
  BY <1>1, <1>2 DEF Next, FlusherTop, FlusherWake, StopCall, StopJoin, Tick, vars

LEMMA InitFreezeInv == Init => FreezeInv /\ ReadInv
  BY NoCommandIs DEF Init, FreezeInv, ReadInv, ReadsHome

LEMMA NextFreezeInv ==
  ASSUME TypeOK, FiledByProfile, FreezeInv, ReadInv, [Next]_vars
  PROVE  FreezeInv' /\ ReadInv'
<1>1. cmd \in [Procs -> CommandType]
  BY DEF TypeOK
<1>2. \A p \in Procs : /\ cmd[p].mem \subseteq Ids /\ cmd[p].out \subseteq Ids
                       /\ cmd[p].disk \subseteq Ids
  BY <1>1 DEF CommandType
<1>3. \A p \in Procs : \A e \in cmd[p].mem \cup cmd[p].disk \cup cmd[p].out :
        row'[e].home = cmd[p].home
  BY <1>2, RowsKept DEF FreezeInv
<1>4. ASSUME NEW p \in Procs, NEW c, cmd' = [cmd EXCEPT ![p] = c],
             \A e \in c.mem \cup c.disk \cup c.out : row'[e].home = c.home,
             IsFiniteSet(c.read), \A k \in c.listed \cup c.read : k.seg[2] = c.home,
             c.pc = "tail" => c.seg \in SegId /\ c.seg[2] = c.home
      PROVE  FreezeInv' /\ ReadInv'
  <2>1. cmd'[p] = c /\ \A q \in Procs \ {p} : cmd'[q] = cmd[q]
    BY <1>1, <1>4
  <2>2. FreezeInv'
    BY <1>3, <1>4, <2>1 DEF FreezeInv
  <2>3. ReadInv'
    BY <1>4, <2>1 DEF ReadInv, ReadsHome
  <2>4. QED
    BY <2>2, <2>3
<1>5. CASE cmd' = cmd
  BY <1>3, <1>5 DEF FreezeInv, ReadInv, ReadsHome
<1>6. ASSUME NEW p \in Procs, NEW h \in Profiles, FreezeCall(p, h)
      PROVE  FreezeInv' /\ ReadInv'
  <2>1. PICK S : cmd' = [cmd EXCEPT ![p] =
                   [NoCommand EXCEPT !.pc = "flush", !.home = h, !.asked = S]]
    BY <1>6 DEF FreezeCall
  <2> DEFINE c == [NoCommand EXCEPT !.pc = "flush", !.home = h, !.asked = S]
  <2>2. /\ c.mem = NoCommand.mem /\ c.disk = NoCommand.disk /\ c.out = NoCommand.out
        /\ c.listed = NoCommand.listed /\ c.read = NoCommand.read /\ c.pc = "flush"
        /\ cmd' = [cmd EXCEPT ![p] = c]
    BY <2>1 DEF NoCommand
  <2> HIDE DEF c
  <2>3. QED
    BY <1>4, <2>1, <2>2, NoCommandIs
<1>7. ASSUME NEW p \in Procs, NEW c, cmd' = [cmd EXCEPT ![p] = c],
             c.home = cmd[p].home, c.disk = cmd[p].disk, c.out = cmd[p].out,
             c.listed = cmd[p].listed, c.read = cmd[p].read, c.pc # "tail",
             \A e \in c.mem : row'[e].home = c.home
      PROVE  FreezeInv' /\ ReadInv'
  <2>1. IsFiniteSet(c.read) /\ \A k \in c.listed \cup c.read : k.seg[2] = c.home
    BY <1>7 DEF ReadInv, ReadsHome
  <2>2. \A e \in c.mem \cup c.disk \cup c.out : row'[e].home = c.home
    BY <1>3, <1>7
  <2>3. QED
    BY <1>4, <1>7, <2>1, <2>2
<1>8. ASSUME NEW p \in Procs, FreezeMemory(p)
      PROVE  FreezeInv' /\ ReadInv'
  <2> DEFINE c == [cmd[p] EXCEPT !.pc = "read", !.at = now, !.mem = MemoryOf(p)]
  <2>1. cmd' = [cmd EXCEPT ![p] = c] /\ row' = row
    BY <1>8 DEF FreezeMemory
  <2>2. /\ c.mem = MemoryOf(p) /\ c.out = cmd[p].out /\ c.home = cmd[p].home
        /\ c.disk = cmd[p].disk /\ c.listed = cmd[p].listed /\ c.read = cmd[p].read
        /\ c.pc = "read"
    BY <1>1 DEF CommandType
  <2>3. \A e \in MemoryOf(p) : row[e].home = cmd[p].home
    BY DEF MemoryOf, HomeOf
  <2> HIDE DEF c
  <2>4. QED
    BY <1>7, <2>1, <2>2, <2>3
<1>9. ASSUME NEW p \in Procs, Reading(p)
      PROVE  FreezeInv' /\ ReadInv'
  <2>1. PICK c \in CommandType :
           /\ cmd' = [cmd EXCEPT ![p] = c]
           /\ c.home = cmd[p].home
           /\ c.mem = cmd[p].mem
           /\ IsFiniteSet(c.read)
           /\ \A k \in c.listed \cup c.read : k.seg[2] = c.home
           /\ c.pc = "tail" => c.seg \in SegId /\ c.seg[2] = c.home
           /\ c.disk \subseteq cmd[p].disk \cup UNION {files[f].rows : f \in {g \in SegId : g[2] = c.home}}
           /\ c.out \subseteq cmd[p].out \cup cmd[p].mem \cup cmd[p].disk
    BY <1>9, ReadingFacts
  <2>2. row' = row
    BY <1>9, ReadingFrame
  <2>3. \A f \in {g \in SegId : g[2] = c.home} : \A e \in files[f].rows : row[e].home = c.home
    BY DEF FiledByProfile
  <2>4. \A e \in c.disk : row[e].home = c.home
    BY <1>3, <2>1, <2>2, <2>3
  <2>5. \A e \in c.mem \cup c.disk \cup c.out : row'[e].home = c.home
    BY <1>3, <2>1, <2>2, <2>4
  <2>6. QED
    BY <1>4, <2>1, <2>5
<1>10. ASSUME NEW p \in Procs, FreezeReturn(p) \/ Crash(p)
      PROVE  FreezeInv' /\ ReadInv'
  <2>1. cmd' = [cmd EXCEPT ![p] = NoCommand]
    BY <1>10 DEF FreezeReturn, Crash
  <2>2. QED
    BY <1>4, <2>1, NoCommandIs
<1>11. ASSUME NEW p \in Procs, WriteEnd(p)
      PROVE  FreezeInv' /\ ReadInv'
  <2> DEFINE c == [cmd[p] EXCEPT !.pc = "snapshot"]
  <2>1. cmd' = cmd \/ cmd' = [cmd EXCEPT ![p] = c]
    BY <1>11 DEF WriteEnd
  <2>2. /\ c.mem = cmd[p].mem /\ c.out = cmd[p].out /\ c.home = cmd[p].home
        /\ c.disk = cmd[p].disk /\ c.listed = cmd[p].listed /\ c.read = cmd[p].read
        /\ c.pc = "snapshot"
    BY <1>1 DEF CommandType
  <2> HIDE DEF c
  <2>3. QED
    BY <1>3, <1>5, <1>7, <2>1, <2>2
<1>12. QED
  BY <1>5, <1>6, <1>8, <1>9, <1>10, <1>11, CommandsChange
     DEF CommandStep, Reading

-----------------------------------------------------------------------------
(* A command that is running was called under a profile. *)
ProfileAsked == \A p \in Procs : cmd[p] = NoCommand \/ cmd[p].home \in Profiles

LEMMA NextProfileAsked ==
  ASSUME TypeOK, LockInv, ReadInv, ProfileAsked, [Next]_vars
  PROVE  ProfileAsked'
<1>1. cmd \in [Procs -> CommandType]
  BY DEF TypeOK
<1>2. ASSUME NEW p \in Procs, NEW c, cmd' = [cmd EXCEPT ![p] = c],
             c = NoCommand \/ c.home \in Profiles
      PROVE  ProfileAsked'
  BY <1>1, <1>2 DEF ProfileAsked
<1>3. CASE cmd' = cmd
  BY <1>3 DEF ProfileAsked
<1>4. ASSUME NEW p \in Procs, NEW h \in Profiles, FreezeCall(p, h)
      PROVE  ProfileAsked'
  <2>1. PICK S : cmd' = [cmd EXCEPT ![p] =
                   [NoCommand EXCEPT !.pc = "flush", !.home = h, !.asked = S]]
    BY <1>4 DEF FreezeCall
  <2>2. QED
    BY <1>2, <2>1 DEF NoCommand
<1>5. ASSUME NEW p \in Procs, FreezeMemory(p)
      PROVE  ProfileAsked'
  <2>1. cmd' = [cmd EXCEPT ![p] = [cmd[p] EXCEPT !.pc = "read", !.at = now, !.mem = MemoryOf(p)]]
        /\ cmd[p].pc = "snapshot"
    BY <1>5 DEF FreezeMemory, Flushed
  <2>2. cmd[p].home \in Profiles
    BY <2>1 DEF ProfileAsked, NoCommand
  <2>3. [cmd[p] EXCEPT !.pc = "read", !.at = now, !.mem = MemoryOf(p)].home = cmd[p].home
    BY <1>1 DEF CommandType
  <2>4. QED
    BY <1>2, <2>1, <2>2, <2>3
<1>6. ASSUME NEW p \in Procs, Reading(p)
      PROVE  ProfileAsked'
  <2>1. PICK c : cmd' = [cmd EXCEPT ![p] = c] /\ c.home = cmd[p].home
    BY <1>6, ReadingFacts
  <2>2. cmd[p].home \in Profiles
    BY <1>6, ReadingFrame DEF ProfileAsked, NoCommand
  <2>3. QED
    BY <1>2, <2>1, <2>2
<1>7. ASSUME NEW p \in Procs, FreezeReturn(p) \/ Crash(p)
      PROVE  ProfileAsked'
  <2>1. cmd' = [cmd EXCEPT ![p] = NoCommand]
    BY <1>7 DEF FreezeReturn, Crash
  <2>2. QED
    BY <1>2, <2>1
<1>8. ASSUME NEW p \in Procs, WriteEnd(p)
      PROVE  ProfileAsked'
  <2>1. CASE cmd' = cmd
    BY <1>3, <2>1
  <2>2. CASE cmd' # cmd
    <3>1. cmd' = [cmd EXCEPT ![p] = [cmd[p] EXCEPT !.pc = "snapshot"]] /\ io[p].owner = "cmd"
      BY <1>8, <2>2 DEF WriteEnd
    <3>2. cmd[p].home \in Profiles
      BY <3>1 DEF LockInv, LockedBy, ProfileAsked, NoCommand
    <3>3. [cmd[p] EXCEPT !.pc = "snapshot"].home = cmd[p].home
      BY <1>1 DEF CommandType
    <3>4. QED
      BY <1>2, <3>1, <3>2, <3>3
  <2>3. QED
    BY <2>1, <2>2
<1>9. QED
  BY <1>3, <1>4, <1>5, <1>6, <1>7, <1>8, CommandsChange
     DEF CommandStep, Reading

-----------------------------------------------------------------------------
(* The theorems.                                                             *)

Inductive ==
  /\ TypeOK /\ LockInv /\ NothingDead /\ Placed /\ StopInv /\ WakeInv
  /\ FreezeInv /\ ReadInv /\ ProfileAsked

LEMMA InductiveInvariant == Spec => []Inductive
<1>1. Init => Inductive
  BY InitTypeOK, InitLockInv, InitNothingDead, InitPlaced, InitStopInv, InitWakeInv,
     InitFreezeInv DEF Inductive, Init, ProfileAsked
<1>2. Inductive /\ [Next]_vars => Inductive'
  <2>1. SUFFICES ASSUME Inductive, [Next]_vars PROVE Inductive'
    OBVIOUS
  <2>2. WakeInv'
    BY <2>1, NextOneStarter, NextWoken DEF Inductive, WakeInv
  <2>3. FreezeInv' /\ ReadInv'
    BY <2>1, PlacedMeans, NextFreezeInv DEF Inductive
  <2>4. QED
    BY <2>1, <2>2, <2>3, NextTypeOK, NextLockInv, NextNothingDead, NextPlaced, NextStopInv,
       NextProfileAsked DEF Inductive
<1>3. QED
  BY <1>1, <1>2, PTL DEF Spec

(* Every variable keeps its type: in particular a cleanup only ever visits    *)
(* recorder directories, whichever thread runs it.                            *)
THEOREM TypeCorrect == Spec => []TypeOK
<1>1. Inductive => TypeOK
  BY DEF Inductive
<1>2. QED
  BY <1>1, InductiveInvariant, PTL

(* A row has one place at a time: no interleaving of hook threads, flusher,   *)
(* commands, stop() and restarts persists an event twice or keeps in memory   *)
(* one that a segment already shows.                                          *)
THEOREM RowsWrittenOnce == Spec => []WrittenOnce
<1>1. Inductive => WrittenOnce
  BY PlacedMeans DEF Inductive
<1>2. QED
  BY <1>1, InductiveInvariant, PTL

(* Every row a segment shows was recorded by the segment's process, and the   *)
(* segment's directory is that of the row's own profile or, for a row whose   *)
(* profile could not be resolved, the working directory.                      *)
THEOREM RowsFiledByProfile == Spec => []FiledByProfile
<1>1. Inductive => FiledByProfile
  BY PlacedMeans DEF Inductive
<1>2. QED
  BY <1>1, InductiveInvariant, PTL

(* No row vanishes: it is in memory, on disk, or gone for a counted reason.   *)
THEOREM RowsAccounted == Spec => []Accounted
<1>1. Inductive => Accounted
  BY PlacedMeans DEF Inductive
<1>2. QED
  BY <1>1, InductiveInvariant, PTL

(* When stop() has written, nothing is left in memory, whoever was writing.   *)
THEOREM StopLeavesNothing == Spec => []StopWrites
<1>1. Inductive => StopWrites
  BY DEF Inductive, StopInv, StopWrites
<1>2. QED
  BY <1>1, InductiveInvariant, PTL

(* A full batch never waits for the timeout: the flusher has been woken.      *)
THEOREM NoWakeupIsLost == Spec => []NoLostWakeup
<1>1. Inductive => NoLostWakeup
  BY DEF Inductive, WakeInv, Woken, Full, NoLostWakeup
<1>2. QED
  BY <1>1, InductiveInvariant, PTL

(* What a freeze returns belongs to the profile it was called under.          *)
THEOREM FreezeKeepsPrivate == Spec => []FreezePrivate
<1>1. Inductive => FreezePrivate
  <2>1. SUFFICES ASSUME Inductive, NEW p \in Procs, NEW e \in cmd[p].out
                 PROVE  row[e].profile = cmd[p].home
    BY DEF FreezePrivate
  <2>2. cmd[p] \in CommandType
    BY <2>1 DEF Inductive, TypeOK
  <2>3. e \in Ids
    BY <2>2 DEF CommandType
  <2>4. row[e].home = cmd[p].home /\ row[e].home \in {row[e].profile, Cwd}
    BY <2>1, <2>3 DEF Inductive, FreezeInv, Placed
  <2>5. cmd[p].home # Cwd
    BY <2>1 DEF Inductive, ProfileAsked, NoCommand, Profiles
  <2>6. QED
    BY <2>4, <2>5
<1>2. QED
  BY <1>1, InductiveInvariant, PTL

-----------------------------------------------------------------------------
(* The recorder implements the evidence log.                                 *)

Held == UNION {pending[p] \cup batch[p] : p \in Procs}
Shelf == [h \in Homes |-> UNION {files[f].rows : f \in {g \in SegId : g[2] = h}}]
LogHome == [e \in Ids |-> row[e].home]

LEMMA LogInit == Init => Log!Init
<1>1. SUFFICES ASSUME Init PROVE Log!Init
  OBVIOUS
<1>2. Ids = {}
  BY <1>1 DEF Init, Ids
<1>3. LogHome = <<>>
  BY <1>2 DEF LogHome
<1>4. Held = {} /\ Shelf = [h \in Homes |-> {}]
  BY <1>1 DEF Init, Held, Shelf, NoFile
<1>5. QED
  BY <1>1, <1>3, <1>4 DEF Log!Init, Init, Held, Shelf, LogHome

LEMMA HeldMembers == \A e : e \in Held <=> \E p \in Procs : e \in pending[p] \cup batch[p]
  BY DEF Held

LEMMA ShelfMembers ==
  /\ Shelf \in [Homes -> SUBSET UNION {RowsIn[f] : f \in SegId}]
  /\ \A h \in Homes : \A e : e \in Shelf[h] <=> \E f \in SegId : f[2] = h /\ e \in RowsIn[f]
  BY DEF Shelf, RowsIn

LEMMA HomeAppends ==
  ASSUME TypeOK, NEW p \in Procs, NEW profile \in Homes, NEW h \in Homes,
         MoveAccept(p, profile, h)
  PROVE  LogHome' = Append(LogHome, h) /\ Len(LogHome) = Len(row)
<1>1. [profile |-> profile, home |-> h, ts |-> now, proc |-> p] \in RowType
  BY DEF TypeOK, RowType
<1>2. /\ Len(row') = Len(row) + 1 /\ \A e \in Ids : row'[e] = row[e]
      /\ row'[Len(row) + 1].home = h
  <2>1. /\ Len(row') = Len(row) + 1 /\ \A e \in Ids : row'[e] = row[e]
        /\ row'[Len(row) + 1] = [profile |-> profile, home |-> h, ts |-> now, proc |-> p]
    BY <1>1, IdsGrow DEF MoveAccept
  <2>2. QED
    BY <2>1
<1>3. /\ Len(row) \in Nat
      /\ \A e \in Ids : row[e].home \in Homes
  <2>1. row \in Seq(RowType)
    BY DEF TypeOK
  <2>2. \A r \in RowType : r.home \in Homes
    BY DEF RowType
  <2>3. QED
    BY <2>1, <2>2 DEF Ids
<1>4. LogHome \in Seq(Homes) /\ Len(LogHome) = Len(row)
  BY <1>3 DEF LogHome, Ids
<1>5. LogHome' = [e \in 1..(Len(row) + 1) |-> row'[e].home]
  BY <1>2 DEF LogHome, Ids
<1>6. LogHome' \in Seq(Homes) /\ Len(LogHome') = Len(row) + 1
  <2>1. \A e \in 1..(Len(row) + 1) : row'[e].home \in Homes
    BY <1>2, <1>3 DEF Ids
  <2>2. QED
    BY <1>3, <1>5, <2>1
<1>7. /\ Append(LogHome, h) \in Seq(Homes) /\ Len(Append(LogHome, h)) = Len(row) + 1
      /\ \A e \in Ids : Append(LogHome, h)[e] = LogHome[e]
      /\ Append(LogHome, h)[Len(row) + 1] = h
  BY <1>4, AppendProperties DEF Ids
<1>8. \A e \in 1..(Len(row) + 1) : LogHome'[e] = Append(LogHome, h)[e]
  <2>1. \A e \in Ids : LogHome'[e] = Append(LogHome, h)[e]
    BY <1>2, <1>3, <1>5, <1>7 DEF LogHome, Ids
  <2>2. LogHome'[Len(row) + 1] = h
    BY <1>2, <1>3, <1>5
  <2>3. QED
    BY <1>3, <1>7, <2>1, <2>2 DEF Ids
<1>9. QED
  BY <1>4, <1>6, <1>7, <1>8, SeqEqual

LEMMA LogAccept ==
  ASSUME TypeOK, NEW p \in Procs, NEW profile \in Homes, NEW h \in Homes,
         MoveAccept(p, profile, h)
  PROVE  Log!Next
<1>0. PICK e : e = Len(LogHome) + 1
  OBVIOUS
<1>1. LogHome' = Append(LogHome, h) /\ e = Len(row) + 1
  BY <1>0, HomeAppends
<1>2. pending \in [Procs -> SUBSET Ids] /\ batch' = batch /\ Shelf' = Shelf
  <2>1. RowsIn' = RowsIn
    BY DEF MoveAccept
  <2>2. Shelf = [k \in Homes |-> UNION {RowsIn[f] : f \in {g \in SegId : g[2] = k}}]
    BY DEF Shelf, RowsIn
  <2>3. Shelf' = [k \in Homes |-> UNION {RowsIn'[f] : f \in {g \in SegId : g[2] = k}}]
    BY DEF Shelf, RowsIn
  <2>4. QED
    BY <2>1, <2>2, <2>3 DEF MoveAccept, TypeOK
<1>3. \/ Held' = Held \cup {e} /\ gone' = gone
      \/ Held' = Held /\ gone' = gone \cup {e}
  <2>1. CASE pending' = [pending EXCEPT ![p] = @ \cup {e}] /\ gone' = gone
    <3>1. \A x : x \in Held' <=> x \in Held \cup {e}
      BY <1>2, <2>1 DEF Held
    <3>2. QED
      BY <2>1, <3>1
  <2>2. CASE pending' = pending /\ gone' = gone \cup {e}
    BY <1>2, <2>2 DEF Held
  <2>3. QED
    BY <1>1, <2>1, <2>2 DEF MoveAccept
<1>4. Log!Accept(h)
  BY <1>0, <1>1, <1>2, <1>3 DEF Log!Accept, LogHome, Held, Shelf
<1>5. QED
  BY <1>4 DEF Log!Next

LEMMA HomeSame == row' = row => LogHome' = LogHome
  BY DEF LogHome, Ids

LEMMA HeldSame ==
  ASSUME \A p \in Procs : pending'[p] \cup batch'[p] = pending[p] \cup batch[p]
  PROVE  Held' = Held
  BY DEF Held

LEMMA LogStutters ==
  ASSUME TypeOK, MoveNothing \/ \E p \in Procs : MoveTake(p)
  PROVE  UNCHANGED <<LogHome, Held, Shelf, gone>>
<1>1. row' = row /\ RowsIn' = RowsIn /\ gone' = gone
  BY DEF MoveNothing, MoveTake
<1>2. \A p \in Procs : pending'[p] \cup batch'[p] = pending[p] \cup batch[p]
  BY RowsTyped DEF MoveNothing, MoveTake
<1>3. Shelf' = Shelf
  <2>1. Shelf = [k \in Homes |-> UNION {RowsIn[f] : f \in {g \in SegId : g[2] = k}}]
    BY DEF Shelf, RowsIn
  <2>2. Shelf' = [k \in Homes |-> UNION {RowsIn'[f] : f \in {g \in SegId : g[2] = k}}]
    BY DEF Shelf, RowsIn
  <2>3. QED
    BY <1>1, <2>1, <2>2
<1>4. QED
  BY <1>1, <1>2, <1>3, HomeSame, HeldSame

LEMMA LogCommit ==
  ASSUME TypeOK, Placed, NEW p \in Procs, NEW f \in SegId, NEW W, MoveCommit(p, f, W)
  PROVE  Log!Next
<1> DEFINE h == f[2]
<1>1. PICK G : G = Group(p)
  OBVIOUS
<1>2. /\ G \subseteq batch[p] /\ W \subseteq G /\ h \in Homes
      /\ \A e \in G : row[e].home = h
  BY <1>1, GroupFacts DEF MoveCommit, SegId
<1>3. batch[p] \subseteq Ids /\ G \subseteq Held
  BY <1>2, RowsTyped DEF Held
<1>4. \A e \in G : LogHome[e] = h
  BY <1>2, <1>3 DEF LogHome
<1>5. Held' = Held \ G
  <2>1. /\ \A q \in Procs : pending'[q] = pending[q]
        /\ batch'[p] = batch[p] \ G
        /\ \A q \in Procs \ {p} : batch'[q] = batch[q]
    BY <1>1, RowsTyped DEF MoveCommit
  <2>2. \A q \in Procs : pending[q] \cap G = {} /\ (q # p => batch[q] \cap G = {})
    BY <1>2 DEF Placed
  <2>3. \A q \in Procs : pending'[q] \cup batch'[q] = (pending[q] \cup batch[q]) \ G
    BY <2>1, <2>2
  <2>4. QED
    BY <2>3 DEF Held
<1>6. Shelf' = [Shelf EXCEPT ![h] = @ \cup W]
  <2>1. /\ RowsIn'[f] = RowsIn[f] \cup W
        /\ \A g \in SegId \ {f} : RowsIn'[g] = RowsIn[g]
    BY RowsTyped DEF MoveCommit
  <2>2. Shelf = [k \in Homes |-> UNION {RowsIn[g] : g \in {s \in SegId : s[2] = k}}]
    BY DEF Shelf, RowsIn
  <2>3. Shelf' = [k \in Homes |-> UNION {RowsIn'[g] : g \in {s \in SegId : s[2] = k}}]
    BY DEF Shelf, RowsIn
  <2>4. \A k \in Homes \ {h} : Shelf'[k] = Shelf[k]
    BY <2>1, <2>2, <2>3
  <2>5. Shelf'[h] = Shelf[h] \cup W
    <3> DEFINE S == {s \in SegId : s[2] = h}
               old == UNION {RowsIn[g] : g \in S}
               new == UNION {RowsIn'[g] : g \in S}
    <3>1. f \in S /\ \A g \in S : g \in SegId
      OBVIOUS
    <3>2. Shelf[h] = old /\ Shelf'[h] = new
      BY <1>2, <2>2, <2>3
    <3> HIDE DEF h, S
    <3>3. new \subseteq old \cup W
      BY <2>1, <3>1
    <3>4. W \subseteq new
      BY <2>1, <3>1
    <3>5. old \subseteq new
      BY <2>1, <3>1
    <3> HIDE DEF old, new
    <3>6. QED
      BY <3>2, <3>3, <3>4, <3>5
  <2>6. QED
    BY <1>2, <2>2, <2>3, <2>4, <2>5
<1>7. LogHome' = LogHome /\ gone' = gone \cup (G \ W)
  BY <1>1, HomeSame DEF MoveCommit
<1> HIDE DEF h
<1>8. Log!Commit(h, G, W)
  BY <1>4, <1>5, <1>6, <1>7 DEF Log!Commit, LogHome, Held, Shelf
<1>9. QED
  BY <1>2, <1>3, <1>8 DEF Log!Next, Held

LEMMA LogDelete ==
  ASSUME TypeOK, Placed, NEW f \in SegId, MoveDelete(f)
  PROVE  Log!Next
<1> DEFINE h == f[2]
<1>1. PICK E : E = RowsIn[f]
  OBVIOUS
<1>2. h \in Homes
  BY DEF SegId
<1>3. Shelf = [k \in Homes |-> UNION {RowsIn[g] : g \in {s \in SegId : s[2] = k}}]
  BY DEF Shelf, RowsIn
<1>4. Shelf' = [k \in Homes |-> UNION {RowsIn'[g] : g \in {s \in SegId : s[2] = k}}]
  BY DEF Shelf, RowsIn
<1>5. /\ RowsIn'[f] = {}
      /\ \A g \in SegId \ {f} : RowsIn'[g] = RowsIn[g] /\ RowsIn[g] \cap E = {}
  BY <1>1, RowsTyped DEF MoveDelete, Placed
<1>6. \A k \in Homes \ {h} : Shelf'[k] = Shelf[k]
  BY <1>3, <1>4, <1>5
<1>7. Shelf'[h] = Shelf[h] \ E
  <2> DEFINE S == {s \in SegId : s[2] = h}
  <2>1. \A e : e \in UNION {RowsIn'[g] : g \in S} <=> e \in (UNION {RowsIn[g] : g \in S}) \ E
    BY <1>1, <1>5
  <2>2. QED
    BY <1>2, <1>3, <1>4, <2>1
<1>8. Shelf' = [Shelf EXCEPT ![h] = @ \ E] /\ E \subseteq Shelf[h]
  BY <1>1, <1>2, <1>3, <1>4, <1>6, <1>7
<1>9. LogHome' = LogHome /\ Held' = Held /\ gone' = gone \cup E
  BY <1>1, HomeSame, HeldSame DEF MoveDelete
<1> HIDE DEF h
<1>10. Log!Delete(h, E)
  BY <1>8, <1>9 DEF Log!Delete, LogHome, Held, Shelf
<1>11. QED
  BY <1>2, <1>8, <1>10 DEF Log!Next, Shelf

LEMMA LogDiscard ==
  ASSUME TypeOK, Placed, NEW p \in Procs, MoveCrash(p)
  PROVE  Log!Next
<1>1. PICK E : E = pending[p] \cup batch[p]
  OBVIOUS
<1>2. Held' = Held \ E
  <2>1. \A q \in Procs : pending'[q] \cup batch'[q] = (pending[q] \cup batch[q]) \ E
    BY <1>1, RowsTyped DEF MoveCrash, Placed
  <2>2. QED
    BY <2>1 DEF Held
<1>3. Shelf' = Shelf
  <2>1. Shelf = [k \in Homes |-> UNION {RowsIn[f] : f \in {g \in SegId : g[2] = k}}]
    BY DEF Shelf, RowsIn
  <2>2. Shelf' = [k \in Homes |-> UNION {RowsIn'[f] : f \in {g \in SegId : g[2] = k}}]
    BY DEF Shelf, RowsIn
  <2>3. QED
    BY <2>1, <2>2 DEF MoveCrash
<1>4. LogHome' = LogHome /\ gone' = gone \cup E
  BY <1>1, HomeSame DEF MoveCrash
<1>5. Log!Discard(E)
  BY <1>2, <1>3, <1>4 DEF Log!Discard, LogHome, Held, Shelf
<1>6. QED
  BY <1>1, <1>5 DEF Log!Next, Held

(* The recorder implements the evidence log: an event belongs to one profile  *)
(* for ever, is committed to that profile's shelf at most once, and once it   *)
(* has left memory or the shelf it never comes back.                          *)
THEOREM Refinement == Spec => ImplementsLog
<1>1. Init => Log!Init
  BY LogInit
<1>2. Inductive /\ [Next]_vars => [Log!Next]_(Log!vars)
  <2>1. SUFFICES ASSUME Inductive, [Next]_vars PROVE [Log!Next]_(Log!vars)
    OBVIOUS
  <2>2. Move
    BY <2>1, NextMoves DEF Inductive
  <2>3. CASE MoveNothing \/ \E p \in Procs : MoveTake(p)
    BY <2>1, <2>3, LogStutters DEF Inductive, Log!vars, LogHome, Held, Shelf
  <2>4. QED
    BY <2>1, <2>2, <2>3, LogAccept, LogCommit, LogDelete, LogDiscard DEF Inductive, Move
<1>3. QED
  BY <1>1, <1>2, InductiveInvariant, PTL DEF Spec, ImplementsLog, Log!Spec

=============================================================================
