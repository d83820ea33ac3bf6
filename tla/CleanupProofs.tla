---------------------------- MODULE CleanupProofs ----------------------------
(* What cleanup_segments deletes and what it leaves, when one process uses   *)
(* the recorder directories. With several the sizes and times a scan saw may *)
(* be stale when the files are deleted, so nothing of this is promised.      *)
EXTENDS FreezeProofs

-----------------------------------------------------------------------------
(* Sizes: how many units a set of files has.                                 *)

LiveFiles == {f \in SegId : files[f].live}

LiveFinite == IsFiniteSet(LiveFiles)

(* Finitely many files have finitely many units. *)
LEMMA UnitsFinite ==
  ASSUME TypeOK, NEW S, S \subseteq SegId, IsFiniteSet(S)
  PROVE  IsFiniteSet(Units(S)) /\ SizeOf(S) \in Nat
<1> DEFINE parts == {{f} \X (1..files[f].size) : f \in S}
<1>1. \A f \in S : files[f].size \in Nat
  BY DEF TypeOK, FileType
<1>2. IsFiniteSet(parts)
  <2> DEFINE Part(f) == {f} \X (1..files[f].size)
  <2>1. [f \in S |-> Part(f)] \in Surjection(S, parts)
    BY DEF Surjection
  <2> HIDE DEF Part, parts
  <2>2. QED
    BY <2>1, FS_Surjection
<1>3. \A U \in parts : IsFiniteSet(U)
  <2>1. TAKE U \in parts
  <2>2. PICK f \in S : U = {f} \X (1..files[f].size)
    OBVIOUS
  <2>3. QED
    BY <1>1, <2>2, FileUnits
<1> HIDE DEF parts
<1>4. IsFiniteSet(UNION parts)
  BY <1>2, <1>3, FS_UNION
<1>5. QED
  BY <1>4, FS_CardinalityType DEF Units, SizeOf, parts

(* A larger set of files is not smaller. *)
LEMMA SizeGrows ==
  ASSUME TypeOK, NEW S, S \subseteq SegId, IsFiniteSet(S), NEW T, T \subseteq S
  PROVE  /\ IsFiniteSet(T)
         /\ SizeOf(T) \in Nat /\ SizeOf(S) \in Nat /\ SizeOf(T) <= SizeOf(S)
<1>1. IsFiniteSet(Units(S)) /\ SizeOf(S) \in Nat
  BY UnitsFinite
<1>2. IsFiniteSet(T)
  BY FS_Subset
<1>3. SizeOf(T) \in Nat
  BY <1>2, UnitsFinite
<1>4. Units(T) \subseteq Units(S)
  BY DEF Units
<1>5. Cardinality(Units(T)) <= Cardinality(Units(S))
  BY <1>1, <1>4, FS_Subset
<1>6. QED
  BY <1>1, <1>2, <1>3, <1>5 DEF SizeOf

LEMMA InDirFinite ==
  ASSUME LiveFinite, NEW d
  PROVE  InDir(d) \subseteq SegId /\ IsFiniteSet(InDir(d))
<1>1. InDir(d) \subseteq LiveFiles /\ InDir(d) \subseteq SegId
  BY DEF InDir, LiveFiles
<1>2. QED
  BY <1>1, FS_Subset DEF LiveFinite

LEMMA InitLiveFinite == Init => LiveFinite
<1>1. SUFFICES ASSUME Init PROVE LiveFinite
  OBVIOUS
<1>2. LiveFiles = {}
  BY <1>1 DEF Init, LiveFiles, NoFile
<1>3. QED
  BY <1>2, FS_EmptySet DEF LiveFinite

(* A step creates at most one file. *)
LEMMA NextLiveFinite ==
  ASSUME TypeOK, LockInv, NothingDead, Placed, LiveFinite, [Next]_vars
  PROVE  LiveFinite'
<1>1. CASE files' = files
  BY <1>1 DEF LiveFinite, LiveFiles
<1>2. CASE FileChange
  <2>1. PICK f \in SegId : \A g \in SegId \ {f} : files'[g] = files[g]
    BY <1>2 DEF FileChange
  <2>2. LiveFiles' \subseteq LiveFiles \cup {f}
    BY <2>1 DEF LiveFiles
  <2>3. IsFiniteSet(LiveFiles \cup {f})
    BY FS_AddElement DEF LiveFinite
  <2>4. QED
    BY <2>2, <2>3, FS_Subset DEF LiveFinite
<1>3. QED
  BY <1>1, <1>2, FileChanges

-----------------------------------------------------------------------------
(* A cleanup in progress, in the only process there is.                      *)

(* What a directory holds, as far as the cleanup could examine and delete it. *)
Within(p, d) == InDir(d) \ clean[p].failed

Tidy(p, d) == SizeOf(Within(p, d)) <= MaxBytes \/ \A f \in Within(p, d) : IsCurrent(p, f)

KeptFiles(p) == {k.seg : k \in clean[p].keep}

(* The directories this cleanup is done with. *)
Swept(p) ==
  dirsSeen[p] \ (clean[p].todo \cup (IF io[p].stage = "delete" THEN {clean[p].dir} ELSE {}))

(* What the scan found still holds: its directory, as far as it could be     *)
(* examined and deleted, is what will be deleted plus what is kept, with the *)
(* sizes that were noted, and every file to be deleted for its age is past   *)
(* retention, row by row.                                                    *)
ScanHolds(p) ==
  /\ Within(p, clean[p].dir) \subseteq clean[p].doomed \cup KeptFiles(p)
  /\ clean[p].doomed \cup KeptFiles(p) \subseteq InDir(clean[p].dir)
  /\ clean[p].doomed \cap KeptFiles(p) = {}
  /\ \A k \in clean[p].keep : k.size = files[k.seg].size /\ k.nth = files[k.seg].nth
  /\ \A f \in clean[p].doomed : \A e \in files[f].rows : row[e].ts < now - Retention

Sweeping(p) ==
  /\ io[p].stage \in {"clean", "delete"} => \A d \in Swept(p) : Tidy(p, d)
  /\ io[p].stage = "delete" => ScanHolds(p)

LEMMA InitSweeping ==
  ASSUME NEW p \in Procs
  PROVE  Init => Sweeping(p)
  BY DEF Init, Sweeping, Unlocked

(* A process that is not cleaning up when the step is over. *)
LEMMA SweepingOver ==
  ASSUME NEW p \in Procs, io'[p].stage \notin {"clean", "delete"}
  PROVE  Sweeping(p)'
  BY DEF Sweeping

(* A step that leaves the files and the cleanup alone. *)
LEMMA SweepingFrame ==
  ASSUME TypeOK, [Next]_vars, NEW p \in Procs, Sweeping(p),
         files' = files, segs' = segs, dirsSeen' = dirsSeen, clean' = clean,
         io'[p].stage = io[p].stage
  PROVE  Sweeping(p)'
<1>1. \A d : Within(p, d)' = Within(p, d) /\ (Tidy(p, d) => Tidy(p, d)')
  BY DEF InDir, Within, Tidy, SizeOf, Units, IsCurrent
<1>2. Swept(p)' = Swept(p) /\ KeptFiles(p)' = KeptFiles(p)
  BY DEF Swept, KeptFiles
<1>3. ScanHolds(p) => ScanHolds(p)'
  <2>1. SUFFICES ASSUME ScanHolds(p) PROVE ScanHolds(p)'
    OBVIOUS
  <2>2. now \in Nat /\ now' \in Nat /\ now <= now' /\ Retention \in Nat
    BY NowGrows, BoundsAssumption
  <2>3. \A f \in SegId : files[f].rows \subseteq Ids
    BY DEF TypeOK, FileType
  <2>4. clean[p].doomed \subseteq SegId
    BY DEF TypeOK, CleanupType
  <2>5. ASSUME NEW f \in clean[p].doomed, NEW e \in files[f].rows
        PROVE  row'[e].ts < now' - Retention
    <3>1. e \in Ids /\ row[e].ts < now - Retention
      BY <2>1, <2>3, <2>4 DEF ScanHolds
    <3>2. row'[e] = row[e] /\ row[e].ts \in Nat
      BY <3>1, RowsKept, RowTyped
    <3>3. QED
      BY <2>2, <3>1, <3>2
  <2>6. /\ InDir(clean[p].dir)' = InDir(clean[p].dir)
        /\ Within(p, clean[p].dir)' = Within(p, clean[p].dir)
    BY DEF InDir, Within
  <2>7. QED
    BY <1>2, <2>1, <2>5, <2>6 DEF ScanHolds
<1>4. QED
  BY <1>1, <1>2, <1>3 DEF Sweeping

LEMMA StartSweeping ==
  ASSUME TypeOK, NEW p \in Procs, CleanupStart(p)
  PROVE  Sweeping(p)'
<1>1. io'[p].stage = "clean" /\ clean'[p].todo = CleanupDirs(p) /\ dirsSeen' = dirsSeen
  BY DEF CleanupStart, TypeOK, LockType, NoCleanup, segVars
<1>2. dirsSeen'[p] \ clean'[p].todo = {}
  BY <1>1 DEF CleanupDirs
<1>3. QED
  BY <1>1, <1>2 DEF Sweeping, Swept

LEMMA ScanSweeping ==
  ASSUME TypeOK, FileInv, NEW p \in Procs, Sweeping(p), CleanupScan(p)
  PROVE  Sweeping(p)'
<1>0. PICK d \in clean[p].todo : \E missed \in SUBSET InDir(d) :
        LET seen == InDir(d) \ missed
            doomed == {f \in seen : Expired(p, f) /\ ~IsCurrent(p, f)}
        IN  clean' = [clean EXCEPT ![p] =
               [todo |-> clean[p].todo \ {d}, dir |-> d, doomed |-> doomed,
                keep |-> Stats(seen \ doomed), failed |-> clean[p].failed \cup missed]]
  BY Zenon DEF CleanupScan
<1>1. PICK missed \in SUBSET InDir(d) :
        LET seen == InDir(d) \ missed
            doomed == {f \in seen : Expired(p, f) /\ ~IsCurrent(p, f)}
        IN  clean' = [clean EXCEPT ![p] =
               [todo |-> clean[p].todo \ {d}, dir |-> d, doomed |-> doomed,
                keep |-> Stats(seen \ doomed), failed |-> clean[p].failed \cup missed]]
  BY <1>0, Zenon
<1> DEFINE seen == InDir(d) \ missed
           old == {f \in seen : Expired(p, f) /\ ~IsCurrent(p, f)}
<1>2. /\ clean'[p].todo = clean[p].todo \ {d} /\ clean'[p].dir = d
      /\ clean'[p].doomed = old /\ clean'[p].keep = Stats(seen \ old)
      /\ clean'[p].failed = clean[p].failed \cup missed
  <2>1. clean' = [clean EXCEPT ![p] =
               [todo |-> clean[p].todo \ {d}, dir |-> d, doomed |-> old,
                keep |-> Stats(seen \ old), failed |-> clean[p].failed \cup missed]]
    BY <1>1
  <2> HIDE DEF old, seen
  <2>2. QED
    BY <2>1 DEF TypeOK
<1>3. /\ io[p].stage = "clean" /\ io'[p].stage = "delete"
      /\ files' = files /\ segs' = segs /\ dirsSeen' = dirsSeen /\ row' = row /\ now' = now
  BY DEF CleanupScan, TypeOK, LockType, segVars, diskVars
<1>4. \A x : InDir(x)' = InDir(x)
  BY <1>3 DEF InDir
<1>5. ASSUME NEW x, x # d, Tidy(p, x)
      PROVE  Tidy(p, x)'
  <2>1. Within(p, x)' = Within(p, x)
    BY <1>2, <1>4, <1>5 DEF Within, InDir
  <2>2. Units(Within(p, x))' = Units(Within(p, x))
    BY <1>3, <2>1 DEF Units
  <2>3. QED
    BY <1>3, <1>5, <2>1, <2>2 DEF Tidy, SizeOf, IsCurrent
<1>6. Swept(p)' \subseteq Swept(p) \ {d}
  BY <1>2, <1>3 DEF Swept
<1>7. KeptFiles(p)' = seen \ old
  <2>1. KeptFiles(p)' = {k.seg : k \in Stats(seen \ old)}
    BY <1>2 DEF KeptFiles
  <2>2. \A f : f \in {k.seg : k \in Stats(seen \ old)} <=> f \in seen \ old
    <3> DEFINE S == seen \ old
               noted(f) == [seg |-> f, size |-> files[f].size, nth |-> files[f].nth]
    <3>1. Stats(S) = {noted(f) : f \in S}
      BY DEF Stats
    <3>2. \A f : noted(f).seg = f
      OBVIOUS
    <3> HIDE DEF S, noted
    <3>3. \A f : f \in {k.seg : k \in {noted(g) : g \in S}} <=> f \in S
      BY <3>2
    <3>4. QED
      BY <3>1, <3>3 DEF S
  <2>3. QED
    BY <2>1, <2>2
<1>8. \A k \in clean'[p].keep : k.size = files[k.seg].size /\ k.nth = files[k.seg].nth
  <2> HIDE DEF old, seen
  <2>1. QED
    BY <1>2 DEF Stats
<1>9. ASSUME NEW f \in old, NEW e \in files[f].rows
      PROVE  row[e].ts < now - Retention
  <2>1. f \in SegId /\ files[f].mtime < lastCleanup[p] - Retention - Grace
    BY DEF InDir, Expired
  <2>2. e \in Ids /\ files[f].mtime \in Nat /\ lastCleanup[p] \in Int /\ now \in Nat
    BY <2>1 DEF TypeOK, FileType
  <2>3. row[e].ts \in Nat /\ row[e].ts <= files[f].mtime /\ lastCleanup[p] <= now
    BY <2>1, <2>2, RowTyped DEF FileInv
  <2>4. Retention \in Nat /\ Grace \in Nat
    BY BoundsAssumption
  <2>5. QED
    BY <2>1, <2>2, <2>3, <2>4
<1>10. old \subseteq seen /\ seen = InDir(d) \ missed
  OBVIOUS
<1> HIDE DEF old, seen
<1>11. ScanHolds(p)'
  <2>1. InDir(clean[p].dir)' = InDir(d)
    BY <1>2, <1>3 DEF InDir
  <2>2. Within(p, clean[p].dir)' = InDir(d) \ (clean[p].failed \cup missed)
    BY <1>2, <2>1 DEF Within
  <2>3. QED
    BY <1>2, <1>3, <1>7, <1>8, <1>9, <1>10, <2>1, <2>2 DEF ScanHolds
<1>12. \A x \in Swept(p)' : Tidy(p, x)'
  BY <1>3, <1>5, <1>6 DEF Sweeping
<1>13. QED
  BY <1>3, <1>11, <1>12 DEF Sweeping

(* A file is deleted or cannot be, and is taken off the lists of the scan.   *)
LEMMA RemoveSweeping ==
  ASSUME TypeOK, NEW p \in Procs, Sweeping(p), io[p].stage = "delete",
         segs' = segs, dirsSeen' = dirsSeen, row' = row, now' = now,
         NEW f \in InDir(clean[p].dir), NEW rest \in CleanupType, Remove(p, f, rest),
         rest.todo = clean[p].todo, rest.dir = clean[p].dir, rest.failed = clean[p].failed,
         rest.doomed = clean[p].doomed \ {f}, rest.keep \subseteq clean[p].keep,
         {k.seg : k \in rest.keep} = KeptFiles(p) \ {f}
  PROVE  Sweeping(p)'
<1>1. f \in SegId /\ f[2] = clean[p].dir /\ files \in [SegId -> FileType]
  BY DEF InDir, TypeOK
<1>2. /\ clean'[p].todo = clean[p].todo /\ clean'[p].dir = clean[p].dir
      /\ clean'[p].doomed = clean[p].doomed \ {f} /\ clean'[p].keep \subseteq clean[p].keep
      /\ {k.seg : k \in clean'[p].keep} = KeptFiles(p) \ {f}
      /\ clean[p].failed \subseteq clean'[p].failed
      /\ clean'[p].failed \subseteq clean[p].failed \cup {f}
      /\ \A g \in SegId \ {f} : files'[g] = files[g]
      /\ ~files'[f].live \/ f \in clean'[p].failed
      /\ files'[f].live => files[f].live
  <2>0. clean \in [Procs -> CleanupType]
    BY DEF TypeOK
  <2>1. CASE Unlink(f) /\ clean' = [clean EXCEPT ![p] = rest]
    <3>1. clean'[p] = rest
      BY <2>0, <2>1
    <3>2. files'[f] = NoFile /\ \A g \in SegId \ {f} : files'[g] = files[g]
      BY <1>1, <2>1 DEF Unlink
    <3>3. ~NoFile.live
      BY DEF NoFile
    <3>4. QED
      BY <3>1, <3>2, <3>3
  <2>2. CASE files' = files /\ clean' = [clean EXCEPT ![p] = [rest EXCEPT !.failed = @ \cup {f}]]
    <3> DEFINE c == [rest EXCEPT !.failed = @ \cup {f}]
    <3>1. clean'[p] = c
      BY <2>0, <2>2
    <3>2. /\ c.todo = rest.todo /\ c.dir = rest.dir /\ c.doomed = rest.doomed
          /\ c.keep = rest.keep /\ c.failed = rest.failed \cup {f}
      BY DEF CleanupType
    <3> HIDE DEF c
    <3>3. QED
      BY <2>2, <3>1, <3>2
  <2>3. QED
    BY <2>1, <2>2 DEF Remove, diskVars
<1>3. io'[p].stage = "delete"
  <2>1. io[p] \in LockType
    BY DEF TypeOK
  <2>2. Cut(p, f, io[p]).stage = io[p].stage
    BY <2>1 DEF Cut, LockType
  <2>3. QED
    BY <2>2 DEF Remove
<1>4. ScanHolds(p)
  BY DEF Sweeping
<1>5. KeptFiles(p)' = KeptFiles(p) \ {f}
  BY <1>2 DEF KeptFiles
<1>6. /\ \A d : InDir(d)' \subseteq InDir(d) /\ InDir(d) \ {f} \subseteq InDir(d)'
      /\ \A d : f \in InDir(d)' => f \in clean'[p].failed
  <2>1. \A d, g : g \in InDir(d)' <=> g \in SegId /\ g[2] = d /\ files'[g].live
    BY DEF InDir
  <2>2. \A d, g : g \in InDir(d) <=> g \in SegId /\ g[2] = d /\ files[g].live
    BY DEF InDir
  <2>3. QED
    BY <1>2, <2>1, <2>2
<1>7. Swept(p)' = Swept(p) /\ clean[p].dir \notin Swept(p)
  BY <1>2, <1>3 DEF Swept
<1>8. ASSUME NEW d \in Swept(p)
      PROVE  Tidy(p, d)'
  <2>1. f \notin InDir(d) /\ Tidy(p, d)
    BY <1>1, <1>7, <1>8 DEF InDir, Sweeping
  <2>2. Within(p, d)' = Within(p, d)
    BY <1>2, <1>6, <2>1 DEF Within
  <2>3. \A g \in Within(p, d) : files'[g] = files[g]
    BY <1>2, <2>1 DEF Within, InDir
  <2>4. Units(Within(p, d))' = Units(Within(p, d))
    BY <2>2, <2>3 DEF Units
  <2>5. QED
    BY <2>1, <2>2, <2>4 DEF Tidy, SizeOf, IsCurrent
<1>9. ScanHolds(p)'
  <2>1. clean[p].doomed \cup KeptFiles(p) \subseteq InDir(clean[p].dir)
    BY <1>4 DEF ScanHolds
  <2>2. InDir(clean[p].dir) \subseteq SegId
    BY DEF InDir
  <2>3. \A k \in clean'[p].keep : k.seg \in SegId \ {f}
    BY <1>2, <2>1, <2>2
  <2>4. \A k \in clean'[p].keep : k.size = files'[k.seg].size /\ k.nth = files'[k.seg].nth
    BY <1>2, <1>4, <2>3 DEF ScanHolds
  <2>5. \A g \in clean'[p].doomed : \A e \in files'[g].rows : row'[e].ts < now' - Retention
    <3>1. \A g \in clean[p].doomed \ {f} : files'[g] = files[g]
      BY <1>2, <2>1, <2>2
    <3>2. QED
      BY <1>2, <1>4, <3>1 DEF ScanHolds
  <2>6. InDir(clean[p].dir)' = {g \in SegId : g[2] = clean[p].dir /\ files'[g].live}
    BY <1>2 DEF InDir
  <2>7. /\ InDir(clean[p].dir)' \subseteq InDir(clean[p].dir)
        /\ InDir(clean[p].dir) \ {f} \subseteq InDir(clean[p].dir)'
        /\ f \in InDir(clean[p].dir)' => f \in clean'[p].failed
    BY <1>2, <2>6 DEF InDir
  <2>8. Within(p, clean[p].dir)' = InDir(clean[p].dir)' \ clean'[p].failed
    BY DEF Within
  <2>9. Within(p, clean[p].dir)' \subseteq Within(p, clean[p].dir) \ {f}
    BY <1>2, <2>7, <2>8 DEF Within
  <2>10. Within(p, clean[p].dir)' \subseteq clean'[p].doomed \cup KeptFiles(p)'
    BY <1>2, <1>4, <1>5, <2>9 DEF ScanHolds
  <2>11. clean'[p].doomed \cup KeptFiles(p)' \subseteq InDir(clean[p].dir)'
    BY <1>2, <1>5, <2>1, <2>7
  <2>12. clean'[p].doomed \cap KeptFiles(p)' = {}
    BY <1>2, <1>4, <1>5 DEF ScanHolds
  <2>13. QED
    BY <2>4, <2>5, <2>10, <2>11, <2>12 DEF ScanHolds
<1>10. QED
  BY <1>7, <1>8, <1>9 DEF Sweeping

LEMMA ExpiredSweeping ==
  ASSUME TypeOK, NEW p \in Procs, Sweeping(p), DeleteExpired(p)
  PROVE  Sweeping(p)'
<1>1. PICK f \in clean[p].doomed : Remove(p, f, [clean[p] EXCEPT !.doomed = @ \ {f}])
  BY DEF DeleteExpired
<1> DEFINE rest == [clean[p] EXCEPT !.doomed = @ \ {f}]
<1>2. /\ io[p].stage = "delete" /\ segs' = segs /\ dirsSeen' = dirsSeen /\ row' = row
      /\ now' = now /\ clean[p] \in CleanupType
  BY DEF DeleteExpired, segVars, TypeOK
<1>3. /\ rest \in CleanupType /\ rest.todo = clean[p].todo /\ rest.dir = clean[p].dir
      /\ rest.failed = clean[p].failed /\ rest.doomed = clean[p].doomed \ {f}
      /\ rest.keep = clean[p].keep /\ Remove(p, f, rest)
  BY <1>1, <1>2 DEF CleanupType
<1>4. f \in InDir(clean[p].dir) /\ f \notin KeptFiles(p)
  BY <1>2 DEF Sweeping, ScanHolds
<1> HIDE DEF rest
<1>5. {k.seg : k \in rest.keep} = KeptFiles(p) \ {f}
  BY <1>3, <1>4 DEF KeptFiles
<1>6. QED
  BY <1>2, <1>3, <1>4, <1>5, RemoveSweeping

LEMMA OldestSweeping ==
  ASSUME TypeOK, NEW p \in Procs, Sweeping(p), DeleteOldest(p)
  PROVE  Sweeping(p)'
<1>1. PICK k \in Victims(p) : Remove(p, k.seg, [clean[p] EXCEPT !.keep = @ \ {k}])
  BY DEF DeleteOldest
<1> DEFINE f == k.seg
           rest == [clean[p] EXCEPT !.keep = @ \ {k}]
<1>2. /\ io[p].stage = "delete" /\ clean[p].doomed = {}
      /\ segs' = segs /\ dirsSeen' = dirsSeen /\ row' = row
      /\ now' = now /\ clean[p] \in CleanupType
  BY DEF DeleteOldest, segVars, TypeOK
<1>3. /\ rest \in CleanupType /\ rest.todo = clean[p].todo /\ rest.dir = clean[p].dir
      /\ rest.failed = clean[p].failed /\ rest.doomed = clean[p].doomed
      /\ rest.keep = clean[p].keep \ {k} /\ Remove(p, f, rest)
  BY <1>1, <1>2 DEF CleanupType
<1>4. ScanHolds(p) /\ k \in clean[p].keep
  BY <1>2 DEF Sweeping, Victims
<1>5. f \in InDir(clean[p].dir)
  BY <1>4 DEF ScanHolds, KeptFiles
<1>6. \A other \in clean[p].keep : other.seg = f => other = k
  <2>1. SUFFICES ASSUME NEW other \in clean[p].keep, other.seg = k.seg PROVE other = k
    OBVIOUS
  <2>2. other \in StatType /\ k \in StatType
    BY <1>2, <1>4 DEF CleanupType
  <2>3. other.size = k.size /\ other.nth = k.nth
    BY <1>4, <2>1 DEF ScanHolds
  <2>4. QED
    BY <2>1, <2>2, <2>3 DEF StatType
<1> HIDE DEF f, rest
<1>7. {x.seg : x \in rest.keep} = KeptFiles(p) \ {f}
  <2>1. \A g : g \in {x.seg : x \in clean[p].keep \ {k}} <=> g \in KeptFiles(p) \ {f}
    BY <1>6 DEF KeptFiles, f
  <2>2. QED
    BY <1>3, <2>1
<1>8. rest.doomed = clean[p].doomed \ {f}
  BY <1>2, <1>3
<1>9. QED
  BY <1>2, <1>3, <1>5, <1>7, <1>8, RemoveSweeping

(* While the sizes a scan noted are the files' sizes, their sum is the size  *)
(* of the files it keeps.                                                    *)
LEMMA TotalIsSize ==
  ASSUME NEW p \in Procs, ScanHolds(p)
  PROVE  Total(clean[p].keep) = SizeOf(KeptFiles(p))
<1> DEFINE noted == {{k.seg} \X (1..k.size) : k \in clean[p].keep}
           real == {{f} \X (1..files[f].size) : f \in KeptFiles(p)}
<1>1. noted \subseteq real
  BY DEF ScanHolds, KeptFiles
<1>2. real \subseteq noted
  <2>1. SUFFICES ASSUME NEW f \in KeptFiles(p) PROVE {f} \X (1..files[f].size) \in noted
    OBVIOUS
  <2>2. PICK k \in clean[p].keep : f = k.seg
    BY DEF KeptFiles
  <2>3. QED
    BY <2>2 DEF ScanHolds
<1>3. noted = real
  BY <1>1, <1>2
<1>4. QED
  BY <1>3 DEF Total, SizeOf, Units

LEMMA DoneSweeping ==
  ASSUME TypeOK, LiveFinite, NEW p \in Procs, Sweeping(p), CleanupDone(p)
  PROVE  Sweeping(p)'
<1>1. /\ io[p].stage = "delete" /\ clean[p].doomed = {}
      /\ files' = files /\ segs' = segs /\ dirsSeen' = dirsSeen
      /\ ~OverBudget(p) \/ Victims(p) = {}
  BY DEF CleanupDone, segVars, diskVars
<1>2. /\ io'[p].stage = "clean" /\ clean'[p].todo = clean[p].todo
      /\ clean'[p].failed = clean[p].failed
  BY DEF CleanupDone, TypeOK, LockType, NoCleanup
<1>3. ScanHolds(p)
  BY <1>1 DEF Sweeping
<1>4. \A d : Tidy(p, d) => Tidy(p, d)'
  <2>1. \A d : Within(p, d)' = Within(p, d)
    BY <1>1, <1>2 DEF InDir, Within
  <2>2. \A d : Units(Within(p, d))' = Units(Within(p, d))
    BY <1>1, <2>1 DEF Units
  <2>3. QED
    BY <1>1, <2>1, <2>2 DEF Tidy, SizeOf, IsCurrent
<1>5. /\ Within(p, clean[p].dir) \subseteq KeptFiles(p)
      /\ KeptFiles(p) \subseteq InDir(clean[p].dir)
  BY <1>1, <1>3 DEF ScanHolds
<1>6. Tidy(p, clean[p].dir)
  <2>1. CASE Victims(p) = {}
    <3>1. \A k \in clean[p].keep : IsCurrent(p, k.seg)
      BY <2>1 DEF Victims
    <3>2. \A f \in KeptFiles(p) : IsCurrent(p, f)
      BY <3>1 DEF KeptFiles
    <3>3. QED
      BY <1>5, <3>2 DEF Tidy
  <2>2. CASE ~OverBudget(p)
    <3>1. ~(SizeOf(KeptFiles(p)) > MaxBytes)
      BY <1>3, <2>2, TotalIsSize DEF OverBudget
    <3>2. KeptFiles(p) \subseteq SegId /\ IsFiniteSet(KeptFiles(p))
      BY <1>5, InDirFinite, FS_Subset
    <3>3. /\ SizeOf(KeptFiles(p)) \in Nat /\ SizeOf(Within(p, clean[p].dir)) \in Nat
          /\ SizeOf(Within(p, clean[p].dir)) <= SizeOf(KeptFiles(p))
      BY <1>5, <3>2, SizeGrows
    <3>4. QED
      BY <3>1, <3>3, BoundsAssumption DEF Tidy
  <2>3. QED
    BY <1>1, <2>1, <2>2
<1>7. Swept(p)' \subseteq Swept(p) \cup {clean[p].dir}
  BY <1>1, <1>2 DEF Swept
<1>8. \A d \in Swept(p)' : Tidy(p, d)'
  BY <1>1, <1>4, <1>6, <1>7 DEF Sweeping
<1>9. QED
  BY <1>2, <1>8 DEF Sweeping

LEMMA NextSweeping ==
  ASSUME TypeOK, LockInv, LiveFinite, FileInv, NEW p, Procs = {p}, Sweeping(p), [Next]_vars
  PROVE  Sweeping(p)'
<1>0. p \in Procs /\ io \in [Procs -> LockType]
  BY DEF TypeOK
<1>1. CASE \/ \E o \in Owners : TakePending(p, o)
           \/ AppendOpen(p) \/ AppendWrite(p) \/ AppendTorn(p) \/ AppendFails(p)
           \/ WriteEnd(p) \/ Crash(p)
  <2>1. io'[p].stage \notin {"clean", "delete"}
    <3>1. CASE \E o \in Owners : TakePending(p, o)
      BY <1>0, <3>1 DEF TakePending, Unlocked
    <3>2. CASE AppendOpen(p)
      BY <1>0, <3>2 DEF AppendOpen, LockType
    <3>3. CASE AppendWrite(p) \/ AppendTorn(p)
      <4>1. io' = [io EXCEPT ![p].stage = "append", ![p].seg = NoSeg, ![p].linked = FALSE]
        BY <3>3 DEF AppendWrite, AppendTorn, WriteRows
      <4>2. QED
        BY <1>0, <4>1 DEF LockType
    <3>4. CASE AppendFails(p)
      BY <3>4 DEF AppendFails
    <3>5. CASE WriteEnd(p) \/ Crash(p)
      BY <1>0, <3>5 DEF WriteEnd, Crash, Unlocked
    <3>6. QED
      BY <1>1, <3>1, <3>2, <3>3, <3>4, <3>5
  <2>2. QED
    BY <1>0, <2>1, SweepingOver
<1>2. CASE \/ CleanupStart(p) \/ CleanupScan(p) \/ DeleteExpired(p) \/ DeleteOldest(p)
           \/ CleanupDone(p)
  BY <1>0, <1>2, StartSweeping, ScanSweeping, ExpiredSweeping, OldestSweeping, DoneSweeping
<1>3. CASE UNCHANGED <<files, segs, dirsSeen, clean, io>>
  BY <1>0, <1>3, SweepingFrame
<1>4. ASSUME NEW q \in Procs, HookStep(q) \/ CommandStep(q)
      PROVE  UNCHANGED <<files, segs, dirsSeen, clean, io>>
  BY <1>4, CommandFrame DEF HookStep, Record, RecordAstray, Enter, EnsureFlusher, StartThread,
                            RequestFlush, writerVars, segVars, diskVars
<1>5. QED
  BY <1>1, <1>2, <1>3, <1>4
     DEF Next, WriteStep, FlusherTop, FlusherWake, StopCall, StopJoin, Tick, vars,
         writerVars, segVars, diskVars

-----------------------------------------------------------------------------
(* The theorems.                                                             *)

CleanupBase(p) == FreezeBase /\ LiveFinite /\ Sweeping(p)

LEMMA CleanupInvariant ==
  ASSUME NEW p, Procs = {p}
  PROVE  Spec => []CleanupBase(p)
<1>1. Init => LiveFinite /\ Sweeping(p)
  BY InitLiveFinite, InitSweeping
<1>2. FreezeBase /\ LiveFinite /\ Sweeping(p) /\ [Next]_vars => LiveFinite' /\ Sweeping(p)'
  BY NextLiveFinite, NextSweeping DEF FreezeBase, Inductive
<1>3. QED
  BY <1>1, <1>2, FreezeInvariant, PTL DEF Spec, CleanupBase

(* A cleanup leaves every directory it is done with within                   *)
(* recorder_max_bytes, or with nothing but the segment still being written,  *)
(* however much the process had written to how many segments - apart from    *)
(* the files that it could not examine or delete.                            *)
THEOREM CleanupFitsBudget ==
  ASSUME NEW p, Procs = {p}
  PROVE  Spec => []CleanedWithinBudget
<1>1. CleanupBase(p) => CleanedWithinBudget
  <2>1. SUFFICES ASSUME CleanupBase(p), io[p].stage = "clean", NEW d \in dirsSeen[p] \ clean[p].todo
                 PROVE  Tidy(p, d)
    BY DEF CleanedWithinBudget, Tidy, Within
  <2>2. d \in Swept(p)
    BY <2>1 DEF Swept
  <2>3. QED
    BY <2>1, <2>2 DEF CleanupBase, Sweeping
<1>2. QED
  BY <1>1, CleanupInvariant, PTL

(* A segment only loses its rows to a deletion. *)
LEMMA EmptiedByCleanup ==
  ASSUME TypeOK, LockInv, NothingDead, Placed, NEW p, Procs = {p}, [Next]_vars,
         NEW f \in SegId, files[f].rows # {}, files'[f].rows = {}
  PROVE  \/ DeleteExpired(p) /\ f \in clean[p].doomed
         \/ DeleteOldest(p) /\ \E k \in Victims(p) : f = k.seg
<1>0. files \in [SegId -> FileType] /\ p \in Procs /\ files' # files
  BY DEF TypeOK
<1>2. ASSUME NEW g, files' = [files EXCEPT ![g] = NoFile]
      PROVE  g = f
  BY <1>0, <1>2
<1>3. \A g, rest : Remove(p, g, rest) => g = f
  BY <1>0, <1>2 DEF Remove, Unlink, diskVars
<1>4. ASSUME AppendOpen(p) PROVE FALSE
  <2> DEFINE g == <<p, GroupDir(p), TargetNumber(p, GroupDir(p))>>
             r == [NoFile EXCEPT !.live = TRUE, !.mtime = now, !.nth = stamp]
  <2>1. files' = files \/ (~files[g].live /\ files' = [files EXCEPT ![g] = r])
    BY <1>4 DEF AppendOpen, diskVars
  <2>2. files[f].live
    BY DEF NothingDead
  <2> HIDE DEF g, r
  <2>3. files'[f] = files[f]
    BY <1>0, <2>1, <2>2
  <2>4. QED
    BY <2>3
<1>5. ASSUME AppendWrite(p) \/ AppendTorn(p) PROVE FALSE
  <2>1. PICK W \in SUBSET Group(p), torn \in BOOLEAN : WriteRows(p, W, torn)
    BY <1>5 DEF AppendWrite, AppendTorn
  <2>2. PICK g, r : /\ files' = files \/ files' = [files EXCEPT ![g] = r]
                    /\ files[g].rows \subseteq r.rows
    <3> DEFINE g == io[p].seg
               old == files[g]
               fragment == IF torn THEN 1 ELSE 0
               r == [live |-> TRUE, rows |-> old.rows \cup Readable(p, W),
                     start |-> [e \in 1..NEvents |->
                        IF e \in W THEN old.size + Cardinality({x \in W : x < e})
                        ELSE old.start[e]],
                     size |-> old.size + Cardinality(W) + fragment,
                     mtime |-> now, nth |-> stamp, torn |-> torn]
    <3>1. files' = files \/ files' = [files EXCEPT ![g] = r]
      BY <2>1, Zenon DEF WriteRows, diskVars
    <3>2. files[g].rows \subseteq r.rows
      OBVIOUS
    <3> HIDE DEF g, r
    <3>3. QED
      BY <3>1, <3>2
  <2>3. files[f].rows \subseteq files'[f].rows
    BY <1>0, <2>2
  <2>4. QED
    BY <2>3
<1>6. ASSUME DeleteExpired(p) PROVE f \in clean[p].doomed
  BY <1>3, <1>6 DEF DeleteExpired
<1>7. ASSUME DeleteOldest(p) PROVE \E k \in Victims(p) : f = k.seg
  BY <1>3, <1>7 DEF DeleteOldest
<1>8. QED
  BY <1>0, <1>4, <1>5, <1>6, <1>7, DiskSteps

(* Cleanup "only deletes whole segments (expired, or oldest-first when over  *)
(* the byte budget)": rows leave a directory only when every row of their    *)
(* segment is past retention, or while the directory is over                 *)
(* recorder_max_bytes.                                                       *)
THEOREM CleanupSparesRecent ==
  ASSUME NEW p, Procs = {p}
  PROVE  Spec => DeletesExpiredOrOver
<1>1. CleanupBase(p) /\ [Next]_vars =>
        \A f \in SegId : files[f].rows # {} /\ files'[f].rows = {} =>
          \/ \A e \in files[f].rows : row[e].ts < now - Retention
          \/ SizeOf(InDir(f[2])) > MaxBytes
  <2>1. SUFFICES ASSUME CleanupBase(p), [Next]_vars, NEW f \in SegId,
                        files[f].rows # {}, files'[f].rows = {}
                 PROVE  \/ \A e \in files[f].rows : row[e].ts < now - Retention
                        \/ SizeOf(InDir(f[2])) > MaxBytes
    BY <2>1
  <2>2. /\ TypeOK /\ LockInv /\ NothingDead /\ Placed /\ LiveFinite
        /\ io[p].stage = "delete" => ScanHolds(p)
    BY <2>1 DEF CleanupBase, FreezeBase, Inductive, Sweeping
  <2>3. CASE DeleteExpired(p) /\ f \in clean[p].doomed
    BY <2>2, <2>3 DEF DeleteExpired, ScanHolds
  <2>4. CASE DeleteOldest(p) /\ \E k \in Victims(p) : f = k.seg
    <3>1. /\ ScanHolds(p) /\ f \in KeptFiles(p) /\ clean[p].doomed = {}
          /\ Total(clean[p].keep) > MaxBytes
      BY <2>2, <2>4 DEF DeleteOldest, Victims, KeptFiles, OverBudget
    <3>2. KeptFiles(p) \subseteq InDir(clean[p].dir)
      BY <3>1 DEF ScanHolds
    <3>3. f[2] = clean[p].dir
      BY <3>1, <3>2 DEF InDir
    <3>4. SizeOf(KeptFiles(p)) > MaxBytes
      BY <2>1, <3>1, TotalIsSize
    <3>5. /\ InDir(clean[p].dir) \subseteq SegId /\ IsFiniteSet(InDir(clean[p].dir))
      BY <2>2, InDirFinite
    <3>6. /\ SizeOf(KeptFiles(p)) \in Nat /\ SizeOf(InDir(clean[p].dir)) \in Nat
          /\ SizeOf(KeptFiles(p)) <= SizeOf(InDir(clean[p].dir))
      BY <2>2, <3>2, <3>5, SizeGrows
    <3>7. SizeOf(InDir(clean[p].dir)) > MaxBytes
      BY <3>4, <3>6, BoundsAssumption
    <3>8. QED
      BY <3>3, <3>7
  <2>5. QED
    BY <2>1, <2>2, <2>3, <2>4, EmptiedByCleanup
<1>2. QED
  BY <1>1, CleanupInvariant, PTL DEF Spec, DeletesExpiredOrOver

=============================================================================
