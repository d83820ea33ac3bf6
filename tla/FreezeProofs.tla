---------------------------- MODULE FreezeProofs ----------------------------
(* What a freeze of the flight recorder returns, for any number of processes *)
(* that record, write, clean up and die while it runs.                       *)
EXTENDS FlightRecorderProofs

-----------------------------------------------------------------------------
(* Sizes.                                                                    *)

(* More files are not smaller. *)
LEMMA TotalGrows ==
  ASSUME NEW T, T \subseteq StatType, IsFiniteSet(T), NEW S, S \subseteq T
  PROVE  Total(S) \in Nat /\ Total(T) \in Nat /\ Total(S) <= Total(T)
<1>1. IsFiniteSet(S)
  BY FS_Subset
<1>2. /\ IsFiniteSet(StatUnits(T)) /\ Total(T) = Cardinality(StatUnits(T)) /\ Total(T) \in Nat
      /\ Total(S) = Cardinality(StatUnits(S)) /\ Total(S) \in Nat
  BY <1>1, TotalFinite
<1>3. StatUnits(S) \subseteq StatUnits(T)
  BY DEF StatUnits
<1>4. Cardinality(StatUnits(S)) <= Cardinality(StatUnits(T))
  BY <1>2, <1>3, FS_Subset
<1>5. QED
  BY <1>2, <1>4

-----------------------------------------------------------------------------
(* A cut to the newest keeps what it cannot replace by newer ones.           *)

LEMMA MaxIsMember ==
  ASSUME NEW L \in Nat, NEW S, S \subseteq 1..L, S # {}
  PROVE  \E m \in S : \A x \in S : x <= m
<1> DEFINE T == {L - x : x \in S}
<1>1. T \subseteq Nat /\ T # {}
  <2>1. \A x \in S : x \in 1..L /\ L - x \in Nat
    OBVIOUS
  <2>2. PICK x : x \in S
    OBVIOUS
  <2>3. QED
    BY <2>1, <2>2
<1>2. PICK t \in T : \A y \in T : t <= y
  <2> HIDE DEF T
  <2>1. QED
    BY <1>1, MinIsMember
<1>3. PICK m \in S : t = L - m
  BY <1>2
<1>4. \A x \in S : L - x \in T
  OBVIOUS
<1>5. \A x \in S : x <= m
  BY <1>2, <1>3, <1>4
<1>6. QED
  BY <1>5

LEMMA NewestFull ==
  ASSUME TypeOK, NEW S, S \subseteq Ids, NEW n \in Nat, NEW e \in Ids,
         Cardinality({x \in S : x > e}) >= n
  PROVE  Cardinality({x \in Newest(S, n) : x > e}) >= n
<1> DEFINE U == {x \in S : x > e}
           V == {x \in Newest(S, n) : x > e}
<1>1. Newest(S, n) \subseteq S /\ V \subseteq U /\ U \subseteq Ids /\ V \subseteq Ids
  BY DEF Newest
<1>2. IsFiniteSet(V) /\ Cardinality(V) \in Nat
  BY <1>1, RowsFinite
<1>3. CASE U = V
  BY <1>3
<1>4. CASE U # V
  <2>1. U \ V # {} /\ U \ V \subseteq Ids
    BY <1>1, <1>4
  <2>2. Len(row) \in Nat
    BY DEF TypeOK
  <2>3. PICK m \in U \ V : \A x \in U \ V : x <= m
    <3> HIDE DEF U, V
    <3>1. QED
      BY <2>1, <2>2, MaxIsMember DEF Ids
  <2>4. m \in S /\ m > e /\ m \notin Newest(S, n)
    BY <2>3
  <2> DEFINE W == {x \in S : x > m}
  <2>5. W \subseteq Ids
    OBVIOUS
  <2>6. Cardinality(W) \in Nat /\ ~(Cardinality(W) < n)
    BY <2>4, <2>5, RowsFinite DEF Newest
  <2>7. W \subseteq V
    <3>1. SUFFICES ASSUME NEW x \in S, x > m PROVE x \in V
      OBVIOUS
    <3>2. x \in Nat /\ m \in Nat /\ e \in Nat
      BY <2>2, <2>4 DEF Ids
    <3>3. x \in U /\ ~(x <= m)
      BY <2>4, <3>1, <3>2
    <3>4. QED
      BY <2>3, <3>3
  <2> HIDE DEF V, W
  <2>8. Cardinality(W) <= Cardinality(V)
    BY <1>2, <2>7, FS_Subset
  <2>9. Cardinality(V) >= n
    BY <1>2, <2>6, <2>8
  <2>10. QED
    BY <2>9 DEF V
<1>5. QED
  BY <1>3, <1>4

(* A row of a set survives the cut, or as many newer ones as fit do. *)
LEMMA NewestOrFull ==
  ASSUME TypeOK, NEW S, S \subseteq Ids, NEW T, T \subseteq S, NEW n \in Nat, NEW e \in Ids,
         e \in T \/ Cardinality({x \in T : x > e}) >= n
  PROVE  e \in Newest(S, n) \/ Cardinality({x \in Newest(S, n) : x > e}) >= n
<1>1. Cardinality({x \in S : x > e}) \in Nat
  BY RowsFinite
<1>2. CASE Cardinality({x \in T : x > e}) >= n
  <2>1. {x \in T : x > e} \subseteq {x \in S : x > e}
    OBVIOUS
  <2>2. IsFiniteSet({x \in S : x > e}) /\ Cardinality({x \in T : x > e}) \in Nat
    BY RowsFinite
  <2>3. Cardinality({x \in T : x > e}) <= Cardinality({x \in S : x > e})
    BY <2>1, <2>2, FS_Subset
  <2>4. Cardinality({x \in S : x > e}) >= n
    BY <1>1, <1>2, <2>2, <2>3
  <2>5. QED
    BY <2>4, NewestFull
<1>3. CASE e \in T /\ e \notin Newest(S, n)
  <2>1. Cardinality({x \in S : x > e}) >= n
    BY <1>1, <1>3 DEF Newest
  <2>2. QED
    BY <2>1, NewestFull
<1>4. QED
  BY <1>2, <1>3

-----------------------------------------------------------------------------
(* What a step does to the files.                                            *)

(* Rows are added, behind what a file holds, and its mtime becomes now.      *)
Grows(f) ==
  /\ files[f].rows \subseteq files'[f].rows /\ files'[f].rows \subseteq Ids
  /\ files[f].size <= files'[f].size /\ files'[f].mtime = now
  /\ \A x \in files[f].rows : files'[f].start[x] = files[f].start[x]
  /\ \A x \in files'[f].rows \ files[f].rows : files'[f].start[x] < files'[f].size

(* At most one file changes: it is created or deleted, or it grows.          *)
FileChange ==
  \E f \in SegId :
    /\ \A g \in SegId \ {f} : files'[g] = files[g]
    /\ (files'[f].rows = {} /\ files[f].rows \subseteq gone') \/ Grows(f)

LEMMA OpenChanges ==
  ASSUME TypeOK, NothingDead, NEW p \in Procs, AppendOpen(p)
  PROVE  files' = files \/ FileChange
<1> DEFINE d == GroupDir(p)
           f == <<p, d, TargetNumber(p, d)>>
           r == [NoFile EXCEPT !.live = TRUE, !.mtime = now, !.nth = stamp]
<1>1. f \in SegId
  BY GroupFacts, TargetFacts DEF AppendOpen, SegId
<1>2. r.rows = {} /\ files \in [SegId -> FileType]
  BY DEF NoFile, TypeOK
<1>3. files' = files \/ (~files[f].live /\ files' = [files EXCEPT ![f] = r])
  BY DEF AppendOpen, diskVars
<1> HIDE DEF f, r
<1>4. ~files[f].live => files[f].rows = {}
  BY <1>1 DEF NothingDead
<1>5. QED
  BY <1>1, <1>2, <1>3, <1>4 DEF FileChange

LEMMA WriteChanges ==
  ASSUME TypeOK, LockInv, Placed, NEW p \in Procs, AppendWrite(p) \/ AppendTorn(p)
  PROVE  files' = files \/ FileChange
<1>1. PICK W \in SUBSET Group(p), torn \in BOOLEAN : WriteRows(p, W, torn)
  BY DEF AppendWrite, AppendTorn
<1> DEFINE f == io[p].seg
           old == files[f]
           fragment == IF torn THEN 1 ELSE 0
           start == [e \in 1..NEvents |->
                        IF e \in W THEN old.size + Cardinality({x \in W : x < e})
                        ELSE old.start[e]]
           size == old.size + Cardinality(W) + fragment
           rows == old.rows \cup Readable(p, W)
           r == [live |-> TRUE, rows |-> rows, start |-> start, size |-> size,
                 mtime |-> now, nth |-> stamp, torn |-> torn]
<1>2. files' = files \/ files' = [files EXCEPT ![f] = r]
  BY <1>1, Zenon DEF WriteRows, diskVars
<1>3. f \in SegId /\ batch[p] # {}
  BY DEF AppendWrite, AppendTorn, LockInv, LockedBy
<1>4. W \subseteq batch[p] /\ W \subseteq Ids /\ Readable(p, W) \subseteq W
  BY <1>3, GroupFacts DEF TypeOK, Readable
<1>5. old.rows \subseteq Ids /\ old.size \in Nat /\ W \cap old.rows = {}
  <2>1. files[f] \in FileType
    BY <1>3 DEF TypeOK
  <2>2. (pending[p] \cup batch[p]) \cap RowsIn[f] = {}
    BY <1>3 DEF Placed
  <2>3. RowsIn[f] = files[f].rows
    BY <1>3 DEF RowsIn
  <2>4. QED
    BY <1>4, <2>1, <2>2, <2>3 DEF FileType
<1>6. IsFiniteSet(W) /\ Cardinality(W) \in Nat
  BY <1>4, RowsFinite
<1>7. fragment \in Nat
  OBVIOUS
<1>8. \A e \in Ids : e \in 1..NEvents
  BY BoundsAssumption DEF TypeOK, Ids
<1> HIDE DEF f, fragment
<1>9. size \in Nat /\ old.size <= size
  BY <1>5, <1>6, <1>7
<1>10. \A x \in old.rows : start[x] = old.start[x]
  BY <1>5, <1>8
<1>11. ASSUME NEW x \in W PROVE start[x] < size
  <2> DEFINE before == {y \in W : y < x}
  <2>1. x \in Nat /\ before \subseteq W /\ x \notin before
    BY <1>4, <1>11, RowsFinite
  <2>2. start[x] = old.size + Cardinality(before)
    BY <1>4, <1>8, <1>11
  <2> HIDE DEF before
  <2>3. Cardinality(before) <= Cardinality(W) /\ Cardinality(before) # Cardinality(W)
    BY <1>6, <1>11, <2>1, FS_Subset
  <2>4. Cardinality(before) \in Nat
    BY <1>4, <2>1, RowsFinite
  <2>5. QED
    BY <1>5, <1>6, <1>7, <2>2, <2>3, <2>4
<1>12. /\ old.rows \subseteq rows /\ rows \subseteq Ids
       /\ \A x \in rows \ old.rows : x \in W
  BY <1>4, <1>5
<1>13. /\ r.rows = rows /\ r.size = size /\ r.start = start /\ r.mtime = now
  OBVIOUS
<1>14. files \in [SegId -> FileType]
  BY DEF TypeOK
<1> HIDE DEF start, size, rows, r
<1>15. ASSUME files' = [files EXCEPT ![f] = r]
       PROVE  FileChange
  <2>1. files'[f] = r /\ \A g \in SegId \ {f} : files'[g] = files[g]
    BY <1>3, <1>14, <1>15
  <2>2. Grows(f)
    BY <1>9, <1>10, <1>11, <1>12, <1>13, <2>1 DEF Grows
  <2>3. QED
    BY <1>3, <2>1, <2>2 DEF FileChange
<1>16. QED
  BY <1>2, <1>15

LEMMA DiskSteps ==
  ASSUME [Next]_vars
  PROVE  \/ files' = files
         \/ \E p \in Procs : \/ AppendOpen(p) \/ AppendWrite(p) \/ AppendTorn(p)
                             \/ DeleteExpired(p) \/ DeleteOldest(p)
<1>1. ASSUME NEW p \in Procs, HookStep(p) \/ CommandStep(p)
      PROVE  files' = files
  BY <1>1, CommandFrame DEF HookStep, Record, RecordAstray, Enter, EnsureFlusher, StartThread,
                            RequestFlush, diskVars
<1>2. QED
  BY <1>1
     DEF Next, WriteStep, FlusherTop, FlusherWake, TakePending, AppendFails, CleanupStart,
         CleanupScan, CleanupDone, WriteEnd, StopCall, StopJoin, Crash, Tick, vars, diskVars

LEMMA FileChanges ==
  ASSUME TypeOK, LockInv, NothingDead, Placed, [Next]_vars
  PROVE  files' = files \/ FileChange
<1>1. ASSUME NEW p \in Procs, DeleteExpired(p) \/ DeleteOldest(p)
      PROVE  files' = files \/ FileChange
  <2>1. PICK f \in SegId, rest \in CleanupType : Remove(p, f, rest)
    BY <1>1, DeleteRemoves
  <2>2. NoFile.rows = {} /\ files \in [SegId -> FileType]
    BY DEF NoFile, TypeOK
  <2>3. CASE Unlink(f)
    <3>1. /\ files'[f].rows = {} /\ \A g \in SegId \ {f} : files'[g] = files[g]
          /\ files[f].rows \subseteq gone'
      BY <2>2, <2>3 DEF Unlink
    <3>2. QED
      BY <3>1 DEF FileChange
  <2>4. QED
    BY <2>1, <2>3 DEF Remove, diskVars
<1>2. QED
  BY <1>1, DiskSteps, OpenChanges, WriteChanges

(* A file's mtime is not earlier than its rows, a row begins within its file,*)
(* and a cleanup's idea of now is not later than now.                        *)
FileInv ==
  /\ \A e \in Ids : row[e].ts <= now
  /\ \A f \in SegId : \A e \in files[f].rows :
       row[e].ts <= files[f].mtime /\ files[f].start[e] < files[f].size
  /\ \A p \in Procs : lastCleanup[p] <= now

LEMMA InitFileInv == Init => FileInv
<1>1. SUFFICES ASSUME Init PROVE FileInv
  OBVIOUS
<1>2. Ids = {}
  BY <1>1 DEF Init, Ids
<1>3. Never <= 0
  BY BoundsAssumption DEF Never
<1>4. QED
  BY <1>1, <1>2, <1>3 DEF Init, FileInv, NoFile

(* Time does not run backwards, and only Tick and new rows move it on.       *)
LEMMA NowGrows ==
  ASSUME TypeOK, [Next]_vars
  PROVE  now \in Nat /\ now' \in Nat /\ now <= now'
<1>1. now \in Nat
  BY DEF TypeOK
<1>2. ASSUME NEW p \in Procs, HookStep(p) \/ CommandStep(p) PROVE now' = now
  BY <1>2, CommandFrame DEF HookStep, Record, RecordAstray, Enter, EnsureFlusher, StartThread,
                            RequestFlush
<1>3. now' = now \/ now' = now + 1
  BY <1>2
     DEF Next, WriteStep, FlusherTop, FlusherWake, TakePending, AppendOpen, AppendFails,
         AppendWrite, AppendTorn, CleanupStart, CleanupScan, DeleteExpired, DeleteOldest,
         CleanupDone, WriteEnd, StopCall, StopJoin, Crash, Tick, vars
<1>4. QED
  BY <1>1, <1>3

LEMMA NextFileInv ==
  ASSUME TypeOK, LockInv, NothingDead, Placed, ReadInv, FileInv, [Next]_vars
  PROVE  FileInv'
<1>0. now \in Nat /\ now' \in Nat /\ now <= now'
  BY NowGrows
<1>1. Ids \subseteq Ids' /\ \A e \in Ids : row'[e] = row[e]
  BY RowsKept
<1>2. \A e \in Ids : row[e].ts \in Nat
  BY RowTyped
<1>m. Move
  BY NextMoves
<1>tt. TypeOK'
  BY NextTypeOK
<1>t. files' \in [SegId -> FileType']
  BY <1>tt DEF TypeOK
<1>3. \A e \in Ids' : row'[e].ts <= now'
  <2>1. ASSUME NEW p \in Procs, NEW profile \in Homes, NEW h \in Homes,
               MoveAccept(p, profile, h)
        PROVE  \A e \in Ids' : row'[e].ts <= now'
    <3> DEFINE r == [profile |-> profile, home |-> h, ts |-> now, proc |-> p]
    <3>2. r \in RowType /\ r.ts = now
      BY <1>0 DEF RowType
    <3>3. row' = Append(row, r) /\ Len(row) < NEvents
      BY <2>1 DEF MoveAccept
    <3> HIDE DEF r
    <3>4. Ids' = Ids \cup {Len(row) + 1} /\ row'[Len(row) + 1] = r
      BY <3>2, <3>3, IdsGrow
    <3>5. QED
      BY <1>0, <1>1, <1>2, <3>2, <3>4 DEF FileInv
  <2>2. CASE row' = row
    <3>1. Ids' = Ids
      BY <2>2, SameIds
    <3>2. QED
      BY <1>0, <1>1, <1>2, <3>1 DEF FileInv
  <2>3. QED
    BY <1>m, <2>1, <2>2 DEF Move, MoveNothing, MoveTake, MoveCommit, MoveDelete, MoveCrash
<1>4. \A f \in SegId : \A e \in files'[f].rows :
        row'[e].ts <= files'[f].mtime /\ files'[f].start[e] < files'[f].size
  <2>1. \A f \in SegId : /\ files[f].rows \subseteq Ids /\ files[f].size \in Nat
                         /\ files[f].start \in [1..NEvents -> Nat]
    BY DEF TypeOK, FileType
  <2>2. \A f \in SegId : \A e \in files[f].rows :
          row'[e].ts <= files[f].mtime /\ files[f].start[e] < files[f].size
    BY <1>1, <2>1 DEF FileInv
  <2>3. \A e \in Ids : row'[e].ts <= now
    BY <1>1 DEF FileInv
  <2>4. CASE files' = files
    BY <2>2, <2>4
  <2>5. ASSUME NEW f \in SegId, Grows(f), NEW e \in files'[f].rows
        PROVE  row'[e].ts <= files'[f].mtime /\ files'[f].start[e] < files'[f].size
    <3>1. e \in Ids /\ files'[f].mtime = now
      BY <2>5 DEF Grows
    <3>2. CASE e \notin files[f].rows
      BY <2>3, <2>5, <3>1, <3>2 DEF Grows
    <3>3. CASE e \in files[f].rows
      <4>1. files'[f].start[e] = files[f].start[e] /\ files[f].size <= files'[f].size
        BY <2>5, <3>3 DEF Grows
      <4>2. e \in 1..NEvents /\ files'[f].size \in Nat
        BY <1>t, <3>1, BoundsAssumption DEF TypeOK, FileType, Ids
      <4>3. files[f].start[e] \in Nat /\ files[f].size \in Nat
        BY <2>1, <4>2
      <4>4. QED
        BY <2>2, <2>3, <3>1, <3>3, <4>1, <4>2, <4>3
    <3>4. QED
      BY <3>2, <3>3
  <2>6. CASE FileChange
    BY <2>2, <2>5, <2>6 DEF FileChange
  <2>7. QED
    BY <2>4, <2>6, FileChanges
<1>5. \A p \in Procs : lastCleanup'[p] <= now'
  <2>0. lastCleanup \in [Procs -> Int]
    BY DEF TypeOK
  <2>1. ASSUME NEW q \in Procs, NEW n \in Int, lastCleanup' = [lastCleanup EXCEPT ![q] = n],
               n <= now
        PROVE  \A p \in Procs : lastCleanup'[p] <= now'
    BY <1>0, <2>0, <2>1 DEF FileInv
  <2>2. ASSUME NEW q \in Procs, CleanupStart(q)
        PROVE  \A p \in Procs : lastCleanup'[p] <= now'
    <3>1. lastCleanup' = [lastCleanup EXCEPT ![q] = now]
      BY <2>2 DEF CleanupStart
    <3>2. \A p \in Procs : lastCleanup'[p] = IF p = q THEN now ELSE lastCleanup[p]
      BY <2>0, <3>1
    <3>3. QED
      BY <1>0, <2>0, <3>2 DEF FileInv
  <2>3. ASSUME NEW q \in Procs, Crash(q)
        PROVE  \A p \in Procs : lastCleanup'[p] <= now'
    <3>1. Never \in Int /\ Never <= now
      BY <1>0, BoundsAssumption DEF Never
    <3>2. QED
      BY <2>1, <2>3, <3>1 DEF Crash
  <2>4. CASE lastCleanup' = lastCleanup
    BY <1>0, <2>0, <2>4 DEF FileInv
  <2>5. ASSUME NEW p \in Procs, HookStep(p) \/ CommandStep(p) PROVE lastCleanup' = lastCleanup
    BY <2>5, CommandFrame DEF HookStep, Record, RecordAstray, Enter, EnsureFlusher, StartThread,
                              RequestFlush, writerVars
  <2>6. QED
    BY <2>2, <2>3, <2>4, <2>5
       DEF Next, WriteStep, FlusherTop, FlusherWake, TakePending, AppendOpen, AppendFails,
           AppendWrite, AppendTorn, CleanupScan, DeleteExpired, DeleteOldest,
           CleanupDone, WriteEnd, StopCall, StopJoin, Tick, vars, writerVars
<1>6. QED
  BY <1>3, <1>4, <1>5 DEF FileInv

-----------------------------------------------------------------------------
(* What a command asked for, from its call to its reading of the directory.  *)

Safe == gone \cup UNION {RowsIn[f] : f \in SegId}

(* While the command waits for a flush, what it asked for is safe or still   *)
(* with its own process; once it is the writer, no longer in _pending; after *)
(* the flush, whoever did it, everything is safe.                            *)
AskedFor(p) ==
  /\ cmd[p].asked \subseteq HomeOf(Ids, cmd[p].home)
  /\ cmd[p].pc = "flush" => cmd[p].asked \subseteq Safe \cup pending[p] \cup batch[p]
  /\ cmd[p].pc = "flush" /\ io[p].owner = "cmd" => cmd[p].asked \cap pending[p] = {}
  /\ cmd[p].pc \in {"snapshot", "read"} => cmd[p].asked \subseteq Safe

AskedInv == \A p \in Procs : AskedFor(p)

(* A row never leaves safety; one in a process's hands stays there or gets   *)
(* safe; and its _pending only gains new rows.                               *)
LEMMA MoveSafe ==
  ASSUME TypeOK, Move
  PROVE  /\ Safe \subseteq Safe'
         /\ \A q \in Procs : pending[q] \cup batch[q] \subseteq
                                 Safe' \cup pending'[q] \cup batch'[q]
         /\ \A q \in Procs : pending'[q] \cap Ids \subseteq pending[q]
<1>0. /\ pending \in [Procs -> SUBSET Ids] /\ batch \in [Procs -> SUBSET Ids]
      /\ RowsIn \in [SegId -> SUBSET Ids] /\ Len(row) \in Nat
  BY RowsTyped DEF TypeOK
<1>s. /\ \A e : e \in Safe <=> (e \in gone \/ \E f \in SegId : e \in RowsIn[f])
      /\ \A e : e \in Safe' <=> (e \in gone' \/ \E f \in SegId : e \in RowsIn'[f])
  BY DEF Safe
<1>1. ASSUME NEW p \in Procs, NEW profile \in Homes, NEW h \in Homes,
             MoveAccept(p, profile, h)
      PROVE  /\ Safe \subseteq Safe'
             /\ \A q \in Procs : pending[q] \cup batch[q] \subseteq
                                     Safe' \cup pending'[q] \cup batch'[q]
             /\ \A q \in Procs : pending'[q] \cap Ids \subseteq pending[q]
  <2>1. Len(row) + 1 \notin Ids
    BY <1>0 DEF Ids
  <2>2. QED
    BY <1>0, <1>1, <2>1 DEF MoveAccept, Safe
<1>2. CASE MoveNothing
  BY <1>2 DEF MoveNothing, Safe
<1>3. ASSUME NEW p \in Procs, MoveTake(p)
      PROVE  /\ Safe \subseteq Safe'
             /\ \A q \in Procs : pending[q] \cup batch[q] \subseteq
                                     Safe' \cup pending'[q] \cup batch'[q]
             /\ \A q \in Procs : pending'[q] \cap Ids \subseteq pending[q]
  BY <1>0, <1>3 DEF MoveTake, Safe
<1>4. ASSUME NEW p \in Procs, NEW f \in SegId, NEW W \in SUBSET Ids, MoveCommit(p, f, W)
      PROVE  /\ Safe \subseteq Safe'
             /\ \A q \in Procs : pending[q] \cup batch[q] \subseteq
                                     Safe' \cup pending'[q] \cup batch'[q]
             /\ \A q \in Procs : pending'[q] \cap Ids \subseteq pending[q]
  <2> DEFINE G == Group(p)
  <2>1. /\ pending' = pending /\ batch' = [batch EXCEPT ![p] = @ \ G]
        /\ gone' = gone \cup (G \ W) /\ RowsIn' = [RowsIn EXCEPT ![f] = @ \cup W]
    BY <1>4 DEF MoveCommit
  <2> HIDE DEF G
  <2>2. /\ W \subseteq RowsIn'[f]
        /\ \A g \in SegId : RowsIn[g] \subseteq RowsIn'[g]
    BY <1>0, <2>1
  <2>3. Safe \subseteq Safe' /\ G \subseteq Safe'
    BY <1>s, <2>1, <2>2
  <2>4. QED
    BY <1>0, <2>1, <2>3
<1>5. ASSUME NEW f \in SegId, MoveDelete(f)
      PROVE  /\ Safe \subseteq Safe'
             /\ \A q \in Procs : pending[q] \cup batch[q] \subseteq
                                     Safe' \cup pending'[q] \cup batch'[q]
             /\ \A q \in Procs : pending'[q] \cap Ids \subseteq pending[q]
  <2>1. \A g \in SegId : RowsIn[g] \subseteq RowsIn'[g] \cup gone'
    BY <1>0, <1>5 DEF MoveDelete
  <2>2. QED
    BY <1>5, <1>s, <2>1 DEF MoveDelete
<1>6. ASSUME NEW p \in Procs, MoveCrash(p)
      PROVE  /\ Safe \subseteq Safe'
             /\ \A q \in Procs : pending[q] \cup batch[q] \subseteq
                                     Safe' \cup pending'[q] \cup batch'[q]
             /\ \A q \in Procs : pending'[q] \cap Ids \subseteq pending[q]
  BY <1>0, <1>6, <1>s DEF MoveCrash
<1>7. QED
  BY <1>1, <1>2, <1>3, <1>4, <1>5, <1>6 DEF Move

LEMMA InitAskedInv == Init => AskedInv
  BY DEF Init, AskedInv, AskedFor, NoCommand

(* A command that goes on as it was, without becoming the writer.            *)
LEMMA AskedStays ==
  ASSUME TypeOK, Move, \A e \in Ids : e \in Ids' /\ row'[e] = row[e],
         NEW q \in Procs, AskedFor(q), cmd'[q] = cmd[q],
         io'[q].owner = "cmd" => io[q].owner = "cmd"
  PROVE  AskedFor(q)'
<1>1. /\ Safe \subseteq Safe'
      /\ pending[q] \cup batch[q] \subseteq Safe' \cup pending'[q] \cup batch'[q]
      /\ pending'[q] \cap Ids \subseteq pending[q]
  BY MoveSafe
<1>2. cmd[q].asked \subseteq Ids
  BY DEF AskedFor, HomeOf
<1>3. cmd[q].asked \subseteq HomeOf(Ids, cmd[q].home)'
  BY DEF AskedFor, HomeOf
<1>4. QED
  BY <1>1, <1>2, <1>3 DEF AskedFor

LEMMA NextAskedInv ==
  ASSUME TypeOK, LockInv, NothingDead, Placed, ReadInv, AskedInv, [Next]_vars
  PROVE  AskedInv'
<1>1. Move
  BY NextMoves
<1>2. \A e \in Ids : e \in Ids' /\ row'[e] = row[e]
  BY RowsKept
<1>3. /\ cmd \in [Procs -> CommandType] /\ io \in [Procs -> LockType]
      /\ pending \in [Procs -> SUBSET Ids]
  BY DEF TypeOK
<1>4. ASSUME NEW q \in Procs, cmd'[q] = cmd[q], io'[q].owner = "cmd" => io[q].owner = "cmd"
      PROVE  AskedFor(q)'
  BY <1>1, <1>2, <1>4, AskedStays DEF AskedInv
<1>5. /\ Safe \subseteq Safe'
      /\ \A q \in Procs : pending[q] \cup batch[q] \subseteq
                              Safe' \cup pending'[q] \cup batch'[q]
  BY <1>1, MoveSafe
<1>6. ASSUME NEW p \in Procs, NEW o \in Owners, TakePending(p, o)
      PROVE  AskedInv'
  <2>1. /\ cmd' = cmd
        /\ io'[p].owner = o /\ \A q \in Procs \ {p} : io'[q] = io[q]
        /\ pending'[p] = {}
    BY <1>3, <1>6 DEF TakePending, Unlocked, Left
  <2>2. \A q \in Procs : q # p \/ o # "cmd" => AskedFor(q)'
    BY <1>4, <2>1
  <2>3. ASSUME o = "cmd" PROVE AskedFor(p)'
    <3>1. cmd[p].pc = "flush"
      BY <1>6, <2>3 DEF TakePending, Wants
    <3>2. \A e \in cmd[p].asked : e \in Ids' /\ row'[e].home = cmd[p].home
      BY <1>2 DEF AskedInv, AskedFor, HomeOf
    <3>3. cmd[p].asked \subseteq Safe' \cup pending'[p] \cup batch'[p]
      BY <1>5, <3>1 DEF AskedInv, AskedFor
    <3>4. QED
      BY <2>1, <3>1, <3>2, <3>3 DEF AskedFor, HomeOf
  <2>4. QED
    BY <2>2, <2>3 DEF AskedInv
<1>7. ASSUME NEW p \in Procs,
             \/ AppendOpen(p) \/ AppendFails(p) \/ AppendWrite(p) \/ AppendTorn(p)
             \/ CleanupStart(p) \/ CleanupScan(p) \/ CleanupDone(p)
             \/ DeleteExpired(p) \/ DeleteOldest(p)
      PROVE  AskedInv'
  <2>1. cmd' = cmd
    BY <1>7 DEF AppendOpen, AppendFails, AppendWrite, AppendTorn, CleanupStart, CleanupScan,
                CleanupDone, DeleteExpired, DeleteOldest
  <2>2. \A q \in Procs : io'[q].owner = io[q].owner
    BY <1>7, OwnerKept
  <2>3. QED
    BY <1>4, <2>1, <2>2 DEF AskedInv
<1>8. ASSUME NEW p \in Procs, NEW c, cmd' = [cmd EXCEPT ![p] = c],
             \A e \in c.asked : e \in Ids' /\ row'[e].home = c.home, c.pc # "flush",
             c.pc \in {"snapshot", "read"} => c.asked \subseteq Safe',
             \A q \in Procs \ {p} : io'[q] = io[q]
      PROVE  AskedInv'
  <2>1. cmd'[p] = c /\ \A q \in Procs \ {p} : cmd'[q] = cmd[q]
    BY <1>3, <1>8
  <2>2. AskedFor(p)'
    BY <1>8, <2>1 DEF AskedFor, HomeOf
  <2>3. QED
    BY <1>4, <1>8, <2>1, <2>2 DEF AskedInv
<1>9. ASSUME NEW p \in Procs, WriteEnd(p)
      PROVE  AskedInv'
  <2>1. io'[p].owner = "free" /\ \A q \in Procs \ {p} : io'[q] = io[q]
    BY <1>3, <1>9 DEF WriteEnd, Unlocked
  <2>2. CASE io[p].owner # "cmd"
    <3>1. cmd' = cmd
      BY <1>9, <2>2 DEF WriteEnd
    <3>2. QED
      BY <1>4, <2>1, <3>1 DEF AskedInv
  <2>3. CASE io[p].owner = "cmd"
    <3> DEFINE c == [cmd[p] EXCEPT !.pc = "snapshot"]
    <3>1. cmd' = [cmd EXCEPT ![p] = c]
      BY <1>9, <2>3 DEF WriteEnd
    <3>2. c.asked = cmd[p].asked /\ c.home = cmd[p].home /\ c.pc = "snapshot"
      BY <1>3 DEF CommandType
    <3>3. cmd[p].pc = "flush" /\ batch[p] = {}
      BY <1>9, <2>3 DEF WriteEnd, LockInv, LockedBy
    <3>4. cmd[p].asked \subseteq Safe
      BY <2>3, <3>3 DEF AskedInv, AskedFor
    <3>5. \A e \in cmd[p].asked : e \in Ids' /\ row'[e].home = cmd[p].home
      BY <1>2 DEF AskedInv, AskedFor, HomeOf
    <3> HIDE DEF c
    <3>6. QED
      BY <1>5, <1>8, <2>1, <3>1, <3>2, <3>4, <3>5
  <2>4. QED
    BY <2>2, <2>3
<1>10. ASSUME NEW p \in Procs, NEW h \in Profiles, FreezeCall(p, h)
      PROVE  AskedInv'
  <2> DEFINE S == HomeOf(Ids, h) \cap ({e \in Ids : row[e].proc = p} \cup OnDisk)
             c == [NoCommand EXCEPT !.pc = "flush", !.home = h, !.asked = S]
  <2>1. cmd' = [cmd EXCEPT ![p] = c] /\ io' = io /\ cmd[p].pc = "idle"
    BY <1>10 DEF FreezeCall, writerVars
  <2>2. c.asked = S /\ c.home = h /\ c.pc = "flush"
    BY DEF NoCommand
  <2>3. io'[p].owner # "cmd"
    BY <2>1 DEF LockInv, LockedBy
  <2>4. \A e \in S : e \in Ids' /\ row'[e].home = h
    BY <1>2 DEF HomeOf
  <2>5. S \subseteq Safe \cup pending[p] \cup batch[p]
    <3>1. SUFFICES ASSUME NEW e \in S PROVE e \in Safe \cup pending[p] \cup batch[p]
      OBVIOUS
    <3>2. e \in Ids /\ (row[e].proc = p \/ e \in OnDisk)
      BY DEF HomeOf
    <3>3. OnDisk \subseteq Safe
      BY DEF OnDisk, Safe, RowsIn
    <3>4. Somewhere(e)
      BY <3>2 DEF Placed
    <3>5. \A q \in Procs : e \in pending[q] \cup batch[q] => row[e].proc = q
      BY DEF Placed
    <3> HIDE DEF S
    <3>6. QED
      BY <3>2, <3>3, <3>4, <3>5 DEF Somewhere, Safe
  <2>6. cmd'[p] = c /\ \A q \in Procs \ {p} : cmd'[q] = cmd[q]
    BY <1>3, <2>1
  <2> HIDE DEF S, c
  <2>7. AskedFor(p)'
    BY <1>5, <2>2, <2>3, <2>4, <2>5, <2>6 DEF AskedFor, HomeOf
  <2>8. QED
    BY <1>4, <2>1, <2>6, <2>7 DEF AskedInv
<1>11. ASSUME NEW p \in Procs, FreezeMemory(p) \/ Reading(p)
      PROVE  AskedInv'
  <2>1. \A e \in cmd[p].asked : e \in Ids' /\ row'[e].home = cmd[p].home
    BY <1>2 DEF AskedInv, AskedFor, HomeOf
  <2>2. CASE FreezeMemory(p)
    <3> DEFINE c == [cmd[p] EXCEPT !.pc = "read", !.at = now, !.mem = MemoryOf(p)]
    <3>1. cmd' = [cmd EXCEPT ![p] = c] /\ io' = io /\ cmd[p].pc = "snapshot"
      BY <2>2 DEF FreezeMemory, Flushed, writerVars
    <3>2. c.asked = cmd[p].asked /\ c.home = cmd[p].home /\ c.pc = "read"
      BY <1>3 DEF CommandType
    <3>3. cmd[p].asked \subseteq Safe
      BY <3>1 DEF AskedInv, AskedFor
    <3> HIDE DEF c
    <3>4. QED
      BY <1>5, <1>8, <2>1, <3>1, <3>2, <3>3
  <2>3. CASE Reading(p)
    <3>1. PICK c : /\ cmd' = [cmd EXCEPT ![p] = c] /\ c.asked = cmd[p].asked
                   /\ c.home = cmd[p].home /\ c.pc \in {"scan", "tail", "done"}
      BY <2>3, ReadingFacts
    <3>2. io' = io
      BY <2>3, ReadingFrame DEF writerVars
    <3>3. QED
      BY <1>8, <2>1, <3>1, <3>2
  <2>4. QED
    BY <1>11, <2>2, <2>3
<1>12. ASSUME NEW p \in Procs, FreezeReturn(p) \/ Crash(p)
      PROVE  AskedInv'
  <2>1. cmd' = [cmd EXCEPT ![p] = NoCommand] /\ \A q \in Procs \ {p} : io'[q] = io[q]
    BY <1>3, <1>12 DEF FreezeReturn, Crash, writerVars
  <2>2. NoCommand.asked = {} /\ NoCommand.pc = "idle"
    BY DEF NoCommand
  <2>3. QED
    BY <1>8, <2>1, <2>2
<1>13. CASE cmd' = cmd /\ io' = io
  BY <1>4, <1>13 DEF AskedInv
<1>14. ASSUME NEW p \in Procs, HookStep(p) PROVE AskedInv'
  BY <1>13, <1>14 DEF HookStep, Record, RecordAstray, Enter, EnsureFlusher, StartThread,
                      RequestFlush, writerVars
<1>15. QED
  BY <1>6, <1>7, <1>9, <1>10, <1>11, <1>12, <1>13, <1>14
     DEF Next, WriteStep, CommandStep, Reading, FlusherTop, FlusherWake, StopCall, StopJoin,
         Tick, vars, writerVars

-----------------------------------------------------------------------------
(* The reading of the directory, file after file, while the files change.    *)

(* What lies behind file k: what is read of newer files.                     *)
Behind(c, k) == Total({r \in c.read : r.nth >= k.nth /\ r.seg # k.seg})

(* The share of the file being read is all that was listed of it, or uses up *)
(* the budget.                                                               *)
BeingRead(c, k) ==
  /\ c.pc = "tail" /\ k.seg = c.seg
  /\ \E r \in c.read : r.seg = c.seg /\ (r.size >= k.size \/ Behind(c, k) + r.size >= MaxBytes)

(* Row e has been read, or will not be for a reason the freeze accepts.      *)
Excused(p, e) ==
  \/ e \in cmd[p].disk
  \/ row[e].ts < cmd[p].at - Retention
  \/ \E f \in cmd[p].failed : e \in files[f].rows
  \/ \E k \in cmd[p].listed : CutOff(cmd[p], e, k)

(* Row e is in a file whose turn is still to come, or has come.              *)
Ahead(p, e) ==
  \E k \in cmd[p].listed :
    /\ e \in files[k.seg].rows /\ k.size <= files[k.seg].size
    /\ k \in Unread(cmd[p]) \/ BeingRead(cmd[p], k)

(* Files are read newest first, and no row asked for is lost sight of.       *)
Tracked(p) ==
  /\ cmd[p].pc \in {"flush", "snapshot", "read"} => cmd[p].read = {}
  /\ cmd[p].pc \in {"scan", "tail"} =>
       /\ \A k \in Unread(cmd[p]), r \in cmd[p].read : r.nth >= k.nth
       /\ \A e \in cmd[p].asked : e \in gone \/ Excused(p, e) \/ Ahead(p, e)

TrackInv == \A p \in Procs : Tracked(p)

(* Row e stays where it is in file f, which does not shrink.                 *)
Kept(f, e) ==
  /\ e \in files'[f].rows /\ files[f].size <= files'[f].size
  /\ files'[f].start[e] = files[f].start[e]

LEMMA GoneStays ==
  ASSUME Move
  PROVE  gone \subseteq gone'
  BY DEF Move, MoveAccept, MoveNothing, MoveTake, MoveCommit, MoveDelete, MoveCrash

LEMMA RowStays ==
  ASSUME TypeOK, LockInv, NothingDead, Placed, [Next]_vars,
         NEW f \in SegId, NEW e \in files[f].rows
  PROVE  e \in gone' \/ Kept(f, e)
<1>1. files[f].size \in Nat
  BY DEF TypeOK, FileType
<1>2. CASE files' = files
  BY <1>1, <1>2 DEF Kept
<1>3. CASE FileChange
  <2>1. PICK g \in SegId :
          /\ \A x \in SegId \ {g} : files'[x] = files[x]
          /\ (files'[g].rows = {} /\ files[g].rows \subseteq gone') \/ Grows(g)
    BY <1>3 DEF FileChange
  <2>2. CASE f # g
    BY <1>1, <2>1, <2>2 DEF Kept
  <2>3. CASE f = g
    BY <2>1, <2>3 DEF Grows, Kept
  <2>4. QED
    BY <2>2, <2>3
<1>4. QED
  BY <1>2, <1>3, FileChanges

(* What is cut off stays cut off.                                            *)
LEMMA CutOffTyped ==
  ASSUME TypeOK, NEW c, c \in CommandType, IsFiniteSet(c.read), NEW k, k \in StatType,
         NEW e \in Ids
  PROVE  /\ Behind(c, k) \in Nat /\ k.size \in Nat /\ MaxBytes \in Nat /\ k.seg \in SegId
         /\ files[k.seg].size \in Nat /\ files[k.seg].start[e] \in Nat
         /\ CutOff(c, e, k) <=>
              /\ e \in files[k.seg].rows
              /\ \/ /\ files[k.seg].size > k.size
                    /\ files[k.seg].start[e] <= files[k.seg].size - k.size
                 \/ /\ Behind(c, k) + files[k.seg].size > MaxBytes
                    /\ files[k.seg].start[e] <= Behind(c, k) + files[k.seg].size - MaxBytes
<1>1. c.read \subseteq StatType
  BY DEF CommandType
<1>2. Behind(c, k) \in Nat
  <2> DEFINE S == {r \in c.read : r.nth >= k.nth /\ r.seg # k.seg}
  <2>1. S \subseteq c.read
    OBVIOUS
  <2> HIDE DEF S
  <2>2. Total(S) \in Nat
    BY <1>1, <2>1, TotalGrows
  <2>3. QED
    BY <2>2 DEF Behind, S
<1>3. k.seg \in SegId /\ k.size \in Nat /\ MaxBytes \in Nat
  BY BoundsAssumption DEF StatType
<1>4. files[k.seg] \in FileType
  BY <1>3 DEF TypeOK
<1>5. e \in 1..NEvents
  BY BoundsAssumption DEF TypeOK, Ids
<1>6. files[k.seg].size \in Nat /\ files[k.seg].start[e] \in Nat
  BY <1>4, <1>5 DEF FileType
<1>7. QED
  BY <1>2, <1>3, <1>6 DEF CutOff, Behind

LEMMA BehindGrows ==
  ASSUME NEW k, NEW T, T \subseteq StatType, IsFiniteSet(T), NEW S, S \subseteq T
  PROVE  /\ Total({r \in S : r.nth >= k.nth /\ r.seg # k.seg}) \in Nat
         /\ Total({r \in T : r.nth >= k.nth /\ r.seg # k.seg}) \in Nat
         /\ Total({r \in S : r.nth >= k.nth /\ r.seg # k.seg})
              <= Total({r \in T : r.nth >= k.nth /\ r.seg # k.seg})
<1> DEFINE A == {r \in S : r.nth >= k.nth /\ r.seg # k.seg}
           B == {r \in T : r.nth >= k.nth /\ r.seg # k.seg}
<1>1. A \subseteq B /\ B \subseteq T
  OBVIOUS
<1> HIDE DEF A, B
<1>2. IsFiniteSet(B) /\ B \subseteq StatType
  BY <1>1, FS_Subset
<1>3. Total(A) \in Nat /\ Total(B) \in Nat /\ Total(A) <= Total(B)
  BY <1>1, <1>2, TotalGrows
<1>4. QED
  BY <1>3 DEF A, B

(* The command has read no less than before, for the same question.          *)
GoesOn(p) ==
  /\ cmd'[p].asked = cmd[p].asked /\ cmd'[p].at = cmd[p].at
  /\ cmd'[p].listed = cmd[p].listed
  /\ cmd[p].read \subseteq cmd'[p].read /\ IsFiniteSet(cmd'[p].read)
  /\ cmd[p].disk \subseteq cmd'[p].disk /\ cmd[p].failed \subseteq cmd'[p].failed

LEMMA CutOffStays ==
  ASSUME TypeOK, TypeOK', ReadInv, NEW p \in Procs, GoesOn(p), NEW e \in Ids, e \in Ids',
         NEW k \in cmd[p].listed, CutOff(cmd[p], e, k), Kept(k.seg, e)
  PROVE  CutOff(cmd[p], e, k)'
<1>1. /\ cmd[p] \in CommandType /\ IsFiniteSet(cmd[p].read)
      /\ cmd'[p].read \subseteq StatType /\ IsFiniteSet(cmd'[p].read)
      /\ cmd[p].read \subseteq cmd'[p].read
  BY DEF TypeOK, ReadInv, GoesOn, CommandType, StatType, SegId
<1>2. k \in StatType
  BY <1>1 DEF CommandType
<1> DEFINE old == Total({r \in cmd[p].read : r.nth >= k.nth /\ r.seg # k.seg})
           new == Total({r \in cmd'[p].read : r.nth >= k.nth /\ r.seg # k.seg})
           size == files[k.seg].size
           size2 == files'[k.seg].size
           start == files[k.seg].start[e]
<1>3. old \in Nat /\ new \in Nat /\ old <= new
  BY <1>1, BehindGrows
<1>4. k.size \in Nat /\ MaxBytes \in Nat /\ k.seg \in SegId /\ size \in Nat /\ start \in Nat
  BY <1>1, <1>2, CutOffTyped
<1>5. size2 \in Nat
  BY <1>4 DEF TypeOK, FileType
<1>6. \/ size > k.size /\ start <= size - k.size
      \/ old + size > MaxBytes /\ start <= old + size - MaxBytes
  BY DEF CutOff
<1>7. e \in files'[k.seg].rows /\ size <= size2 /\ files'[k.seg].start[e] = start
  BY DEF Kept
<1>8. Total({r \in cmd[p].read : r.nth >= k.nth /\ r.seg # k.seg})' = new
  BY DEF Total
<1> HIDE DEF old, new, size, size2, start
<1>9. \/ size2 > k.size /\ start <= size2 - k.size
      \/ new + size2 > MaxBytes /\ start <= new + size2 - MaxBytes
  BY <1>3, <1>4, <1>5, <1>6, <1>7
<1>10. QED
  BY <1>7, <1>8, <1>9 DEF CutOff, size2

LEMMA ExcusedStays ==
  ASSUME TypeOK, TypeOK', ReadInv, NEW p \in Procs, GoesOn(p), NEW e \in Ids,
         e \in Ids', row'[e] = row[e], Excused(p, e),
         \A f \in SegId : e \in files[f].rows => Kept(f, e)
  PROVE  Excused(p, e)'
<1>1. /\ cmd[p].failed \subseteq SegId /\ cmd[p].listed \subseteq StatType
      /\ \A k \in cmd[p].listed : k.seg \in SegId
  BY DEF TypeOK, CommandType, StatType
<1>2. CASE e \in cmd[p].disk
  BY <1>2 DEF Excused, GoesOn
<1>3. CASE row[e].ts < cmd[p].at - Retention
  BY <1>3 DEF Excused, GoesOn
<1>4. CASE \E f \in cmd[p].failed : e \in files[f].rows
  BY <1>1, <1>4 DEF Excused, GoesOn, Kept
<1>5. CASE \E k \in cmd[p].listed : CutOff(cmd[p], e, k)
  <2>1. PICK k \in cmd[p].listed : CutOff(cmd[p], e, k)
    BY <1>5
  <2>2. Kept(k.seg, e)
    BY <1>1, <2>1 DEF CutOff
  <2>3. CutOff(cmd[p], e, k)' /\ k \in cmd'[p].listed
    BY <2>1, <2>2, CutOffStays DEF GoesOn
  <2>4. QED
    BY <2>3 DEF Excused
<1>6. QED
  BY <1>2, <1>3, <1>4, <1>5 DEF Excused

(* A command that goes on as it was, whatever happens to the files.          *)
LEMMA TrackedStays ==
  ASSUME TypeOK, LockInv, NothingDead, Placed, ReadInv, [Next]_vars,
         NEW p \in Procs, Tracked(p), cmd'[p] = cmd[p]
  PROVE  Tracked(p)'
<1>1. TypeOK' /\ Move /\ \A e \in Ids : e \in Ids' /\ row'[e] = row[e]
  BY NextTypeOK, NextMoves, RowsKept
<1>2. GoesOn(p) /\ cmd[p] \in CommandType
  BY DEF GoesOn, ReadInv, TypeOK
<1>3. cmd[p].asked \subseteq Ids /\ \A k \in cmd[p].listed : k.seg \in SegId /\ k.size \in Nat
  BY <1>2 DEF CommandType, StatType
<1>4. Unread(cmd[p])' = Unread(cmd[p])
  BY DEF Unread
<1>5. ASSUME NEW e \in cmd[p].asked, e \in gone \/ Excused(p, e) \/ Ahead(p, e)
      PROVE  (e \in gone \/ Excused(p, e) \/ Ahead(p, e))'
  <2>1. e \in Ids /\ e \in Ids' /\ row'[e] = row[e]
    BY <1>1, <1>3
  <2>2. CASE e \in gone'
    BY <2>2
  <2>3. CASE e \notin gone'
    <3>1. e \notin gone
      BY <1>1, <2>3, GoneStays
    <3>2. \A f \in SegId : e \in files[f].rows => Kept(f, e)
      BY <2>3, RowStays
    <3>3. CASE Excused(p, e)
      BY <1>1, <1>2, <2>1, <3>2, <3>3, ExcusedStays
    <3>4. CASE Ahead(p, e)
      <4>1. PICK k \in cmd[p].listed :
              /\ e \in files[k.seg].rows /\ k.size <= files[k.seg].size
              /\ k \in Unread(cmd[p]) \/ BeingRead(cmd[p], k)
        BY <3>4 DEF Ahead
      <4>2. Kept(k.seg, e) /\ files[k.seg].size \in Nat /\ files'[k.seg].size \in Nat
        BY <1>1, <1>3, <3>2, <4>1 DEF TypeOK, FileType
      <4>3. e \in files'[k.seg].rows /\ k.size <= files'[k.seg].size
        BY <1>3, <4>1, <4>2 DEF Kept
      <4>4. BeingRead(cmd[p], k)' <=> BeingRead(cmd[p], k)
        BY DEF BeingRead, Behind, Total
      <4>5. QED
        BY <1>4, <4>1, <4>3, <4>4 DEF Ahead
    <3>5. QED
      BY <1>5, <3>1, <3>3, <3>4
  <2>4. QED
    BY <2>2, <2>3
<1>6. QED
  BY <1>4, <1>5 DEF Tracked

(* A reader leaves everything but its command as it is.                      *)
LEMMA ReaderFrame ==
  ASSUME TypeOK, ReadInv, NEW p \in Procs, Reading(p)
  PROVE  /\ files' = files /\ row' = row /\ gone' = gone /\ Ids' = Ids
         /\ cmd[p] \in CommandType /\ IsFiniteSet(cmd[p].read)
         /\ cmd \in [Procs -> CommandType]
         /\ \A k \in cmd[p].listed \cup cmd[p].read :
              k.seg \in SegId /\ k.size \in Nat /\ k.nth \in Nat
         /\ \A f \in SegId : \A e : e \in files[f].rows => Kept(f, e) /\ e \in Ids
<1>1. files' = files /\ row' = row /\ gone' = gone
  BY ReadingFrame DEF diskVars
<1>2. Ids' = Ids
  BY <1>1, SameIds
<1>3. cmd \in [Procs -> CommandType] /\ cmd[p] \in CommandType /\ IsFiniteSet(cmd[p].read)
  BY DEF TypeOK, ReadInv
<1>4. \A f \in SegId : files[f].rows \subseteq Ids /\ files[f].size \in Nat
  BY DEF TypeOK, FileType
<1>5. QED
  BY <1>1, <1>2, <1>3, <1>4 DEF CommandType, StatType, Kept

LEMMA ListTracked ==
  ASSUME TypeOK, NothingDead, Placed, ReadInv, NEW p \in Procs, Tracked(p), AskedFor(p),
         FreezeList(p)
  PROVE  Tracked(p)'
<1>1. /\ files' = files /\ gone' = gone /\ cmd[p] \in CommandType
      /\ cmd \in [Procs -> CommandType]
  BY ReaderFrame DEF Reading
<1>2. PICK missed \in SUBSET InDir(cmd[p].home) :
        cmd' = [cmd EXCEPT ![p] = [cmd[p] EXCEPT !.pc = "scan", !.failed = missed,
                                     !.listed = Stats(InDir(cmd[p].home) \ missed)]]
  BY DEF FreezeList
<1> DEFINE listed == Stats(InDir(cmd[p].home) \ missed)
<1>3. /\ cmd'[p].pc = "scan" /\ cmd'[p].failed = missed /\ cmd'[p].listed = listed
      /\ cmd'[p].asked = cmd[p].asked /\ cmd'[p].read = cmd[p].read
  BY <1>1, <1>2 DEF CommandType
<1>4. cmd[p].pc = "read" /\ cmd[p].read = {}
  BY DEF FreezeList, Tracked
<1>5. ASSUME NEW e \in cmd[p].asked, e \notin gone
      PROVE  Excused(p, e)' \/ Ahead(p, e)'
  <2>1. e \in Safe /\ e \in Ids /\ row[e].home = cmd[p].home
    BY <1>4 DEF AskedFor, HomeOf
  <2>2. PICK f \in SegId : e \in RowsIn[f]
    BY <1>5, <2>1 DEF Safe
  <2>3. e \in files[f].rows /\ files[f].live /\ f[2] = cmd[p].home
    BY <2>1, <2>2 DEF NothingDead, Placed, RowsIn
  <2>4. CASE f \in missed
    BY <1>1, <1>3, <2>3, <2>4 DEF Excused
  <2>5. CASE f \notin missed
    <3> DEFINE k == [seg |-> f, size |-> files[f].size, nth |-> files[f].nth]
    <3>1. f \in InDir(cmd[p].home) \ missed
      BY <2>3, <2>5 DEF InDir
    <3>2. k \in listed /\ k.seg = f /\ k.size = files[f].size
      BY <3>1 DEF Stats
    <3>3. files[f].size \in Nat
      BY DEF TypeOK, FileType
    <3> HIDE DEF k, listed
    <3>4. k \in Unread(cmd[p])'
      BY <1>3, <1>4, <3>2 DEF Unread
    <3>5. QED
      BY <1>1, <1>3, <2>3, <3>2, <3>3, <3>4 DEF Ahead
  <2>6. QED
    BY <2>4, <2>5
<1> HIDE DEF listed
<1>6. QED
  BY <1>1, <1>3, <1>4, <1>5 DEF Tracked

(* A file's turn is over without a reading: k's, with share n of the budget. *)
LEMMA TurnTracked ==
  ASSUME TypeOK, TypeOK', ReadInv, NEW p \in Procs, Tracked(p), Reading(p),
         NEW k \in cmd[p].listed, NextFile(cmd[p], k), NEW n \in Nat,
         cmd'[p].read = cmd[p].read \cup {[k EXCEPT !.size = n]},
         cmd'[p].pc \in {"scan", "tail"}, GoesOn(p),
         \A e \in cmd[p].asked, i \in Unread(cmd[p]) :
            e \in files[k.seg].rows /\ i.seg = k.seg /\ i.size <= files[k.seg].size
              => Excused(p, e)' \/ BeingRead(cmd'[p], i)
  PROVE  Tracked(p)'
<1>1. /\ files' = files /\ row' = row /\ gone' = gone /\ Ids' = Ids
      /\ cmd[p] \in CommandType
      /\ \A i \in cmd[p].listed \cup cmd[p].read : i.nth \in Nat
      /\ \A f \in SegId : \A e : e \in files[f].rows => Kept(f, e)
  BY ReaderFrame
<1> DEFINE r == [k EXCEPT !.size = n]
<1>2. r.seg = k.seg /\ r.nth = k.nth /\ cmd'[p].read = cmd[p].read \cup {r}
  BY <1>1 DEF CommandType, StatType
<1> HIDE DEF r
<1>3. cmd'[p].listed = cmd[p].listed /\ cmd'[p].asked = cmd[p].asked
  BY DEF GoesOn
<1>4. Unread(cmd[p])' = {i \in Unread(cmd[p]) : i.seg # k.seg}
  BY <1>2, <1>3 DEF Unread
<1>5. cmd[p].pc = "scan"
  BY DEF NextFile
<1>6. \A i \in Unread(cmd[p])', x \in cmd'[p].read : x.nth >= i.nth
  <2>1. \A i \in Unread(cmd[p]) : k.nth >= i.nth
    BY <1>1 DEF NextFile, Newer, Unread
  <2>2. QED
    BY <1>2, <1>4, <1>5, <2>1 DEF Tracked
<1>7. ASSUME NEW e \in cmd[p].asked, e \notin gone
      PROVE  Excused(p, e)' \/ Ahead(p, e)'
  <2>1. Excused(p, e) \/ Ahead(p, e)
    BY <1>5, <1>7 DEF Tracked
  <2>2. e \in Ids
    BY <1>1 DEF CommandType
  <2>3. CASE Excused(p, e)
    BY <1>1, <2>2, <2>3, ExcusedStays
  <2>4. CASE Ahead(p, e)
    <3>1. PICK i \in cmd[p].listed :
            /\ e \in files[i.seg].rows /\ i.size <= files[i.seg].size
            /\ i \in Unread(cmd[p]) \/ BeingRead(cmd[p], i)
      BY <2>4 DEF Ahead
    <3>2. i \in Unread(cmd[p])
      BY <1>5, <3>1 DEF BeingRead
    <3>3. CASE i.seg # k.seg
      <4>1. i \in Unread(cmd[p])'
        BY <1>4, <3>2, <3>3
      <4>2. QED
        BY <1>1, <1>3, <3>1, <4>1 DEF Ahead
    <3>4. CASE i.seg = k.seg
      <4>1. Excused(p, e)' \/ BeingRead(cmd'[p], i)
        BY <3>1, <3>2, <3>4
      <4>2. BeingRead(cmd[p], i)' <=> BeingRead(cmd'[p], i)
        BY DEF BeingRead, Behind, Total
      <4>3. QED
        BY <1>1, <1>3, <3>1, <4>1, <4>2 DEF Ahead
    <3>5. QED
      BY <3>3, <3>4
  <2>5. QED
    BY <2>1, <2>3, <2>4
<1>8. QED
  BY <1>1, <1>3, <1>6, <1>7 DEF Tracked

LEMMA StatTracked ==
  ASSUME TypeOK, TypeOK', ReadInv, ReadInv', FileInv, NothingDead, NEW p \in Procs,
         Tracked(p), FreezeStat(p)
  PROVE  Tracked(p)'
<1>1. /\ files' = files /\ row' = row /\ gone' = gone /\ Ids' = Ids
      /\ cmd[p] \in CommandType /\ cmd \in [Procs -> CommandType] /\ IsFiniteSet(cmd[p].read)
      /\ \A i \in cmd[p].listed \cup cmd[p].read :
           i.seg \in SegId /\ i.size \in Nat /\ i.nth \in Nat
      /\ \A f \in SegId : \A e : e \in files[f].rows => e \in Ids
      /\ Reading(p)
  BY ReaderFrame DEF Reading
<1>2. PICK k \in cmd[p].listed :
        /\ NextFile(cmd[p], k)
        /\ cmd' = [cmd EXCEPT ![p] =
            [cmd[p] EXCEPT !.pc = IF Allowed(cmd[p], k.seg) = 0 THEN "scan" ELSE "tail",
                           !.seg = k.seg,
                           !.read = @ \cup {[k EXCEPT !.size = Allowed(cmd[p], k.seg)]}]]
  BY DEF FreezeStat
<1> DEFINE n == Allowed(cmd[p], k.seg)
           r == [k EXCEPT !.size = n]
<1>3. Budget(cmd[p]) > 0 /\ k \in Unread(cmd[p]) /\ cmd[p].pc = "scan"
  BY <1>2 DEF NextFile
<1>4. /\ n \in Nat /\ Budget(cmd[p]) = MaxBytes - Total(cmd[p].read) /\ Total(cmd[p].read) \in Nat
      /\ files[k.seg].live /\ files[k.seg].mtime >= cmd[p].at - Retention =>
              n = Budget(cmd[p]) \/ n = files[k.seg].size
  BY <1>1, <1>3, AllowedTyped
<1>5. /\ cmd'[p].pc = IF n = 0 THEN "scan" ELSE "tail"
      /\ cmd'[p].seg = k.seg /\ cmd'[p].read = cmd[p].read \cup {r}
      /\ cmd'[p].asked = cmd[p].asked /\ cmd'[p].at = cmd[p].at
      /\ cmd'[p].listed = cmd[p].listed /\ cmd'[p].disk = cmd[p].disk
      /\ cmd'[p].failed = cmd[p].failed
  BY <1>1, <1>2 DEF CommandType
<1>6. r.seg = k.seg /\ r.nth = k.nth /\ r.size = n
  BY <1>1 DEF CommandType, StatType
<1> HIDE DEF n
<1>7. GoesOn(p)
  BY <1>5 DEF GoesOn, ReadInv
<1>8. ASSUME NEW e \in cmd[p].asked, NEW i \in Unread(cmd[p]),
             e \in files[k.seg].rows, i.seg = k.seg, i.size <= files[k.seg].size
      PROVE  Excused(p, e)' \/ BeingRead(cmd'[p], i)
  <2>1. e \in Ids /\ k.seg \in SegId /\ files[k.seg].live
    BY <1>1, <1>8 DEF NothingDead
  <2>2. row[e].ts <= files[k.seg].mtime /\ files[k.seg].start[e] < files[k.seg].size
    BY <1>8, <2>1 DEF FileInv
  <2>3. /\ row[e].ts \in Nat /\ files[k.seg].mtime \in Nat /\ files[k.seg].size \in Nat
        /\ files[k.seg].start[e] \in Nat /\ cmd[p].at \in Nat /\ Retention \in Nat
        /\ MaxBytes \in Nat /\ i.size \in Nat
    <3>1. e \in 1..NEvents
      BY <2>1, BoundsAssumption DEF TypeOK, Ids
    <3>2. QED
      BY <1>1, <2>1, <3>1, RowTyped, BoundsAssumption DEF TypeOK, FileType, CommandType, Unread
  <2>4. CASE files[k.seg].mtime < cmd[p].at - Retention
    <3>1. row'[e].ts < cmd'[p].at - Retention
      BY <1>1, <1>5, <2>2, <2>3, <2>4
    <3>2. QED
      BY <3>1 DEF Excused
  <2>5. CASE ~(files[k.seg].mtime < cmd[p].at - Retention)
    <3>1. n = Budget(cmd[p]) \/ n = files[k.seg].size
      BY <1>4, <2>1, <2>3, <2>5
    <3>2. n # 0
      BY <1>3, <1>4, <2>2, <2>3, <3>1
    <3>3. cmd'[p].pc = "tail" /\ r \in cmd'[p].read /\ r.seg = cmd'[p].seg
      BY <1>5, <1>6, <3>2
    <3>4. CASE n = files[k.seg].size
      <4>1. r.size >= i.size
        BY <1>6, <1>8, <2>3, <3>4
      <4>2. QED
        BY <1>5, <1>8, <3>3, <4>1 DEF BeingRead
    <3>5. CASE n = Budget(cmd[p])
      <4>1. {x \in cmd'[p].read : x.nth >= i.nth /\ x.seg # i.seg} = cmd[p].read
        <5>1. \A x \in cmd[p].read : x.nth >= i.nth /\ x.seg # i.seg
          BY <1>3 DEF Tracked, Unread
        <5>2. QED
          BY <1>5, <1>6, <1>8, <5>1
      <4>2. Behind(cmd'[p], i) = Total(cmd[p].read)
        BY <4>1 DEF Behind
      <4>3. Behind(cmd'[p], i) + r.size >= MaxBytes
        BY <1>4, <1>6, <2>3, <3>5, <4>2
      <4>4. QED
        BY <1>5, <1>8, <3>3, <4>3 DEF BeingRead
    <3>6. QED
      BY <3>1, <3>4, <3>5
  <2>6. QED
    BY <2>4, <2>5
<1>9. cmd'[p].pc \in {"scan", "tail"}
  BY <1>5
<1>10. cmd'[p].read = cmd[p].read \cup {[k EXCEPT !.size = n]}
  BY <1>5
<1> HIDE DEF r
<1>11. QED
  BY <1>1, <1>2, <1>4, <1>7, <1>8, <1>9, <1>10, TurnTracked

(* The reading of a file is over: its rows are read, or excused.             *)
LEMMA FileOver ==
  ASSUME TypeOK, TypeOK', ReadInv, NEW p \in Procs, Tracked(p), Reading(p),
         cmd[p].pc = "tail", cmd'[p].pc = "scan", cmd'[p].read = cmd[p].read, GoesOn(p),
         \A e \in cmd[p].asked, k \in cmd[p].listed :
            e \in files[k.seg].rows /\ BeingRead(cmd[p], k) => Excused(p, e)'
  PROVE  Tracked(p)'
<1>1. /\ files' = files /\ row' = row /\ gone' = gone /\ Ids' = Ids
      /\ cmd[p] \in CommandType
      /\ \A f \in SegId : \A e : e \in files[f].rows => Kept(f, e)
  BY ReaderFrame
<1>2. cmd'[p].listed = cmd[p].listed /\ cmd'[p].asked = cmd[p].asked
  BY DEF GoesOn
<1>3. Unread(cmd[p])' = Unread(cmd[p])
  BY <1>2 DEF Unread
<1>4. ASSUME NEW e \in cmd[p].asked, e \notin gone
      PROVE  Excused(p, e)' \/ Ahead(p, e)'
  <2>1. Excused(p, e) \/ Ahead(p, e)
    BY <1>4 DEF Tracked
  <2>2. e \in Ids
    BY <1>1 DEF CommandType
  <2>3. CASE Excused(p, e)
    BY <1>1, <2>2, <2>3, ExcusedStays
  <2>4. CASE Ahead(p, e)
    <3>1. PICK k \in cmd[p].listed :
            /\ e \in files[k.seg].rows /\ k.size <= files[k.seg].size
            /\ k \in Unread(cmd[p]) \/ BeingRead(cmd[p], k)
      BY <2>4 DEF Ahead
    <3>2. CASE k \in Unread(cmd[p])
      BY <1>1, <1>2, <1>3, <3>1, <3>2 DEF Ahead
    <3>3. CASE BeingRead(cmd[p], k)
      BY <3>1, <3>3
    <3>4. QED
      BY <3>1, <3>2, <3>3
  <2>5. QED
    BY <2>1, <2>3, <2>4
<1>5. QED
  BY <1>1, <1>2, <1>3, <1>4 DEF Tracked

LEMMA UnreadTracked ==
  ASSUME TypeOK, TypeOK', ReadInv, ReadInv', NEW p \in Procs, Tracked(p), FreezeUnread(p)
  PROVE  Tracked(p)'
<1>1. /\ files' = files /\ row' = row /\ gone' = gone /\ Ids' = Ids
      /\ cmd[p] \in CommandType /\ cmd \in [Procs -> CommandType] /\ IsFiniteSet(cmd[p].read)
      /\ \A f \in SegId : \A e : e \in files[f].rows => Kept(f, e) /\ e \in Ids
      /\ Reading(p)
  BY ReaderFrame DEF Reading
<1>2. ASSUME NEW k \in cmd[p].listed, NextFile(cmd[p], k),
             cmd' = [cmd EXCEPT ![p] =
               [cmd[p] EXCEPT !.read = @ \cup {[k EXCEPT !.size = 0]},
                              !.failed = @ \cup {k.seg}]]
      PROVE  Tracked(p)'
  <2> DEFINE r == [k EXCEPT !.size = 0]
  <2>1. /\ cmd'[p].pc = cmd[p].pc /\ cmd'[p].read = cmd[p].read \cup {r}
        /\ cmd'[p].asked = cmd[p].asked /\ cmd'[p].at = cmd[p].at
        /\ cmd'[p].listed = cmd[p].listed /\ cmd'[p].disk = cmd[p].disk
        /\ cmd'[p].failed = cmd[p].failed \cup {k.seg}
    BY <1>1, <1>2 DEF CommandType
  <2>2. cmd'[p].pc \in {"scan", "tail"}
    BY <1>2, <2>1 DEF NextFile
  <2>3. cmd'[p].read = cmd[p].read \cup {[k EXCEPT !.size = 0]}
    BY <2>1
  <2> HIDE DEF r
  <2>4. GoesOn(p)
    BY <2>1 DEF GoesOn, ReadInv
  <2>5. \A e \in cmd[p].asked : e \in files[k.seg].rows => Excused(p, e)'
    BY <1>1, <2>1 DEF Excused
  <2>6. 0 \in Nat
    OBVIOUS
  <2>7. QED
    BY <1>1, <1>2, <2>2, <2>3, <2>4, <2>5, <2>6, TurnTracked
<1>3. ASSUME cmd[p].pc = "tail",
             cmd' = [cmd EXCEPT ![p] = [cmd[p] EXCEPT !.pc = "scan",
                                                        !.failed = @ \cup {cmd[p].seg}]]
      PROVE  Tracked(p)'
  <2>1. /\ cmd'[p].pc = "scan" /\ cmd'[p].read = cmd[p].read
        /\ cmd'[p].asked = cmd[p].asked /\ cmd'[p].at = cmd[p].at
        /\ cmd'[p].listed = cmd[p].listed /\ cmd'[p].disk = cmd[p].disk
        /\ cmd'[p].failed = cmd[p].failed \cup {cmd[p].seg}
    BY <1>1, <1>3 DEF CommandType
  <2>2. GoesOn(p)
    BY <2>1 DEF GoesOn, ReadInv
  <2>3. ASSUME NEW e \in cmd[p].asked, NEW k \in cmd[p].listed,
               e \in files[k.seg].rows, BeingRead(cmd[p], k)
        PROVE  Excused(p, e)'
    BY <1>1, <2>1, <2>3 DEF Excused, BeingRead
  <2>4. QED
    BY <1>1, <1>3, <2>1, <2>2, <2>3, FileOver
<1>4. QED
  BY <1>2, <1>3 DEF FreezeUnread

LEMMA TailTracked ==
  ASSUME TypeOK, TypeOK', ReadInv, ReadInv', NEW p \in Procs, Tracked(p), FreezeTail(p)
  PROVE  Tracked(p)'
<1>1. /\ files' = files /\ row' = row /\ gone' = gone /\ Ids' = Ids
      /\ cmd[p] \in CommandType /\ cmd \in [Procs -> CommandType] /\ IsFiniteSet(cmd[p].read)
      /\ \A i \in cmd[p].listed \cup cmd[p].read :
           i.seg \in SegId /\ i.size \in Nat /\ i.nth \in Nat
      /\ \A f \in SegId : \A e : e \in files[f].rows => Kept(f, e) /\ e \in Ids
      /\ Reading(p)
  BY ReaderFrame DEF Reading
<1> DEFINE tail == TailRows(cmd[p])
<1>2. /\ cmd[p].pc = "tail"
      /\ cmd'[p].pc = "scan" /\ cmd'[p].read = cmd[p].read
      /\ cmd'[p].asked = cmd[p].asked /\ cmd'[p].at = cmd[p].at
      /\ cmd'[p].listed = cmd[p].listed /\ cmd'[p].disk = cmd[p].disk \cup tail
      /\ cmd'[p].failed = cmd[p].failed
  BY <1>1 DEF FreezeTail, CommandType
<1> HIDE DEF tail
<1>3. GoesOn(p)
  BY <1>2 DEF GoesOn, ReadInv
<1>4. ASSUME NEW e \in cmd[p].asked, NEW k \in cmd[p].listed,
             e \in files[k.seg].rows, BeingRead(cmd[p], k)
      PROVE  Excused(p, e)'
  <2>1. PICK r \in cmd[p].read :
          /\ r.seg = cmd[p].seg /\ k.seg = cmd[p].seg
          /\ r.size >= k.size \/ Behind(cmd[p], k) + r.size >= MaxBytes
    BY <1>4 DEF BeingRead
  <2>2. e \in Ids /\ k \in StatType
    BY <1>1, <1>4 DEF CommandType
  <2>3. /\ Behind(cmd[p], k) \in Nat /\ k.size \in Nat /\ MaxBytes \in Nat /\ k.seg \in SegId
        /\ files[k.seg].size \in Nat /\ files[k.seg].start[e] \in Nat
        /\ CutOff(cmd[p], e, k) <=>
             /\ e \in files[k.seg].rows
             /\ \/ /\ files[k.seg].size > k.size
                   /\ files[k.seg].start[e] <= files[k.seg].size - k.size
                \/ /\ Behind(cmd[p], k) + files[k.seg].size > MaxBytes
                   /\ files[k.seg].start[e] <= Behind(cmd[p], k) + files[k.seg].size - MaxBytes
    BY <1>1, <2>2, CutOffTyped
  <2>4. row[e].ts \in Nat /\ cmd[p].at \in Nat /\ Retention \in Nat /\ r.size \in Nat
    BY <1>1, <2>2, RowTyped, BoundsAssumption DEF CommandType
  <2>5. CASE row[e].ts < cmd[p].at - Retention
    BY <1>1, <1>2, <2>5 DEF Excused
  <2>6. CASE row[e].ts >= cmd[p].at - Retention /\ InTail(cmd[p].seg, e, r.size)
    <3>1. e \in tail
      BY <1>4, <2>1, <2>6 DEF tail, TailRows
    <3>2. QED
      BY <1>2, <3>1 DEF Excused
  <2>7. CASE ~InTail(cmd[p].seg, e, r.size)
    <3>1. /\ files[k.seg].size > r.size
          /\ files[k.seg].start[e] <= files[k.seg].size - r.size
      BY <2>1, <2>3, <2>4, <2>7 DEF InTail
    <3>2. CutOff(cmd[p], e, k)
      <4>1. CASE r.size >= k.size
        <5>1. /\ files[k.seg].size > k.size
              /\ files[k.seg].start[e] <= files[k.seg].size - k.size
          BY <2>3, <2>4, <3>1, <4>1
        <5>2. QED
          BY <1>4, <2>3, <5>1
      <4>2. CASE Behind(cmd[p], k) + r.size >= MaxBytes
        <5>1. /\ Behind(cmd[p], k) + files[k.seg].size > MaxBytes
              /\ files[k.seg].start[e] <= Behind(cmd[p], k) + files[k.seg].size - MaxBytes
          BY <2>3, <2>4, <3>1, <4>2
        <5>2. QED
          BY <1>4, <2>3, <5>1
      <4>3. QED
        BY <2>1, <4>1, <4>2
    <3>3. Excused(p, e)
      BY <3>2 DEF Excused
    <3>4. QED
      BY <1>1, <1>3, <2>2, <3>3, ExcusedStays
  <2>8. QED
    BY <2>4, <2>5, <2>6, <2>7
<1>5. QED
  BY <1>1, <1>2, <1>3, <1>4, FileOver

(* What a finished freeze returns.                                           *)
LEMMA MergeReturns ==
  ASSUME TypeOK, ReadInv, FileInv, NEW p \in Procs, Tracked(p), FreezeMerge(p),
         NEW e \in cmd[p].asked, e \notin gone
  PROVE  \/ e \in cmd'[p].out
         \/ row[e].ts < cmd[p].at - Retention
         \/ Cardinality({x \in cmd'[p].out : x > e}) >= MaxEvents
         \/ \E f \in cmd[p].failed : e \in files[f].rows
         \/ \E k \in cmd[p].listed : CutOff(cmd[p], e, k)
<1>1. /\ cmd[p] \in CommandType /\ cmd \in [Procs -> CommandType] /\ IsFiniteSet(cmd[p].read)
      /\ \A f \in SegId : \A x : x \in files[f].rows => x \in Ids
  BY ReaderFrame DEF Reading
<1>2. e \in Ids /\ cmd[p].pc = "scan" /\ cmd[p].read \subseteq StatType
  BY <1>1 DEF CommandType, FreezeMerge
<1>3. CASE e \in cmd[p].disk
  <2> DEFINE all == cmd[p].disk
             mem == cmd[p].mem
             disk == Newest(all, MaxEvents)
             out == Newest(mem \cup disk, MaxEvents)
  <2>1. cmd'[p].out = out
    BY <1>1 DEF FreezeMerge, CommandType
  <2>2. all \subseteq Ids /\ mem \subseteq Ids /\ MaxEvents \in Nat
    BY <1>1, BoundsAssumption DEF CommandType
  <2>3. disk \subseteq all
    BY DEF Newest
  <2> HIDE DEF all, mem, disk, out
  <2>4. e \in disk \/ Cardinality({x \in disk : x > e}) >= MaxEvents
    BY <1>2, <1>3, <2>2, NewestOrFull DEF all, disk
  <2>5. ASSUME NEW S, S \subseteq Ids, disk \subseteq S
        PROVE  \/ e \in Newest(S, MaxEvents)
               \/ Cardinality({x \in Newest(S, MaxEvents) : x > e}) >= MaxEvents
    BY <1>2, <2>2, <2>4, <2>5, NewestOrFull
  <2>6. mem \cup disk \subseteq Ids /\ disk \subseteq mem \cup disk
    BY <2>2, <2>3
  <2>7. e \in out \/ Cardinality({x \in out : x > e}) >= MaxEvents
    BY <2>5, <2>6 DEF out
  <2>8. QED
    BY <2>1, <2>7
<1>4. CASE Ahead(p, e)
  <2>1. PICK k \in cmd[p].listed : e \in files[k.seg].rows /\ k \in Unread(cmd[p])
    BY <1>2, <1>4 DEF Ahead, BeingRead
  <2>2. k \in StatType
    BY <1>1 DEF CommandType
  <2>3. /\ Behind(cmd[p], k) \in Nat /\ k.size \in Nat /\ MaxBytes \in Nat /\ k.seg \in SegId
        /\ files[k.seg].size \in Nat /\ files[k.seg].start[e] \in Nat
        /\ CutOff(cmd[p], e, k) <=>
             /\ e \in files[k.seg].rows
             /\ \/ /\ files[k.seg].size > k.size
                   /\ files[k.seg].start[e] <= files[k.seg].size - k.size
                \/ /\ Behind(cmd[p], k) + files[k.seg].size > MaxBytes
                   /\ files[k.seg].start[e] <= Behind(cmd[p], k) + files[k.seg].size - MaxBytes
    BY <1>1, <1>2, <2>2, CutOffTyped
  <2>4. Budget(cmd[p]) <= 0
    BY <2>1 DEF FreezeMerge
  <2>5. {x \in cmd[p].read : x.nth >= k.nth /\ x.seg # k.seg} = cmd[p].read
    BY <1>2, <2>1 DEF Tracked, Unread
  <2>6. Behind(cmd[p], k) = Total(cmd[p].read)
    BY <2>5 DEF Behind
  <2>7. Behind(cmd[p], k) >= MaxBytes
    BY <2>3, <2>4, <2>6 DEF Budget
  <2>8. files[k.seg].start[e] < files[k.seg].size
    BY <2>1, <2>3 DEF FileInv
  <2>9. /\ Behind(cmd[p], k) + files[k.seg].size > MaxBytes
        /\ files[k.seg].start[e] <= Behind(cmd[p], k) + files[k.seg].size - MaxBytes
    BY <2>3, <2>7, <2>8
  <2>10. QED
    BY <2>1, <2>3, <2>9
<1>5. Excused(p, e) \/ Ahead(p, e)
  BY <1>2 DEF Tracked
<1>6. QED
  BY <1>3, <1>4, <1>5 DEF Excused

(* Only the command's own reading ends it. *)
LEMMA MergeStep ==
  ASSUME TypeOK, ReadInv, [Next]_vars, NEW p \in Procs,
         cmd[p].pc = "scan", cmd'[p].pc = "done"
  PROVE  FreezeMerge(p)
<1>1. cmd \in [Procs -> CommandType] /\ cmd'[p] # cmd[p]
  BY DEF TypeOK
<1>2. ASSUME NEW q \in Procs, NEW c, cmd' = [cmd EXCEPT ![q] = c]
      PROVE  q = p /\ c.pc = "done"
  BY <1>1, <1>2
<1>3. ASSUME NEW q \in Procs, WriteEnd(q) PROVE FALSE
  <2>1. cmd' = [cmd EXCEPT ![q] = [cmd[q] EXCEPT !.pc = "snapshot"]]
    BY <1>1, <1>3 DEF WriteEnd
  <2>2. [cmd[q] EXCEPT !.pc = "snapshot"].pc = "snapshot"
    BY <1>1 DEF CommandType
  <2>3. QED
    BY <1>2, <2>1, <2>2
<1>4. ASSUME NEW q \in Procs, NEW h \in Profiles, FreezeCall(q, h) PROVE FALSE
  <2>1. PICK S : cmd' = [cmd EXCEPT ![q] =
                   [NoCommand EXCEPT !.pc = "flush", !.home = h, !.asked = S]]
    BY <1>4 DEF FreezeCall
  <2>2. [NoCommand EXCEPT !.pc = "flush", !.home = h, !.asked = S].pc = "flush"
    BY DEF NoCommand
  <2>3. QED
    BY <1>2, <2>1, <2>2
<1>5. ASSUME NEW q \in Procs, FreezeMemory(q) PROVE FALSE
  <2>1. cmd' = [cmd EXCEPT ![q] = [cmd[q] EXCEPT !.pc = "read", !.at = now,
                                                 !.mem = MemoryOf(q)]]
    BY <1>5 DEF FreezeMemory
  <2>2. [cmd[q] EXCEPT !.pc = "read", !.at = now, !.mem = MemoryOf(q)].pc = "read"
    BY <1>1 DEF CommandType
  <2>3. QED
    BY <1>2, <2>1, <2>2
<1>6. ASSUME NEW q \in Procs, FreezeReturn(q) \/ Crash(q) PROVE FALSE
  <2>1. cmd' = [cmd EXCEPT ![q] = NoCommand] /\ NoCommand.pc = "idle"
    BY <1>6 DEF FreezeReturn, Crash, NoCommand
  <2>2. QED
    BY <1>2, <2>1
<1>7. ASSUME NEW q \in Procs, Reading(q) PROVE q = p
  <2>1. PICK c : cmd' = [cmd EXCEPT ![q] = c]
    BY <1>7, ReadingFacts
  <2>2. QED
    BY <1>2, <2>1
<1>8. Reading(p)
  BY <1>1, <1>3, <1>4, <1>5, <1>6, <1>7, CommandsChange DEF CommandStep, Reading
<1>9. ASSUME NEW c, cmd' = [cmd EXCEPT ![p] = c], c.pc # "done" PROVE FALSE
  BY <1>2, <1>9
<1>10. ~FreezeList(p)
  BY DEF FreezeList
<1>11. ASSUME FreezeStat(p) PROVE FALSE
  <2>1. PICK k : cmd'[p].pc = IF Allowed(cmd[p], k.seg) = 0 THEN "scan" ELSE "tail"
    BY <1>1, <1>11 DEF FreezeStat, CommandType
  <2>2. QED
    BY <2>1
<1>12. ASSUME FreezeUnread(p) PROVE FALSE
  <2>1. cmd'[p].pc = cmd[p].pc \/ cmd'[p].pc = "scan"
    BY <1>1, <1>12 DEF FreezeUnread, CommandType
  <2>2. QED
    BY <2>1
<1>13. ~FreezeTail(p)
  BY DEF FreezeTail
<1>14. QED
  BY <1>8, <1>10, <1>11, <1>12, <1>13 DEF Reading

LEMMA InitTrackInv == Init => TrackInv
  BY DEF Init, TrackInv, Tracked, NoCommand

LEMMA NextTrackInv ==
  ASSUME TypeOK, TypeOK', LockInv, NothingDead, Placed, ReadInv, ReadInv', FileInv, AskedInv,
         TrackInv, [Next]_vars
  PROVE  TrackInv'
<1>1. cmd \in [Procs -> CommandType]
  BY DEF TypeOK
<1>2. ASSUME NEW q \in Procs, cmd'[q] = cmd[q]
      PROVE  Tracked(q)'
  BY <1>2, TrackedStays DEF TrackInv
<1>3. CASE cmd' = cmd
  BY <1>2, <1>3 DEF TrackInv
<1>4. ASSUME NEW p \in Procs, NEW c, cmd' = [cmd EXCEPT ![p] = c], Tracked(p)'
      PROVE  TrackInv'
  <2>1. \A q \in Procs \ {p} : cmd'[q] = cmd[q]
    BY <1>1, <1>4
  <2>2. QED
    BY <1>2, <1>4, <2>1 DEF TrackInv
<1>5. ASSUME NEW p \in Procs, NEW c, cmd' = [cmd EXCEPT ![p] = c],
             c.pc \in {"idle", "flush", "snapshot", "read", "done"},
             c.pc \in {"idle", "done"} \/ c.read = {}
      PROVE  TrackInv'
  <2>1. cmd'[p] = c
    BY <1>1, <1>5
  <2>2. Tracked(p)'
    BY <1>5, <2>1 DEF Tracked
  <2>3. QED
    BY <1>4, <1>5, <2>2
<1>6. ASSUME NEW p \in Procs, WriteEnd(p)
      PROVE  TrackInv'
  <2>1. CASE io[p].owner # "cmd"
    BY <1>3, <1>6, <2>1 DEF WriteEnd
  <2>2. CASE io[p].owner = "cmd"
    <3> DEFINE c == [cmd[p] EXCEPT !.pc = "snapshot"]
    <3>1. cmd' = [cmd EXCEPT ![p] = c]
      BY <1>6, <2>2 DEF WriteEnd
    <3>2. cmd[p].pc = "flush"
      BY <2>2 DEF LockInv, LockedBy
    <3>3. c.pc = "snapshot" /\ c.read = cmd[p].read
      BY <1>1 DEF CommandType
    <3> HIDE DEF c
    <3>4. QED
      BY <1>5, <3>1, <3>2, <3>3 DEF TrackInv, Tracked
  <2>3. QED
    BY <2>1, <2>2
<1>7. ASSUME NEW p \in Procs, NEW h \in Profiles, FreezeCall(p, h)
      PROVE  TrackInv'
  <2>1. PICK S : cmd' = [cmd EXCEPT ![p] =
                   [NoCommand EXCEPT !.pc = "flush", !.home = h, !.asked = S]]
    BY <1>7 DEF FreezeCall
  <2> DEFINE c == [NoCommand EXCEPT !.pc = "flush", !.home = h, !.asked = S]
  <2>2. c.pc = "flush" /\ c.read = {} /\ cmd' = [cmd EXCEPT ![p] = c]
    BY <2>1 DEF NoCommand
  <2> HIDE DEF c
  <2>3. QED
    BY <1>5, <2>2
<1>8. ASSUME NEW p \in Procs, FreezeMemory(p)
      PROVE  TrackInv'
  <2> DEFINE c == [cmd[p] EXCEPT !.pc = "read", !.at = now, !.mem = MemoryOf(p)]
  <2>1. cmd' = [cmd EXCEPT ![p] = c] /\ cmd[p].pc = "snapshot"
    BY <1>8 DEF FreezeMemory, Flushed
  <2>2. c.pc = "read" /\ c.read = cmd[p].read
    BY <1>1 DEF CommandType
  <2> HIDE DEF c
  <2>3. QED
    BY <1>5, <2>1, <2>2 DEF TrackInv, Tracked
<1>9. ASSUME NEW p \in Procs, FreezeReturn(p) \/ Crash(p)
      PROVE  TrackInv'
  <2>1. cmd' = [cmd EXCEPT ![p] = NoCommand] /\ NoCommand.pc = "idle"
    BY <1>9 DEF FreezeReturn, Crash, NoCommand
  <2>2. QED
    BY <1>5, <2>1
<1>10. ASSUME NEW p \in Procs, Reading(p)
       PROVE  TrackInv'
  <2>1. PICK c : cmd' = [cmd EXCEPT ![p] = c]
    BY <1>10, ReadingFacts
  <2>2. Tracked(p) /\ AskedFor(p)
    BY DEF TrackInv, AskedInv
  <2>3. CASE FreezeMerge(p)
    <3>1. cmd'[p].pc = "done"
      BY <1>1, <2>3 DEF FreezeMerge, CommandType
    <3>2. Tracked(p)'
      BY <3>1 DEF Tracked
    <3>3. QED
      BY <1>4, <2>1, <3>2
  <2>4. FreezeList(p) \/ FreezeStat(p) \/ FreezeTail(p) \/ FreezeUnread(p) => Tracked(p)'
    BY <2>2, ListTracked, StatTracked, TailTracked, UnreadTracked
  <2>5. QED
    BY <1>4, <1>10, <2>1, <2>3, <2>4 DEF Reading
<1>11. QED
  BY <1>3, <1>6, <1>7, <1>8, <1>9, <1>10, CommandsChange DEF CommandStep, Reading

FreezeBase == Inductive /\ FileInv /\ AskedInv /\ TrackInv

LEMMA FreezeInvariant == Spec => []FreezeBase
<1>1. Init => FileInv /\ AskedInv /\ TrackInv
  BY InitFileInv, InitAskedInv, InitTrackInv
<1>2. Inductive /\ Inductive' /\ FileInv /\ AskedInv /\ TrackInv /\ [Next]_vars
        => FileInv' /\ AskedInv' /\ TrackInv'
  BY NextFileInv, NextAskedInv, NextTrackInv DEF Inductive
<1>3. QED
  BY <1>1, <1>2, InductiveInvariant, PTL DEF Spec, FreezeBase

(* freeze_detailed() returns everything its profile had when it was called,  *)
(* in this process's memory or queue or in any process's segment, however    *)
(* the flusher, stop(), other processes and their cleanups moved it, and     *)
(* however the files grew between the listing, the two stats and the read:   *)
(* what is missing is gone, past retention, crowded out by max_events newer  *)
(* rows, in a file that could not be read, in the part of its file's head by *)
(* which the file grew, or behind max_bytes of newer rows.                   *)
THEOREM FreezeIsComplete == Spec => FreezeComplete
<1>1. FreezeBase /\ [Next]_vars =>
       (\A p \in Procs : cmd[p].pc = "scan" /\ cmd'[p].pc = "done" =>
         \A e \in cmd[p].asked :
           \/ e \in cmd'[p].out \cup gone
           \/ row[e].ts < cmd[p].at - Retention
           \/ Cardinality({x \in cmd'[p].out : x > e}) >= MaxEvents
           \/ \E f \in cmd[p].failed : e \in files[f].rows
           \/ \E k \in cmd[p].listed : CutOff(cmd[p], e, k))
  <2>1. SUFFICES ASSUME FreezeBase, [Next]_vars, NEW p \in Procs,
                        cmd[p].pc = "scan", cmd'[p].pc = "done", NEW e \in cmd[p].asked,
                        e \notin gone
                 PROVE  \/ e \in cmd'[p].out
                        \/ row[e].ts < cmd[p].at - Retention
                        \/ Cardinality({x \in cmd'[p].out : x > e}) >= MaxEvents
                        \/ \E f \in cmd[p].failed : e \in files[f].rows
                        \/ \E k \in cmd[p].listed : CutOff(cmd[p], e, k)
    BY <2>1
  <2>2. TypeOK /\ ReadInv /\ FileInv /\ Tracked(p)
    BY <2>1 DEF FreezeBase, Inductive, TrackInv
  <2>3. FreezeMerge(p)
    BY <2>1, <2>2, MergeStep
  <2>4. QED
    BY <2>1, <2>2, <2>3, MergeReturns
<1>2. QED
  BY <1>1, FreezeInvariant, PTL DEF Spec, FreezeComplete

=============================================================================
