--------------------------- MODULE FlightRecorder ---------------------------
(***************************************************************************)
(* The flight recorder of hermes_minefield/recorder/store.py: several       *)
(* processes (gateway, CLI) record hook events in memory, and a daemon      *)
(* flusher thread per process appends them to that process's own segment    *)
(* files in the recorder directory of the profile each event belongs to.    *)
(* Every process also cleans the directories it knows, whole files at a     *)
(* time, and a command can freeze the evidence (memory + disk) for wtf.     *)
(*                                                                          *)
(* Actors of a process p: hook threads (Record, EnsureFlusher, StartThread),*)
(* the flusher (FlusherTop, FlusherWake), a command (Freeze...), stop().    *)
(* The last three reach the disk through _write_pending, one at a time      *)
(* under _io_lock: io[p].owner says which of them is inside.                *)
(*                                                                          *)
(* Events are numbered in the order they enter memory, so an event's number *)
(* orders it, and one row counts as one unit of size everywhere.            *)
(***************************************************************************)
EXTENDS Integers, Sequences, FiniteSets, FiniteSetsExt

CONSTANTS
  Procs,            (* processes sharing the recorder directories            *)
  Hooks,            (* hook threads of each process                          *)
  Homes,            (* recorder directories: one of each profile, and Cwd    *)
  Cwd,              (* Path("."), for rows whose profile cannot be resolved  *)
  DefaultHome,      (* the profile of a thread outside any profile scope     *)
  Recorders,        (* processes that load the plugin and record             *)
  Readers,          (* processes that run wtf / status                       *)
  Stoppable,        (* processes whose recorder is stopped (exit, unload)    *)
  MaxEvents,        (* recorder_max_events                                   *)
  MaxBytes,         (* recorder_max_bytes, in rows                           *)
  SegFloor,         (* the 64 KiB floor of the rollover size, in rows        *)
  Batch,            (* FLUSH_BATCH                                           *)
  Retention,        (* recorder_retention_seconds, in ticks                  *)
  Grace,            (* the extra 60 seconds cleanup waits, in ticks          *)
  CleanupInterval,  (* CLEANUP_INTERVAL, in ticks                            *)
  NEvents, MaxTime, MaxSegs, MaxFaults, MaxCrashes  (* bounds of the model   *)

ASSUME ActorsAssumption ==
  /\ Recorders \subseteq Procs
  /\ Readers \subseteq Procs
  /\ Stoppable \subseteq Procs
  /\ Cwd \in Homes
  /\ DefaultHome \in Homes \ {Cwd}

ASSUME BoundsAssumption ==
  /\ {MaxEvents, MaxBytes, SegFloor, Retention, Grace, CleanupInterval} \subseteq Nat
  /\ Batch \in Nat \ {0}
  /\ {NEvents, MaxTime, MaxSegs, MaxFaults, MaxCrashes} \subseteq Nat

VARIABLES
  now,          (* the wall clock                                            *)
  row,          (* every event so far: its profile, the directory it is      *)
                (* filed under (home), the time and the process              *)
  buf,          (* _buf of each process                                      *)
  pending,      (* _pending of each process                                  *)
  hook,         (* where each hook thread is inside record()                 *)
  thr,          (* the flusher thread                                        *)
  wake,         (* _wake                                                     *)
  stopSet,      (* _stop                                                     *)
  stp,          (* where the thread calling stop() is                        *)
  cmd,          (* where the command calling freeze_detailed() is            *)
  io,           (* who holds _io_lock, and where in _write_pending it is     *)
  batch,        (* the rows taken from _pending and not yet written          *)
  clean,        (* the cleanup_segments call in progress                     *)
  lastCleanup,  (* _last_cleanup                                             *)
  segs,         (* _segments: number of the current segment, 0 for none      *)
  seq,          (* _segment_seq                                              *)
  dirsSeen,     (* _dirs_seen                                                *)
  files,        (* the segment files                                         *)
  stamp,        (* counts file writes: orders mtimes within a tick           *)
  gone,         (* history: rows that no file will ever show (again)         *)
  faults, crashes  (* how many of each happened, for the bounds              *)

threadVars == <<hook, thr, wake, stopSet, stp>>
writerVars == <<io, batch, clean, lastCleanup>>
segVars    == <<segs, seq, dirsSeen>>
diskVars   == <<files, stamp>>
boundVars  == <<faults, crashes>>
vars == <<now, row, buf, pending, threadVars, cmd, writerVars, segVars, diskVars,
          gone, boundVars>>

(* A segment file belongs to one process and one directory; restarts never  *)
(* reuse a name (pid, start time and a random token are part of it).        *)
SegId == Procs \X Homes \X (1..MaxSegs)
NoSeg == <<>>
NoHome == "none"

Profiles == Homes \ {Cwd}

Ids == 1..Len(row)
HomeOf(S, h) == {e \in S : row[e].home = h}

(* start[e] is where row e begins, for the rows e of the file. *)
NoFile == [live |-> FALSE, rows |-> {}, start |-> [e \in 1..NEvents |-> 0], size |-> 0,
           mtime |-> 0, nth |-> 0, torn |-> FALSE]
InDir(d) == {f \in SegId : f[2] = d /\ files[f].live}
OnDisk == UNION {files[f].rows : f \in SegId}

(* The size of a set of files is the number of their units. *)
Units(S) == UNION {{f} \X (1..files[f].size) : f \in S}
SizeOf(S) == Cardinality(Units(S))

IsCurrent(p, f) == f[1] = p /\ segs[p][f[2]] = f[3]

(* size > max(64 * 1024, self.max_bytes // 4) starts a new segment. *)
SegLimit == Max({SegFloor, MaxBytes \div 4})

Unlocked  == [owner |-> "free", stage |-> "none", seg |-> NoSeg, linked |-> FALSE]

(* `failed` is history: the files that an OSError kept the call from.        *)
NoCleanup == [todo |-> {}, dir |-> NoHome, doomed |-> {}, keep |-> {}, failed |-> {}]
NoCommand == [pc |-> "idle", home |-> NoHome, asked |-> {}, at |-> 0, mem |-> {},
              listed |-> {}, read |-> {}, seg |-> NoSeg, disk |-> {}, failed |-> {},
              out |-> {}]

(* Something fails outside the program: a path, a file, a disk.              *)
Fault ==
  /\ faults < MaxFaults
  /\ faults' = faults + 1
  /\ crashes' = crashes

(* What a listing and the stats of a set of files show. *)
Stats(S) == {[seg |-> f, size |-> files[f].size, nth |-> files[f].nth] : f \in S}
Total(stats) == Cardinality(UNION {{k.seg} \X (1..k.size) : k \in stats})

-----------------------------------------------------------------------------
(* Memory. Events enter in time order here, so popping the head while it is *)
(* too old, or while there are too many, keeps exactly the newest ones.     *)

Newest(S, n) == {e \in S : Cardinality({x \in S : x > e}) < n}

Trimmed(S, r) ==
  {e \in Newest(S, Min({MaxEvents, MaxBytes})) : r[e].ts >= now - Retention}

(* A row recorded after stop() stays in memory only. *)
StaysAlways(p) == TRUE
Stays(p) == ~stopSet[p]

FullPast(S) == Cardinality(S) > Batch
Full(S) == Cardinality(S) >= Batch

(* record(): the event enters memory and, if its row is to be kept, the row  *)
(* awaits the flusher, which a full batch wakes.                             *)
Enter(p, t, profile, h, kept) ==
  /\ p \in Recorders
  /\ hook[p][t] = "idle"
  /\ Len(row) < NEvents
  /\ LET e == Len(row) + 1
     IN  /\ row' = Append(row, [profile |-> profile, home |-> h, ts |-> now, proc |-> p])
         /\ buf' = [buf EXCEPT ![p] = Trimmed(@ \cup {e}, row')]
         /\ pending' = [pending EXCEPT ![p] = IF kept THEN @ \cup {e} ELSE @]
         /\ wake' = [wake EXCEPT ![p] = @ \/ (kept /\ Full(pending'[p]))]
         /\ gone' = IF kept THEN gone ELSE gone \cup {e}
  /\ hook' = [hook EXCEPT ![p][t] = "recorded"]
  /\ UNCHANGED <<now, thr, stopSet, stp, cmd, writerVars, segVars, diskVars>>

(* The directory is resolved here, on the hook thread, in the profile's      *)
(* scope. When that raises, the row is filed under the working directory;    *)
(* when the event cannot be serialized there is no row.                      *)
Record(p, t, h) ==
  /\ Enter(p, t, h, h, Stays(p))
  /\ UNCHANGED boundVars

RecordAstray(p, t, h) ==
  /\ Fault
  /\ Enter(p, t, h, Cwd, Stays(p)) \/ Enter(p, t, h, h, FALSE)

(* The end of record() and _start_flusher() up to the release of the lock:  *)
(* one hook thread creates the flusher thread object.                       *)
EnsureFlusher(p, t) ==
  /\ hook[p][t] = "recorded"
  /\ IF thr[p] = "none" /\ ~stopSet[p]
       THEN /\ thr' = [thr EXCEPT ![p] = "created"]
            /\ hook' = [hook EXCEPT ![p][t] = "starting"]
       ELSE /\ thr' = thr
            /\ hook' = [hook EXCEPT ![p][t] = "idle"]
  /\ UNCHANGED <<now, row, buf, pending, wake, stopSet, stp, cmd, writerVars,
                 segVars, diskVars, gone, boundVars>>

(* t.start(), outside the lock. *)
StartThread(p, t) ==
  /\ hook[p][t] = "starting"
  /\ thr' = [thr EXCEPT ![p] = "top"]
  /\ hook' = [hook EXCEPT ![p][t] = "idle"]
  /\ UNCHANGED <<now, row, buf, pending, wake, stopSet, stp, cmd, writerVars,
                 segVars, diskVars, gone, boundVars>>

(* on_session_end / on_session_finalize ask for an early write. *)
RequestFlush(p) ==
  /\ p \in Recorders
  /\ ~wake[p]
  /\ wake' = [wake EXCEPT ![p] = TRUE]
  /\ UNCHANGED <<now, row, buf, pending, hook, thr, stopSet, stp, cmd, writerVars,
                 segVars, diskVars, gone, boundVars>>

-----------------------------------------------------------------------------
(* The flusher thread: while not _stop: wait (at most FLUSH_INTERVAL), clear *)
(* the event, write.                                                         *)

LoopEndsEarly(p) == stopSet[p] \/ dirsSeen[p] # {}
LoopEnds(p) == stopSet[p]

FlusherTop(p) ==
  /\ thr[p] = "top"
  /\ thr' = [thr EXCEPT ![p] = IF LoopEnds(p) THEN "exited" ELSE "waiting"]
  /\ UNCHANGED <<now, row, buf, pending, hook, wake, stopSet, stp, cmd, writerVars,
                 segVars, diskVars, gone, boundVars>>

(* The wait ends because the event is set or because it timed out. *)
FlusherWake(p) ==
  /\ thr[p] = "waiting"
  /\ thr' = [thr EXCEPT ![p] = "flush"]
  /\ wake' = [wake EXCEPT ![p] = FALSE]
  /\ UNCHANGED <<now, row, buf, pending, hook, stopSet, stp, cmd, writerVars,
                 segVars, diskVars, gone, boundVars>>

-----------------------------------------------------------------------------
(* _write_pending, by the flusher, by a command's flush() or by stop().      *)

Owners == {"flusher", "cmd", "stop"}

Wants(p, o) ==
  \/ o = "flusher" /\ thr[p] = "flush"
  \/ o = "cmd" /\ cmd[p].pc = "flush"
  \/ o = "stop" /\ stp[p] = "flush"

(* What _pending holds after the swap, and what the writer got. *)
LeftKept(S) == S
Left(S) == {}
TakenSome(S) == {e \in S : e < Min(S) + Batch}
Taken(S) == S

(* Acquire _io_lock, then swap _pending for an empty list. *)
TakePending(p, o) ==
  /\ io[p].owner = "free"
  /\ Wants(p, o)
  /\ io' = [io EXCEPT ![p] = [Unlocked EXCEPT !.owner = o, !.stage = "append"]]
  /\ batch' = [batch EXCEPT ![p] = Taken(pending[p])]
  /\ pending' = [pending EXCEPT ![p] = Left(pending[p])]
  /\ UNCHANGED <<now, row, buf, threadVars, cmd, clean, lastCleanup, segVars, diskVars,
                 gone, boundVars>>

(* Rows are written one directory at a time, in the order of their first row. *)
GroupDir(p) == row[Min(batch[p])].home
GroupAll(p) == batch[p]
Group(p) == HomeOf(batch[p], GroupDir(p))

(* _write_target: the current segment of the directory, or a new one. *)
TargetNumber(p, d) == IF segs[p][d] = 0 THEN seq[p] + 1 ELSE segs[p][d]

ChooseTarget(p, d) ==
  /\ TargetNumber(p, d) <= MaxSegs
  /\ segs' = [segs EXCEPT ![p][d] = TargetNumber(p, d)]
  /\ seq' = [seq EXCEPT ![p] = IF segs[p][d] = 0 THEN @ + 1 ELSE @]

(* mkdir and os.open(O_APPEND | O_CREAT): a segment that a peer deleted is   *)
(* created again.                                                            *)
AppendOpen(p) ==
  /\ io[p].stage = "append"
  /\ batch[p] # {}
  /\ LET d == GroupDir(p)
         f == <<p, d, TargetNumber(p, d)>>
     IN  /\ ChooseTarget(p, d)
         /\ dirsSeen' = [dirsSeen EXCEPT ![p] = @ \cup {d}]
         /\ IF files[f].live
              THEN UNCHANGED diskVars
              ELSE /\ files' = [files EXCEPT ![f] = [NoFile EXCEPT !.live = TRUE,
                                                       !.mtime = now, !.nth = stamp]]
                   /\ stamp' = stamp + 1
         /\ io' = [io EXCEPT ![p].stage = "opened", ![p].seg = f, ![p].linked = TRUE]
  /\ UNCHANGED <<now, row, buf, pending, threadVars, cmd, batch, clean, lastCleanup,
                 gone, boundVars>>

(* mkdir or open raises: the rows of this directory were taken from _pending *)
(* and are dropped; the other directories are still written.                 *)
AppendFails(p) ==
  /\ io[p].stage = "append"
  /\ batch[p] # {}
  /\ Fault
  /\ ChooseTarget(p, GroupDir(p))
  /\ \/ dirsSeen' = [dirsSeen EXCEPT ![p] = @ \cup {GroupDir(p)}]
     \/ UNCHANGED dirsSeen
  /\ batch' = [batch EXCEPT ![p] = @ \ Group(p)]
  /\ gone' = gone \cup Group(p)
  /\ UNCHANGED <<now, row, buf, pending, threadVars, cmd, io, clean, lastCleanup,
                 diskVars>>

(* What the file holds once the first n rows of the group are written to it. *)
(* After a torn write the file has no final newline: the next row is glued   *)
(* to the fragment and is malformed.                                         *)
Readable(p, written) ==
  IF files[io[p].seg].torn /\ written # {} THEN written \ {Min(written)} ELSE written

WriteRows(p, written, torn) ==
  LET f == io[p].seg
      old == files[f]
      fragment == IF torn THEN 1 ELSE 0
  IN  /\ IF io[p].linked
           THEN /\ files' = [files EXCEPT ![f] =
                     [live |-> TRUE, rows |-> old.rows \cup Readable(p, written),
                      start |-> [e \in 1..NEvents |->
                        IF e \in written THEN old.size + Cardinality({x \in written : x < e})
                        ELSE old.start[e]],
                      size |-> old.size + Cardinality(written) + fragment,
                      mtime |-> now, nth |-> stamp, torn |-> torn]]
                /\ stamp' = stamp + 1
           ELSE UNCHANGED diskVars
      /\ gone' = gone \cup (Group(p) \ (IF io[p].linked THEN Readable(p, written) ELSE {}))
      /\ batch' = [batch EXCEPT ![p] = @ \ Group(p)]
      /\ io' = [io EXCEPT ![p].stage = "append", ![p].seg = NoSeg, ![p].linked = FALSE]

(* fh.write, then stat: a segment over the limit is no longer current. If a *)
(* peer unlinked the open file the rows go nowhere, stat raises and the     *)
(* segment stays current.                                                   *)
AppendWrite(p) ==
  /\ io[p].stage = "opened"
  /\ WriteRows(p, Group(p), FALSE)
  /\ segs' = IF io[p].linked /\ files'[io[p].seg].size > SegLimit
               THEN [segs EXCEPT ![p][GroupDir(p)] = 0]
               ELSE segs
  /\ UNCHANGED <<now, row, buf, pending, threadVars, cmd, clean, lastCleanup, seq,
                 dirsSeen, boundVars>>

(* The write fails part-way (a full disk): some first rows and a fragment    *)
(* reached the file; or the stat after it fails. The exception skips the     *)
(* rollover.                                                                 *)
AppendTorn(p) ==
  /\ io[p].stage = "opened"
  /\ Fault
  /\ \/ \E cut \in Group(p) : WriteRows(p, {e \in Group(p) : e < cut}, TRUE)
     \/ WriteRows(p, Group(p), FALSE)
  /\ UNCHANGED <<now, row, buf, pending, threadVars, cmd, clean, lastCleanup,
                 segVars>>

-----------------------------------------------------------------------------
(* cleanup_segments, at most every CLEANUP_INTERVAL, still under _io_lock.   *)

CleanupDue(p) == now - lastCleanup[p] > CleanupInterval

(* sorted(self._dirs_seen) or [None]; None is the caller's own profile. *)
CleanupDirsUnresolved(p) == IF dirsSeen[p] # {} THEN dirsSeen[p] ELSE {NoHome}
CleanupDirs(p) ==
  IF dirsSeen[p] # {} THEN dirsSeen[p]
  ELSE {IF io[p].owner = "cmd" THEN cmd[p].home ELSE DefaultHome}

CleanupStart(p) ==
  /\ io[p].stage = "append"
  /\ batch[p] = {}
  /\ CleanupDue(p)
  /\ lastCleanup' = [lastCleanup EXCEPT ![p] = now]
  /\ clean' = [clean EXCEPT ![p] = [NoCleanup EXCEPT !.todo = CleanupDirs(p)]]
  /\ io' = [io EXCEPT ![p].stage = "clean"]
  /\ UNCHANGED <<now, row, buf, pending, threadVars, cmd, batch, segVars, diskVars, gone,
                 boundVars>>

(* now was read when _write_pending decided to clean up. *)
Expired(p, f) == files[f].mtime < lastCleanup[p] - Retention - Grace

(* No file is missed, or those in S are: a stat, or the whole listing, fails. *)
Missing(S) == IF S = {} THEN UNCHANGED boundVars ELSE Fault

(* persisted_files and the stat of each: what is expired will be deleted,   *)
(* the rest counts against the budget with the size it has now. A file      *)
(* without a stat is left out.                                              *)
CleanupScan(p) ==
  /\ io[p].stage = "clean"
  /\ \E d \in clean[p].todo : \E missed \in SUBSET InDir(d) :
       LET seen == InDir(d) \ missed
           doomed == {f \in seen : Expired(p, f) /\ ~IsCurrent(p, f)}
       IN  /\ Missing(missed)
           /\ clean' = [clean EXCEPT ![p] =
                [todo |-> @.todo \ {d}, dir |-> d, doomed |-> doomed,
                 keep |-> Stats(seen \ doomed), failed |-> @.failed \cup missed]]
  /\ io' = [io EXCEPT ![p].stage = "delete"]
  /\ UNCHANGED <<now, row, buf, pending, threadVars, cmd, batch, lastCleanup, segVars,
                 diskVars, gone>>

(* A peer that has the file open keeps writing to an unlinked file. *)
Unlink(f) ==
  /\ files' = [files EXCEPT ![f] = NoFile]
  /\ stamp' = stamp
  /\ gone' = gone \cup files[f].rows

Cut(q, f, r) == IF r.seg = f THEN [r EXCEPT !.linked = FALSE] ELSE r

(* _unlink swallows what goes wrong: the cleanup goes on as if f were gone.  *)
Remove(p, f, rest) ==
  \/ /\ Unlink(f)
     /\ io' = [q \in Procs |-> Cut(q, f, io[q])]
     /\ clean' = [clean EXCEPT ![p] = rest]
     /\ UNCHANGED boundVars
  \/ /\ Fault
     /\ clean' = [clean EXCEPT ![p] = [rest EXCEPT !.failed = @ \cup {f}]]
     /\ UNCHANGED <<diskVars, gone, io>>

DeleteExpired(p) ==
  /\ io[p].stage = "delete"
  /\ \E f \in clean[p].doomed :
       Remove(p, f, [clean[p] EXCEPT !.doomed = @ \ {f}])
  /\ UNCHANGED <<now, row, buf, pending, threadVars, cmd, batch, lastCleanup, segVars>>

(* The sizes are those the scan saw, which a peer's writes may have made     *)
(* stale. Oldest first, skipping the segment this process is writing.        *)
Victims(p) == {k \in clean[p].keep : ~IsCurrent(p, k.seg)}

OverBudgetReached(p) == Total(clean[p].keep) >= MaxBytes
OverBudgetByTwo(p) == Total(clean[p].keep) > MaxBytes + 1
OverBudget(p) == Total(clean[p].keep) > MaxBytes

DeleteOldest(p) ==
  /\ io[p].stage = "delete"
  /\ clean[p].doomed = {}
  /\ OverBudget(p)
  /\ \E k \in Victims(p) :
       /\ \A other \in Victims(p) : k.nth <= other.nth
       /\ Remove(p, k.seg, [clean[p] EXCEPT !.keep = @ \ {k}])
  /\ UNCHANGED <<now, row, buf, pending, threadVars, cmd, batch, lastCleanup, segVars>>

CleanupDone(p) ==
  /\ io[p].stage = "delete"
  /\ clean[p].doomed = {}
  /\ ~OverBudget(p) \/ Victims(p) = {}
  /\ clean' = [clean EXCEPT ![p] = [NoCleanup EXCEPT !.todo = clean[p].todo,
                                                  !.failed = clean[p].failed]]
  /\ io' = [io EXCEPT ![p].stage = "clean"]
  /\ UNCHANGED <<now, row, buf, pending, threadVars, cmd, batch, lastCleanup, segVars,
                 diskVars, gone, boundVars>>

(* Release _io_lock and return to the caller. *)
WriteEnd(p) ==
  /\ \/ io[p].stage = "append" /\ batch[p] = {} /\ ~CleanupDue(p)
     \/ io[p].stage = "clean" /\ clean[p].todo = {}
  /\ io' = [io EXCEPT ![p] = Unlocked]
  /\ thr' = IF io[p].owner = "flusher" THEN [thr EXCEPT ![p] = "top"] ELSE thr
  /\ cmd' = IF io[p].owner = "cmd" THEN [cmd EXCEPT ![p].pc = "snapshot"] ELSE cmd
  /\ stp' = IF io[p].owner = "stop" THEN [stp EXCEPT ![p] = "done"] ELSE stp
  /\ UNCHANGED <<now, row, buf, pending, hook, wake, stopSet, batch, clean,
                 lastCleanup, segVars, diskVars, gone, boundVars>>

-----------------------------------------------------------------------------
(* stop(), on unload and at interpreter exit; it may be called again.        *)

StopCall(p) ==
  /\ p \in Stoppable
  /\ stp[p] \in {"no", "done", "raised"}
  /\ stopSet' = [stopSet EXCEPT ![p] = TRUE]
  /\ wake' = [wake EXCEPT ![p] = TRUE]
  /\ stp' = [stp EXCEPT ![p] = "join"]
  /\ UNCHANGED <<now, row, buf, pending, hook, thr, cmd, writerVars, segVars, diskVars,
                 gone, boundVars>>

(* join() raises RuntimeError for a thread that was created but not started; *)
(* otherwise it ends with the thread or after its two seconds.               *)
StopJoin(p) ==
  /\ stp[p] = "join"
  /\ stp' = [stp EXCEPT ![p] = IF thr[p] = "created" THEN "raised" ELSE "flush"]
  /\ UNCHANGED <<now, row, buf, pending, hook, thr, wake, stopSet, cmd, writerVars,
                 segVars, diskVars, gone, boundVars>>

-----------------------------------------------------------------------------
(* freeze_detailed(): flush, copy this profile's memory, read its directory. *)

FreezeCall(p, h) ==
  /\ p \in Readers
  /\ cmd[p].pc = "idle"
  /\ cmd' = [cmd EXCEPT ![p] =
       [NoCommand EXCEPT !.pc = "flush", !.home = h,
          !.asked = HomeOf(Ids, h) \cap ({e \in Ids : row[e].proc = p} \cup OnDisk)]]
  /\ UNCHANGED <<now, row, buf, pending, threadVars, writerVars, segVars, diskVars, gone,
                 boundVars>>

(* Only this profile's events leave the deque. *)
MemoryOfAll(p) == Trimmed(buf[p], row)
MemoryOf(p) == HomeOf(Trimmed(buf[p], row), cmd[p].home)

FlushSkipped(p) == cmd[p].pc \in {"flush", "snapshot"}
Flushed(p) == cmd[p].pc = "snapshot"

FreezeMemory(p) ==
  /\ Flushed(p)
  /\ buf' = [buf EXCEPT ![p] = Trimmed(@, row)]
  /\ cmd' = [cmd EXCEPT ![p] = [@ EXCEPT !.pc = "read", !.at = now,
                                          !.mem = MemoryOf(p)]]
  /\ UNCHANGED <<now, row, pending, threadVars, writerVars, segVars, diskVars, gone,
                 boundVars>>

(* load_recent_persisted_events, without a lock while the owners append and  *)
(* delete: at most max_bytes, from the ends of the newest files, and only    *)
(* rows inside the retention window. First the files are listed...           *)
FreezeList(p) ==
  /\ cmd[p].pc = "read"
  /\ \E missed \in SUBSET InDir(cmd[p].home) :
       /\ Missing(missed)
       /\ cmd' = [cmd EXCEPT ![p] = [cmd[p] EXCEPT !.pc = "scan", !.failed = missed,
                                       !.listed = Stats(InDir(cmd[p].home) \ missed)]]
  /\ UNCHANGED <<now, row, buf, pending, threadVars, writerVars, segVars, diskVars, gone>>

Budget(c) == MaxBytes - Total(c.read)
Unread(c) == {k \in c.listed : \A r \in c.read : r.seg # k.seg}
Newer(k, other) == other.nth <= k.nth
NextFile(c, k) ==
  /\ c.pc = "scan" /\ Budget(c) > 0
  /\ k \in Unread(c) /\ \A other \in Unread(c) : Newer(k, other)

(* How much of file f may be read: by its size now, and by what is left.     *)
Allowed(c, f) ==
  IF files[f].live /\ files[f].mtime >= c.at - Retention
    THEN Min({Budget(c), files[f].size}) ELSE 0

(* ... then one after the other, the newest first, is given its share of the *)
(* budget by the size that a stat shows...                                   *)
FreezeStat(p) ==
  /\ \E k \in cmd[p].listed :
       /\ NextFile(cmd[p], k)
       /\ cmd' = [cmd EXCEPT ![p] =
            [cmd[p] EXCEPT !.pc = IF Allowed(cmd[p], k.seg) = 0 THEN "scan" ELSE "tail",
                           !.seg = k.seg,
                           !.read = @ \cup {[k EXCEPT !.size = Allowed(cmd[p], k.seg)]}]]
  /\ UNCHANGED <<now, row, buf, pending, threadVars, writerVars, segVars, diskVars, gone,
                 boundVars>>

(* ... and is read to that length, by a second stat, from the end. A seek    *)
(* into the file drops the line it lands in, also at its first byte.         *)
InTailAlways(f, e, allowed) == files[f].start[e] > files[f].size - allowed
InTail(f, e, allowed) ==
  files[f].size <= allowed \/ files[f].start[e] > files[f].size - allowed

TailRows(c) ==
  {e \in files[c.seg].rows :
     /\ row[e].ts >= c.at - Retention
     /\ \E r \in c.read : r.seg = c.seg /\ InTail(c.seg, e, r.size)}

FreezeTail(p) ==
  /\ cmd[p].pc = "tail"
  /\ cmd' = [cmd EXCEPT ![p] = [cmd[p] EXCEPT !.pc = "scan",
                                                !.disk = @ \cup TailRows(cmd[p])]]
  /\ UNCHANGED <<now, row, buf, pending, threadVars, writerVars, segVars, diskVars, gone,
                 boundVars>>

(* A file that is there and cannot be read is passed over. *)
FreezeUnread(p) ==
  /\ Fault
  /\ \/ \E k \in cmd[p].listed :
          /\ NextFile(cmd[p], k)
          /\ cmd' = [cmd EXCEPT ![p] =
               [cmd[p] EXCEPT !.read = @ \cup {[k EXCEPT !.size = 0]},
                              !.failed = @ \cup {k.seg}]]
     \/ /\ cmd[p].pc = "tail"
        /\ cmd' = [cmd EXCEPT ![p] = [cmd[p] EXCEPT !.pc = "scan",
                                                      !.failed = @ \cup {cmd[p].seg}]]
  /\ UNCHANGED <<now, row, buf, pending, threadVars, writerVars, segVars, diskVars, gone>>

FreezeMerge(p) ==
  /\ cmd[p].pc = "scan"
  /\ Budget(cmd[p]) <= 0 \/ Unread(cmd[p]) = {}
  /\ cmd' = [cmd EXCEPT ![p] =
       [cmd[p] EXCEPT !.pc = "done",
                      !.out = Newest(cmd[p].mem \cup Newest(cmd[p].disk, MaxEvents), MaxEvents)]]
  /\ UNCHANGED <<now, row, buf, pending, threadVars, writerVars, segVars, diskVars, gone,
                 boundVars>>

FreezeReturn(p) ==
  /\ cmd[p].pc = "done"
  /\ cmd' = [cmd EXCEPT ![p] = NoCommand]
  /\ UNCHANGED <<now, row, buf, pending, threadVars, writerVars, segVars, diskVars, gone,
                 boundVars>>

-----------------------------------------------------------------------------
(* The environment: the clock, and a process that dies and is started again  *)
(* (or exits after stop()): whatever it had in memory is gone.               *)

Tick ==
  /\ now < MaxTime
  /\ now' = now + 1
  /\ UNCHANGED <<row, buf, pending, threadVars, cmd, writerVars, segVars, diskVars, gone,
                 boundVars>>

Never == -(CleanupInterval + 1)

Crash(p) ==
  /\ crashes < MaxCrashes
  /\ crashes' = crashes + 1
  /\ gone' = gone \cup pending[p] \cup batch[p]
  /\ buf' = [buf EXCEPT ![p] = {}]
  /\ pending' = [pending EXCEPT ![p] = {}]
  /\ hook' = [hook EXCEPT ![p] = [t \in Hooks |-> "idle"]]
  /\ thr' = [thr EXCEPT ![p] = "none"]
  /\ wake' = [wake EXCEPT ![p] = FALSE]
  /\ stopSet' = [stopSet EXCEPT ![p] = FALSE]
  /\ stp' = [stp EXCEPT ![p] = "no"]
  /\ cmd' = [cmd EXCEPT ![p] = NoCommand]
  /\ io' = [io EXCEPT ![p] = Unlocked]
  /\ batch' = [batch EXCEPT ![p] = {}]
  /\ clean' = [clean EXCEPT ![p] = NoCleanup]
  /\ lastCleanup' = [lastCleanup EXCEPT ![p] = Never]
  /\ segs' = [segs EXCEPT ![p] = [d \in Homes |-> 0]]
  /\ dirsSeen' = [dirsSeen EXCEPT ![p] = {}]
  /\ UNCHANGED <<now, row, seq, diskVars, faults>>

-----------------------------------------------------------------------------

Init ==
  /\ now = 0
  /\ row = <<>>
  /\ buf = [p \in Procs |-> {}]
  /\ pending = [p \in Procs |-> {}]
  /\ hook = [p \in Procs |-> [t \in Hooks |-> "idle"]]
  /\ thr = [p \in Procs |-> "none"]
  /\ wake = [p \in Procs |-> FALSE]
  /\ stopSet = [p \in Procs |-> FALSE]
  /\ stp = [p \in Procs |-> "no"]
  /\ cmd = [p \in Procs |-> NoCommand]
  /\ io = [p \in Procs |-> Unlocked]
  /\ batch = [p \in Procs |-> {}]
  /\ clean = [p \in Procs |-> NoCleanup]
  /\ lastCleanup = [p \in Procs |-> Never]
  /\ segs = [p \in Procs |-> [d \in Homes |-> 0]]
  /\ seq = [p \in Procs |-> 0]
  /\ dirsSeen = [p \in Procs |-> {}]
  /\ files = [f \in SegId |-> NoFile]
  /\ stamp = 1
  /\ gone = {}
  /\ faults = 0
  /\ crashes = 0

HookStep(p) ==
  \/ \E t \in Hooks, h \in Profiles : Record(p, t, h) \/ RecordAstray(p, t, h)
  \/ \E t \in Hooks : EnsureFlusher(p, t) \/ StartThread(p, t)
  \/ RequestFlush(p)

WriteStep(p) ==
  \/ \E o \in Owners : TakePending(p, o)
  \/ AppendOpen(p) \/ AppendFails(p) \/ AppendWrite(p) \/ AppendTorn(p)
  \/ CleanupStart(p) \/ CleanupScan(p) \/ DeleteExpired(p) \/ DeleteOldest(p)
  \/ CleanupDone(p) \/ WriteEnd(p)

CommandStep(p) ==
  \/ \E h \in Profiles : FreezeCall(p, h)
  \/ FreezeMemory(p) \/ FreezeList(p) \/ FreezeStat(p) \/ FreezeTail(p)
  \/ FreezeUnread(p) \/ FreezeMerge(p) \/ FreezeReturn(p)

Next ==
  \/ \E p \in Procs : HookStep(p)
  \/ \E p \in Procs : FlusherTop(p) \/ FlusherWake(p)
  \/ \E p \in Procs : WriteStep(p)
  \/ \E p \in Procs : StopCall(p) \/ StopJoin(p)
  \/ \E p \in Procs : CommandStep(p)
  \/ \E p \in Procs : Crash(p)
  \/ Tick

Spec == Init /\ [][Next]_vars

(* The recorder implements the evidence log: a row is held while it is in    *)
(* _pending or in a writer's batch, and shelved while a segment shows it.    *)
Log == INSTANCE EvidenceLog WITH
  home  <- [e \in Ids |-> row[e].home],
  held  <- UNION {pending[p] \cup batch[p] : p \in Procs},
  shelf <- [h \in Homes |-> UNION {files[f].rows : f \in {g \in SegId : g[2] = h}}],
  gone  <- gone

(* Threads, locks, segments, cleanup and restarts do no more to an event     *)
(* than the evidence log allows.                                             *)
ImplementsLog == Log!Spec

(* A hook thread finishes record(), the flusher's wait times out, whoever    *)
(* holds _io_lock finishes and releases it, and a waiter gets it in the end. *)
Fairness ==
  \A p \in Procs :
    /\ \A t \in Hooks : WF_vars(EnsureFlusher(p, t)) /\ WF_vars(StartThread(p, t))
    /\ WF_vars(FlusherTop(p) \/ FlusherWake(p))
    /\ SF_vars(TakePending(p, "flusher"))
    /\ WF_vars(AppendOpen(p) \/ AppendWrite(p) \/ CleanupStart(p) \/ CleanupScan(p)
                 \/ DeleteExpired(p) \/ DeleteOldest(p) \/ CleanupDone(p) \/ WriteEnd(p))

FairSpec == Spec /\ Fairness

-----------------------------------------------------------------------------
(* Properties.                                                               *)

ThreadStates == {"none", "created", "top", "waiting", "flush", "exited"}
RowType == [profile : Homes, home : Homes, ts : Nat, proc : Procs]
StatType == [seg : SegId, size : Nat, nth : Nat]
FileType == [live : BOOLEAN, rows : SUBSET Ids, start : [1..NEvents -> Nat], size : Nat,
             mtime : Nat, nth : Nat, torn : BOOLEAN]
CommandType == [pc : {"idle", "flush", "snapshot", "read", "scan", "tail", "done"},
                home : Homes \cup {NoHome}, asked : SUBSET Ids, at : Nat, mem : SUBSET Ids,
                listed : SUBSET StatType, read : SUBSET StatType, seg : SegId \cup {NoSeg},
                disk : SUBSET Ids, failed : SUBSET SegId, out : SUBSET Ids]
LockType == [owner : Owners \cup {"free"},
             stage : {"none", "append", "opened", "clean", "delete"},
             seg : SegId \cup {NoSeg}, linked : BOOLEAN]
CleanupType == [todo : SUBSET Homes, dir : Homes \cup {NoHome}, doomed : SUBSET SegId,
                keep : SUBSET StatType, failed : SUBSET SegId]

(* Types. *)
TypeOK ==
  /\ now \in Nat
  /\ row \in Seq(RowType) /\ Len(row) <= NEvents
  /\ buf \in [Procs -> SUBSET Ids]
  /\ pending \in [Procs -> SUBSET Ids]
  /\ batch \in [Procs -> SUBSET Ids]
  /\ hook \in [Procs -> [Hooks -> {"idle", "recorded", "starting"}]]
  /\ thr \in [Procs -> ThreadStates]
  /\ wake \in [Procs -> BOOLEAN]
  /\ stopSet \in [Procs -> BOOLEAN]
  /\ stp \in [Procs -> {"no", "join", "flush", "done", "raised"}]
  /\ cmd \in [Procs -> CommandType]
  /\ io \in [Procs -> LockType]
  /\ clean \in [Procs -> CleanupType]
  /\ lastCleanup \in [Procs -> Int]
  /\ segs \in [Procs -> [Homes -> 0..MaxSegs]]
  /\ seq \in [Procs -> 0..MaxSegs]
  /\ dirsSeen \in [Procs -> SUBSET Homes]
  /\ files \in [SegId -> FileType] /\ stamp \in Nat
  /\ gone \subseteq Ids
  /\ faults \in Nat /\ crashes \in Nat

(* A row is in one place at a time - some process's _pending, the batch it is *)
(* writing, or one segment - never in two, so no event is persisted twice     *)
(* and a take-and-append is never repeated.                                   *)
WrittenOnce ==
  /\ \A p, q \in Procs : pending[p] \cap batch[q] = {}
  /\ \A p, q \in Procs : p # q => (pending[p] \cap pending[q] = {} /\ batch[p] \cap batch[q] = {})
  /\ \A p \in Procs, f \in SegId : (pending[p] \cup batch[p]) \cap files[f].rows = {}
  /\ \A f, g \in SegId : f # g => files[f].rows \cap files[g].rows = {}

(* A row is in a segment of the process that recorded it and of the directory *)
(* that its hook thread resolved, although the flusher runs outside every     *)
(* profile scope: that of its own profile or, when that could not be          *)
(* resolved, the working directory - never that of another profile.           *)
FiledByProfile ==
  \A f \in SegId : \A e \in files[f].rows :
    /\ row[e].proc = f[1] /\ row[e].home = f[2]
    /\ f[2] \in {row[e].profile, Cwd}

(* No silent loss: a recorded row is awaiting the flusher, being written, on  *)
(* disk, or gone for a reason the code accepts (recorder stopped, I/O error,  *)
(* segment deleted, process death); in particular clearing and refilling      *)
(* _pending around a write drops nothing.                                     *)
Accounted ==
  \A e \in Ids :
    \/ e \in gone \cup OnDisk
    \/ \E p \in Procs : e \in pending[p] \cup batch[p]

(* After stop() has returned, every row accepted before it is out of memory:  *)
(* none in _pending and none in another thread's unfinished batch.            *)
StopWrites ==
  \A p \in Procs : stp[p] = "done" => pending[p] = {} /\ batch[p] = {}

(* "Stop the flusher and write whatever is pending": when the thread that     *)
(* called stop() is back in its caller, _pending is empty.                    *)
StopAlwaysWrites ==
  \A p \in Procs : stp[p] \in {"done", "raised"} => pending[p] = {}

(* A full batch is never left to the timeout: while the flusher waits, it has *)
(* been woken (the event is cleared before _pending is taken, not after).     *)
NoLostWakeup ==
  \A p \in Procs :
    Cardinality(pending[p]) >= Batch /\ thr[p] = "waiting" => wake[p]

(* When the files are read, row e is left out of the file listed as k: it     *)
(* lies in the part by which the file grew, counted from its head, since it   *)
(* was listed (a seek into the file drops the line it lands in); or max_bytes *)
(* or more lie between it and the end of the newest file read.                *)
CutOff(c, e, k) ==
  LET size  == files[k.seg].size
      start == files[k.seg].start[e]
      newer == Total({r \in c.read : r.nth >= k.nth /\ r.seg # k.seg})
  IN  /\ e \in files[k.seg].rows
      /\ \/ size > k.size /\ start <= size - k.size
         \/ newer + size > MaxBytes /\ start <= newer + size - MaxBytes

(* freeze_detailed() returns every event filed under its profile when it was  *)
(* called, whichever thread was writing it at that moment and whatever is     *)
(* appended or deleted during the read, unless the row is gone, past          *)
(* retention, crowded out by max_events newer ones, in a file that could not  *)
(* be read, or cut off.                                                       *)
FreezeComplete ==
  [][\A p \in Procs : cmd[p].pc = "scan" /\ cmd'[p].pc = "done" =>
       \A e \in cmd[p].asked :
         \/ e \in cmd'[p].out \cup gone
         \/ row[e].ts < cmd[p].at - Retention
         \/ Cardinality({x \in cmd'[p].out : x > e}) >= MaxEvents
         \/ \E f \in cmd[p].failed : e \in files[f].rows
         \/ \E k \in cmd[p].listed : CutOff(cmd[p], e, k)]_vars

(* A freeze never shows another profile's events. *)
FreezePrivate ==
  \A p \in Procs : \A e \in cmd[p].out : row[e].profile = cmd[p].home

(* With a single process, a directory that has just been cleaned is within    *)
(* recorder_max_bytes, or holds nothing but the segment being written: all    *)
(* of that apart from the files that could not be examined or deleted.        *)
CleanedWithinBudget ==
  \A p \in Procs : io[p].stage = "clean" =>
    \A d \in dirsSeen[p] \ clean[p].todo :
      LET kept == InDir(d) \ clean[p].failed
      IN  SizeOf(kept) <= MaxBytes \/ \A f \in kept : IsCurrent(p, f)

(* Unless the recorder is stopped, a row does not stay in memory for ever:    *)
(* the flusher writes it, or it is gone.                                      *)
EventuallyWritten ==
  \A e \in 1..NEvents :
    e \in Ids ~> (e \in gone \cup OnDisk \/ (e \in Ids /\ stopSet[row[e].proc]))

(* Cleanup "only deletes whole segments (expired, or oldest-first when over   *)
(* the byte budget)": rows leave a directory only when every one of them is   *)
(* past retention or the directory is over recorder_max_bytes at that moment. *)
DeletesExpiredOrOver ==
  [][\A f \in SegId : files[f].rows # {} /\ files'[f].rows = {} =>
       \/ \A e \in files[f].rows : row[e].ts < now - Retention
       \/ SizeOf(InDir(f[2])) > MaxBytes]_vars

=============================================================================
