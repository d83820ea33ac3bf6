------------------------- MODULE IncidentStoreProofs -------------------------
(* Theorems about IncidentStore: its types and that every row of the index  *)
(* has a file, for any number of processes; and, for one process, what the  *)
(* index lists and that prune keeps what is linked upstream.                *)
EXTENDS IncidentStore, FiniteSetTheorems, SequenceTheorems, WellFoundedInduction, TLAPS

-----------------------------------------------------------------------------
(* Types. *)

LEMMA IdleCall == Idle \in OpType /\ Idle.rows = {} /\ Idle.pc = "idle"
  BY LimitsAssumption DEF Idle, OpType, NoId, Unlinked

LEMMA WrittenFile ==
  ASSUME NEW n \in 0..MaxIssue, NEW t \in Nat
  PROVE  Written(n, t) \in FileType
  BY DEF Written, FileType

LEMMA EmptyRows == <<>> \in Seq(Incidents) /\ DOMAIN <<>> = {}
  OBVIOUS

LEMMA StoreInitTyped == StoreInit => StoreTypeOK
  <1> SUFFICES ASSUME StoreInit PROVE StoreTypeOK
    OBVIOUS
  <1>1. inc \in [Incidents -> FileType]
    BY LimitsAssumption DEF StoreInit, FileType, Unlinked
  <1>2. drafts \in [Drafts -> DraftType]
    BY DEF StoreInit, DraftType, Bodies, NoId
  <1>3. op \in [Procs -> OpType]
    BY IdleCall DEF StoreInit
  <1>4. \A p \in Procs : op[p].pc = "idle" /\ op[p].rows = {}
    BY IdleCall DEF StoreInit
  <1> QED
    BY <1>1, <1>2, <1>3, <1>4, EmptyRows DEF StoreInit, StoreTypeOK

(* A step that changes one call, which stays within its type. *)
LEMMA CallTyped ==
  ASSUME StoreTypeOK, NEW p \in Procs, NEW o \in OpType, op' = [op EXCEPT ![p] = o],
         o.pc \in {"save_row", "update_write", "prune_unlink"} => o.id \in Incidents,
         o.rows \subseteq DOMAIN appended', DOMAIN appended \subseteq DOMAIN appended'
  PROVE  /\ op' \in [Procs -> OpType]
         /\ \A q \in Procs : op'[q].pc \in {"save_row", "update_write", "prune_unlink"} =>
              op'[q].id \in Incidents
         /\ \A q \in Procs : op'[q].rows \subseteq DOMAIN appended'
  BY DEF StoreTypeOK

LEMMA RowAppended ==
  ASSUME StoreTypeOK, NEW i \in Incidents, AppendRow(i)
  PROVE  /\ appended' \in Seq(Incidents)
         /\ Len(appended') = Len(appended) + 1
         /\ appended'[Len(appended) + 1] = i
         /\ \A k \in DOMAIN appended : appended'[k] = appended[k]
         /\ DOMAIN appended' = DOMAIN appended \cup {Len(appended) + 1}
         /\ index' \in [made : BOOLEAN, rows : SUBSET DOMAIN appended', dropped : SUBSET Nat]
         /\ index'.rows = index.rows \cup {Len(appended) + 1}
         /\ index'.dropped = index.dropped
  <1>1. /\ appended' = Append(appended, i) /\ appended \in Seq(Incidents)
        /\ index' = [index EXCEPT !.made = TRUE, !.rows = @ \cup {Len(appended) + 1}]
        /\ index \in [made : BOOLEAN, rows : SUBSET DOMAIN appended, dropped : SUBSET Nat]
    BY DEF StoreTypeOK, AppendRow
  <1>2. /\ appended' \in Seq(Incidents)
        /\ Len(appended') = Len(appended) + 1
        /\ appended'[Len(appended) + 1] = i
        /\ \A k \in DOMAIN appended : appended'[k] = appended[k]
        /\ DOMAIN appended' = DOMAIN appended \cup {Len(appended) + 1}
    BY <1>1
  <1>3. /\ index'.rows = index.rows \cup {Len(appended) + 1}
        /\ index'.dropped = index.dropped /\ index'.made = TRUE
    BY <1>1
  <1>4. index' = [made |-> index'.made, rows |-> index'.rows, dropped |-> index'.dropped]
    BY <1>1
  <1> QED
    BY <1>1, <1>2, <1>3, <1>4

LEMMA SaveTyped ==
  ASSUME StoreTypeOK, NEW p \in Procs,
         (\E i \in Incidents : SaveFile(p, i)) \/ SaveRow(p)
  PROVE  StoreTypeOK'
  <1>1. ASSUME NEW i \in Incidents, SaveFile(p, i) PROVE StoreTypeOK'
    <2>1. inc' \in [Incidents -> FileType]
      <3>1. Unlinked \in 0..MaxIssue
        BY LimitsAssumption DEF Unlinked
      <3>2. Written(Unlinked, now) \in FileType
        BY <3>1, WrittenFile DEF StoreTypeOK
      <3> QED
        BY <1>1, <3>2 DEF SaveFile, SaveFirst, FileThenRow, StoreTypeOK
    <2> DEFINE o == [Idle EXCEPT !.pc = "save_row", !.id = i]
    <2>2. o \in OpType /\ o.id = i /\ o.rows = {}
      BY IdleCall DEF OpType
    <2>3. op' = [op EXCEPT ![p] = o] /\ appended' = appended
      BY <1>1 DEF SaveFile, SaveFirst, FileThenRow
    <2> HIDE DEF o
    <2> QED
      BY <1>1, <2>1, <2>2, <2>3, CallTyped
      DEF StoreTypeOK, SaveFile, SaveFirst, FileThenRow
  <1>2. ASSUME SaveRow(p) PROVE StoreTypeOK'
    <2>1. op[p].id \in Incidents
      BY <1>2 DEF SaveRow, StoreTypeOK
    <2> DEFINE o == [Idle EXCEPT !.pc = "save_compact"]
    <2>2. o \in OpType /\ o.rows = {} /\ o.pc = "save_compact"
      BY IdleCall DEF OpType
    <2>3. op' = [op EXCEPT ![p] = o] /\ AppendRow(op[p].id)
      BY <1>2 DEF SaveRow
    <2> HIDE DEF o
    <2> QED
      BY <1>2, <2>1, <2>2, <2>3, CallTyped, RowAppended DEF StoreTypeOK, SaveRow
  <1> QED
    BY <1>1, <1>2

LEMMA CompactTyped ==
  ASSUME StoreTypeOK, NEW p \in Procs, CompactRead(p) \/ ReplaceIndex(p)
  PROVE  StoreTypeOK'
  <1>1. ASSUME CompactRead(p) PROVE StoreTypeOK'
    <2> DEFINE c == [Idle EXCEPT !.pc = "save_replace", !.rows = Compacted(index.rows)]
               o == IF TooLong(index.rows) THEN c ELSE Idle
    <2>1. Compacted(index.rows) \subseteq DOMAIN appended /\ DOMAIN appended \subseteq Nat
      BY DEF Compacted, LastKeep, StoreTypeOK
    <2>2. c \in OpType /\ c.pc = "save_replace" /\ c.rows = Compacted(index.rows)
      BY <2>1, IdleCall DEF OpType
    <2>3. o \in OpType /\ o.rows \subseteq DOMAIN appended /\ o.pc \in {"idle", "save_replace"}
      BY <2>1, <2>2, IdleCall
    <2>4. op' = [op EXCEPT ![p] = o] /\ appended' = appended
      BY <1>1 DEF CompactRead
    <2> HIDE DEF o
    <2> QED
      BY <1>1, <2>3, <2>4, CallTyped DEF StoreTypeOK, CompactRead, fileVars
  <1>2. ASSUME ReplaceIndex(p) PROVE StoreTypeOK'
    <2>1. op' = [op EXCEPT ![p] = Idle] /\ appended' = appended
      BY <1>2 DEF ReplaceIndex
    <2>2. index' \in [made : BOOLEAN, rows : SUBSET DOMAIN appended', dropped : SUBSET Nat]
      <3>1. op[p].rows \subseteq DOMAIN appended /\ op[p].dropped \subseteq Nat
        BY DEF StoreTypeOK, OpType
      <3> QED
        BY <1>2, <2>1, <3>1 DEF ReplaceIndex, StoreTypeOK
    <2> QED
      BY <1>2, <2>1, <2>2, IdleCall, CallTyped DEF StoreTypeOK, ReplaceIndex
  <1> QED
    BY <1>1, <1>2

LEMMA UpdateTyped ==
  ASSUME StoreTypeOK, NEW p \in Procs,
         \/ \E i \in Incidents, n \in 0..MaxIssue : LoadForUpdate(p, i, n)
         \/ WriteUpdate(p)
  PROVE  StoreTypeOK'
  <1>1. ASSUME NEW i \in Incidents, NEW n \in 0..MaxIssue, LoadForUpdate(p, i, n)
        PROVE  StoreTypeOK'
    <2> DEFINE o == [Idle EXCEPT !.id = i, !.issue = n, !.pc = "update_write"]
    <2>1. o \in OpType /\ o.id = i /\ o.rows = {}
      BY IdleCall DEF OpType
    <2>2. op' = [op EXCEPT ![p] = o] /\ appended' = appended
      BY <1>1 DEF LoadForUpdate
    <2> HIDE DEF o
    <2> QED
      BY <1>1, <2>1, <2>2, CallTyped DEF StoreTypeOK, LoadForUpdate, fileVars
  <1>2. ASSUME WriteUpdate(p) PROVE StoreTypeOK'
    <2>1. inc' \in [Incidents -> FileType]
      BY <1>2, WrittenFile DEF WriteUpdate, StoreTypeOK, OpType
    <2>2. op' = [op EXCEPT ![p] = Idle] /\ appended' = appended
      BY <1>2 DEF WriteUpdate
    <2> QED
      BY <1>2, <2>1, <2>2, IdleCall, CallTyped DEF StoreTypeOK, WriteUpdate
  <1> QED
    BY <1>1, <1>2

LEMMA PruneStepTyped ==
  ASSUME StoreTypeOK, NEW p \in Procs,
         \/ PruneStart(p) \/ PruneLook(p) \/ PruneUnread(p) \/ PruneUnlink(p)
         \/ PruneOther(p) \/ PruneIndex(p) \/ PruneIndexUnread(p)
  PROVE  StoreTypeOK'
  <1>1. ASSUME PruneStart(p) PROVE StoreTypeOK'
    <2> DEFINE o == [Idle EXCEPT !.pc = "prune", !.todo = Live]
    <2>1. o \in OpType /\ o.pc = "prune" /\ o.rows = {}
      BY IdleCall DEF OpType, Live
    <2>2. op' = [op EXCEPT ![p] = o] /\ appended' = appended
      BY <1>1 DEF PruneStart
    <2> HIDE DEF o
    <2> QED
      BY <1>1, <2>1, <2>2, CallTyped DEF StoreTypeOK, PruneStart, fileVars
  <1>2. ASSUME PruneLook(p) PROVE StoreTypeOK'
    <2>1. op[p] \in OpType /\ op[p].rows \subseteq DOMAIN appended /\ op[p].pc = "prune"
      BY <1>2 DEF PruneLook, StoreTypeOK
    <2>2. PICK i \in op[p].todo, o \in OpType :
            /\ op' = [op EXCEPT ![p] = o]
            /\ o.rows = op[p].rows
            /\ o.pc = "prune" \/ (o.pc = "prune_unlink" /\ o.id = i)
      <3>1. PICK i \in op[p].todo :
              LET rest == [op[p] EXCEPT !.todo = @ \ {i}]
              IN op' = [op EXCEPT ![p] =
                   IF inc[i].state = "live" /\ (~Old(inc[i].mtime) \/ Linked(i)) THEN rest
                   ELSE [rest EXCEPT !.id = i, !.pc = "prune_unlink"]]
        BY <1>2 DEF PruneLook
      <3> DEFINE rest == [op[p] EXCEPT !.todo = @ \ {i}]
                 gone == [rest EXCEPT !.id = i, !.pc = "prune_unlink"]
      <3>2. rest \in OpType /\ rest.rows = op[p].rows /\ rest.pc = "prune"
        BY <2>1 DEF OpType
      <3>3. gone \in OpType /\ gone.rows = op[p].rows /\ gone.pc = "prune_unlink" /\ gone.id = i
        BY <2>1, <3>1 DEF OpType
      <3>4. op' = [op EXCEPT ![p] = rest] \/ op' = [op EXCEPT ![p] = gone]
        BY <3>1
      <3> HIDE DEF rest, gone
      <3> QED
        BY <3>2, <3>3, <3>4
    <2>3. i \in Incidents
      BY <2>1, <2>2 DEF OpType
    <2>4. UNCHANGED <<now, inc, drafts, candidates, index, appended, faults>>
      BY <1>2 DEF PruneLook, fileVars
    <2> QED
      BY <2>1, <2>2, <2>3, <2>4, CallTyped DEF StoreTypeOK
  <1>u. ASSUME PruneUnread(p) PROVE StoreTypeOK'
    <2>1. op[p] \in OpType /\ op[p].rows \subseteq DOMAIN appended /\ op[p].pc = "prune"
      BY <1>u DEF PruneUnread, StoreTypeOK
    <2>2. PICK i \in op[p].todo :
            op' = [op EXCEPT ![p] = [op[p] EXCEPT !.todo = @ \ {i}, !.id = i, !.unread = TRUE,
                                             !.pc = "prune_unlink"]]
      BY <1>u DEF PruneUnread
    <2> DEFINE o == [op[p] EXCEPT !.todo = @ \ {i}, !.id = i, !.unread = TRUE,
                                  !.pc = "prune_unlink"]
    <2>3. o \in OpType /\ o.rows = op[p].rows /\ o.pc = "prune_unlink" /\ o.id = i
          /\ i \in Incidents
      BY <2>1, <2>2 DEF OpType
    <2>4. op' = [op EXCEPT ![p] = o]
      BY <2>2
    <2>5. /\ UNCHANGED <<now, inc, drafts, candidates, index, appended>>
          /\ faults' = faults + 1
      BY <1>u, Zenon DEF PruneUnread, Fault, fileVars
    <2>6. faults' \in Nat
      BY <2>5 DEF StoreTypeOK
    <2> HIDE DEF o
    <2> QED
      BY <2>1, <2>3, <2>4, <2>5, <2>6, CallTyped DEF StoreTypeOK
  <1>3. ASSUME PruneUnlink(p) PROVE StoreTypeOK'
    <2>1. op[p] \in OpType /\ op[p].rows \subseteq DOMAIN appended /\ op[p].id \in Incidents
      BY <1>3 DEF PruneUnlink, StoreTypeOK
    <2> DEFINE o == [op[p] EXCEPT !.pc = "prune", !.id = NoId, !.unread = FALSE,
                                  !.removed = @ \cup {op[p].id}]
    <2>2. o \in OpType /\ o.pc = "prune" /\ o.rows = op[p].rows
      BY <2>1 DEF OpType
    <2>3. inc' \in [Incidents -> FileType]
      BY <1>3 DEF PruneUnlink, StoreTypeOK, FileType
    <2>4. op' = [op EXCEPT ![p] = o] /\ appended' = appended
      BY <1>3 DEF PruneUnlink
    <2> HIDE DEF o
    <2> QED
      BY <1>3, <2>1, <2>2, <2>3, <2>4, CallTyped DEF StoreTypeOK, PruneUnlink
  <1>4. ASSUME PruneOther(p) PROVE StoreTypeOK'
    <2>1. ASSUME NEW d \in Drafts
          PROVE  [drafts EXCEPT ![d].state = "deleted"] \in [Drafts -> DraftType]
      BY DEF StoreTypeOK, DraftType
    <2>2. candidates' \subseteq Nat /\ drafts' \in [Drafts -> DraftType]
      BY <1>4, <2>1 DEF PruneOther, StoreTypeOK, OldDrafts, LiveDrafts, OldCandidates
    <2> QED
      BY <1>4, <2>2 DEF StoreTypeOK, PruneOther
  <1>5. ASSUME PruneIndex(p) PROVE StoreTypeOK'
    <2> DEFINE c == [Idle EXCEPT !.pc = "prune_replace", !.rows = RowsLeft(p)]
               o == IF op[p].removed = {} THEN Idle ELSE c
    <2>1. RowsLeft(p) \subseteq DOMAIN appended /\ DOMAIN appended \subseteq Nat
      BY DEF RowsLeft, StoreTypeOK
    <2>2. c \in OpType /\ c.pc = "prune_replace" /\ c.rows = RowsLeft(p)
      BY <2>1, IdleCall DEF OpType
    <2>3. o \in OpType /\ o.rows \subseteq DOMAIN appended /\ o.pc \in {"idle", "prune_replace"}
      BY <2>1, <2>2, IdleCall
    <2>4. op' = [op EXCEPT ![p] = o] /\ appended' = appended
      BY <1>5 DEF PruneIndex
    <2> HIDE DEF o
    <2> QED
      BY <1>5, <2>3, <2>4, CallTyped DEF StoreTypeOK, PruneIndex, fileVars
  <1>6. ASSUME PruneIndexUnread(p) PROVE StoreTypeOK'
    <2> DEFINE o == [Idle EXCEPT !.pc = "prune_replace", !.dropped = index.rows]
    <2>1. index.rows \in SUBSET Nat
      BY DEF StoreTypeOK
    <2>2. o \in OpType /\ o.rows = {} /\ o.pc = "prune_replace"
      BY <2>1, IdleCall DEF OpType
    <2>3. op' = [op EXCEPT ![p] = o] /\ appended' = appended
      BY <1>6 DEF PruneIndexUnread
    <2>4. faults' \in Nat /\ UNCHANGED <<now, inc, drafts, candidates, index>>
      BY <1>6 DEF PruneIndexUnread, Fault, fileVars, StoreTypeOK
    <2> HIDE DEF o
    <2> QED
      BY <2>2, <2>3, <2>4, CallTyped DEF StoreTypeOK
  <1> QED
    BY <1>1, <1>2, <1>u, <1>3, <1>4, <1>5, <1>6

LEMMA AsideTyped ==
  ASSUME StoreTypeOK,
         \/ \E p \in Procs, d \in Drafts, i \in Incidents : SaveOther(p, d, i)
         \/ \E p \in Procs : Abort(p)
         \/ Tick
         \/ UNCHANGED storeVars
  PROVE  StoreTypeOK'
  <1>1. ASSUME NEW p \in Procs, NEW d \in Drafts, NEW i \in Incidents, SaveOther(p, d, i)
        PROVE  StoreTypeOK'
    <2>1. drafts' \in [Drafts -> DraftType]
      BY <1>1 DEF SaveOther, SaveDraftFile, StoreTypeOK, DraftType, Bodies
    <2>2. candidates' \subseteq Nat
      BY <1>1 DEF SaveOther, SaveCandidateFile, StoreTypeOK
    <2> QED
      BY <1>1, <2>1, <2>2 DEF SaveOther, StoreTypeOK
  <1>2. ASSUME NEW p \in Procs, Abort(p) PROVE StoreTypeOK'
    <2>1. op' = [op EXCEPT ![p] = Idle] /\ appended' = appended
      BY <1>2 DEF Abort
    <2> QED
      BY <1>2, <2>1, IdleCall, CallTyped DEF StoreTypeOK, Abort, Fault, fileVars
  <1>3. CASE Tick
    BY <1>3 DEF Tick, StoreTypeOK, fileVars
  <1>4. CASE UNCHANGED storeVars
    BY <1>4 DEF storeVars, StoreTypeOK, fileVars
  <1> QED
    BY <1>1, <1>2, <1>3, <1>4

LEMMA StoreNextTyped == StoreTypeOK /\ [Next]_storeVars => StoreTypeOK'
  <1>1. 1..MaxIssue \subseteq 0..MaxIssue
    OBVIOUS
  <1> QED
    BY <1>1, SaveTyped, CompactTyped, UpdateTyped, PruneStepTyped, AsideTyped
    DEF Next, Continue

(* Whatever the calls do, the files and the index keep their types, and what *)
(* a call has read are rows that were appended.                              *)
THEOREM StoreTypeCorrect == Spec => []StoreTypeOK
  BY StoreInitTyped, StoreNextTyped, PTL DEF Spec

-----------------------------------------------------------------------------
(* Rows and files, for any number of processes. *)

RowsSaved ==
  /\ \A k \in DOMAIN appended : inc[appended[k]].state # "unused"
  /\ \A p \in Procs : op[p].pc = "save_row" => inc[op[p].id].state # "unused"

(* A step that leaves the number of rows, what was saved and the calls that  *)
(* are about to append alone.                                               *)
LEMMA SavedKept ==
  ASSUME StoreTypeOK, RowsSaved, appended' = appended,
         \A i \in Incidents : inc[i].state # "unused" => inc'[i].state # "unused",
         \A p \in Procs : op'[p].pc = "save_row" =>
            \/ op'[p] = op[p]
            \/ op'[p].id \in Incidents /\ inc'[op'[p].id].state # "unused"
  PROVE  RowsSaved'
  BY DEF RowsSaved, StoreTypeOK

LEMMA StaysSaved ==
  ASSUME StoreTypeOK, [Next]_storeVars
  PROVE  \A i \in Incidents : inc[i].state # "unused" => inc'[i].state # "unused"
  <1>1. inc' = inc => \A i \in Incidents : inc[i].state # "unused" => inc'[i].state # "unused"
    OBVIOUS
  <1>2. ASSUME NEW p \in Procs, NEW i \in Incidents, SaveFile(p, i)
        PROVE  inc' = [inc EXCEPT ![i] = Written(Unlinked, now)]
    BY <1>2 DEF SaveFile, SaveFirst, FileThenRow
  <1>3. ASSUME NEW p \in Procs, WriteUpdate(p)
        PROVE  inc' = [inc EXCEPT ![op[p].id] = Written(op[p].issue, now)]
    BY <1>3 DEF WriteUpdate
  <1>4. ASSUME NEW p \in Procs, PruneUnlink(p)
        PROVE  \A i \in Incidents : inc[i].state # "unused" => inc'[i].state # "unused"
    BY <1>4 DEF PruneUnlink, StoreTypeOK, FileType
  <1>5. ASSUME NEW n, NEW t PROVE Written(n, t).state # "unused"
    BY DEF Written
  <1>6. \/ inc' = inc
        \/ \E p \in Procs, i \in Incidents : SaveFile(p, i)
        \/ \E p \in Procs : WriteUpdate(p) \/ PruneUnlink(p)
    BY DEF Next, Continue, storeVars, fileVars, SaveRow, CompactRead, ReplaceIndex,
           LoadForUpdate, PruneStart, PruneLook, PruneUnread, PruneOther, PruneIndex,
           PruneIndexUnread, SaveOther, Abort, Tick
  <1> QED
    BY <1>1, <1>2, <1>3, <1>4, <1>5, <1>6 DEF StoreTypeOK

(* Which calls a step may leave about to append: the one of a file that was  *)
(* just written, and those that already were.                               *)
LEMMA AboutToAppend ==
  ASSUME StoreTypeOK, [Next]_storeVars, NEW q \in Procs, op'[q].pc = "save_row"
  PROVE  \/ op'[q] = op[q]
         \/ op'[q].id \in Incidents /\ inc'[op'[q].id].state # "unused"
  <1>1. ASSUME NEW p \in Procs, NEW i \in Incidents, SaveFile(p, i)
        PROVE  \/ op'[q] = op[q]
               \/ op'[q].id = i /\ inc'[i].state # "unused"
    <2>1. inc'[i].state # "unused"
      BY <1>1 DEF SaveFile, SaveFirst, FileThenRow, Written, StoreTypeOK
    <2> QED
      BY <1>1, <2>1 DEF SaveFile, StoreTypeOK, Idle
  <1>2. ASSUME NEW p \in Procs, NEW i \in Incidents, NEW n \in 1..MaxIssue,
               LoadForUpdate(p, i, n)
        PROVE  op'[q] = op[q]
    BY <1>2 DEF LoadForUpdate, StoreTypeOK, Idle
  <1>3. ASSUME NEW p \in Procs, SaveRow(p) \/ PruneStart(p)
        PROVE  op'[q] = op[q]
    BY <1>3 DEF SaveRow, PruneStart, StoreTypeOK, Idle
  <1>4. ASSUME NEW p \in Procs, CompactRead(p) \/ PruneIndex(p) \/ PruneIndexUnread(p)
        PROVE  op'[q] = op[q]
    <2> DEFINE c == [Idle EXCEPT !.pc = "save_replace", !.rows = Compacted(index.rows)]
               d == [Idle EXCEPT !.pc = "prune_replace", !.rows = RowsLeft(p)]
               e == [Idle EXCEPT !.pc = "prune_replace", !.dropped = index.rows]
    <2>1. c.pc = "save_replace" /\ d.pc = "prune_replace" /\ e.pc = "prune_replace"
      BY DEF Idle
    <2>2. \/ op' = [op EXCEPT ![p] = Idle] \/ op' = [op EXCEPT ![p] = c]
          \/ op' = [op EXCEPT ![p] = d] \/ op' = [op EXCEPT ![p] = e]
      BY <1>4 DEF CompactRead, PruneIndex, PruneIndexUnread
    <2> HIDE DEF c, d, e
    <2> QED
      BY <2>1, <2>2, IdleCall DEF StoreTypeOK
  <1>5. ASSUME NEW p \in Procs, ReplaceIndex(p) \/ WriteUpdate(p) \/ Abort(p)
        PROVE  op'[q] = op[q]
    <2>1. op' = [op EXCEPT ![p] = Idle]
      BY <1>5 DEF ReplaceIndex, WriteUpdate, Abort
    <2> QED
      BY <2>1, IdleCall DEF StoreTypeOK
  <1>6. ASSUME NEW p \in Procs, PruneLook(p) \/ PruneUnread(p) PROVE op'[q] = op[q]
    BY <1>6 DEF PruneLook, PruneUnread, StoreTypeOK, OpType
  <1>7. ASSUME NEW p \in Procs, PruneUnlink(p) PROVE op'[q] = op[q]
    BY <1>7 DEF PruneUnlink, StoreTypeOK, OpType
  <1>8. ASSUME \/ \E p \in Procs : PruneOther(p)
               \/ \E p \in Procs, d \in Drafts, i \in Incidents : SaveOther(p, d, i)
               \/ Tick \/ UNCHANGED storeVars
        PROVE  op'[q] = op[q]
    BY <1>8 DEF PruneOther, SaveOther, Tick, storeVars
  <1> QED
    BY <1>1, <1>2, <1>3, <1>4, <1>5, <1>6, <1>7, <1>8 DEF Next, Continue

LEMMA NextSaved ==
  ASSUME StoreTypeOK, RowsSaved, [Next]_storeVars
  PROVE  RowsSaved'
  <1>1. CASE appended' = appended
    BY <1>1, SavedKept, StaysSaved, AboutToAppend
  <1>2. ASSUME NEW p \in Procs, SaveRow(p) PROVE RowsSaved'
    <2>1. op[p].id \in Incidents /\ AppendRow(op[p].id) /\ inc' = inc
      BY <1>2 DEF SaveRow, StoreTypeOK
    <2>2. \A k \in DOMAIN appended' : inc'[appended'[k]].state # "unused"
      BY <1>2, <2>1, RowAppended DEF SaveRow, RowsSaved
    <2> QED
      BY <2>1, <2>2, AboutToAppend DEF RowsSaved
  <1>3. appended' = appended \/ \E p \in Procs : SaveRow(p)
    BY DEF Next, Continue, storeVars, SaveFile, SaveFirst, FileThenRow, CompactRead,
           ReplaceIndex, LoadForUpdate, WriteUpdate, PruneStart, PruneLook, PruneUnread,
           PruneUnlink, PruneOther, PruneIndex, PruneIndexUnread, SaveOther, Abort, Tick
  <1> QED
    BY <1>1, <1>2, <1>3

LEMMA SavedInductive == Spec => [](StoreTypeOK /\ RowsSaved)
  <1>1. StoreInit => StoreTypeOK /\ RowsSaved
    BY StoreInitTyped, IdleCall DEF StoreInit, RowsSaved
  <1> QED
    BY <1>1, StoreNextTyped, NextSaved, PTL DEF Spec

(* The index never names an incident that was not saved: save_incident       *)
(* writes the file before the row, and neither a compaction nor a prune      *)
(* invents a row, however long ago it read the index.                        *)
THEOREM RowsAreOfFiles == Spec => []RowsHaveFiles
  <1>1. StoreTypeOK /\ RowsSaved => RowsHaveFiles
    BY DEF StoreTypeOK, RowsSaved, RowsHaveFiles
  <1> QED
    BY <1>1, SavedInductive, PTL

-----------------------------------------------------------------------------
(* One process. Its calls follow one another, so that what a call has read   *)
(* is still true when it writes; only Abort cuts one short.                  *)

Replacing(p) == op[p].pc \in {"save_replace", "prune_replace"}

(* The call works on a file that is there; prune has deleted what it counts  *)
(* as removed, and deletes no linked incident that it could read.            *)
Working(p) ==
  /\ op[p].pc \notin {"prune", "prune_unlink"} => op[p].removed = {}
  /\ \A i \in op[p].removed : inc[i].state = "deleted"
  /\ op[p].pc \in {"save_row", "update_write"} => inc[op[p].id].state = "live"
  /\ op[p].pc = "prune_unlink" /\ inc[op[p].id].state = "live" =>
       inc[op[p].id].issue = Unlinked \/ op[p].unread

ListsLive(p) ==
  faults = 0 =>
    /\ \A k \in index.rows :
         \/ inc[appended[k]].state = "live"
         \/ appended[k] \in op[p].removed
         \/ op[p].pc = "prune_replace"
    /\ Replacing(p) => \A k \in op[p].rows : inc[appended[k]].state = "live"

Recent(rows, dropped) ==
  \A k \in DOMAIN appended \ dropped :
    Len(appended) - k < Keep /\ inc[appended[k]].state = "live" => k \in rows

KeepsRecent(p) ==
  /\ Recent(index.rows, index.dropped)
  /\ Replacing(p) => Recent(op[p].rows, index.dropped \cup op[p].dropped)

(* A row appended by the save that is under way is not compacted yet.        *)
Extra(p) == IF op[p].pc \in {"save_compact", "save_replace"} THEN 1 ELSE 0

Bounded(p) ==
  /\ Cardinality(index.rows) <= CompactAt + faults + Extra(p)
  /\ Replacing(p) => op[p].rows \subseteq index.rows
  /\ op[p].pc = "save_replace" => Cardinality(op[p].rows) <= Keep

AloneInv(p) ==
  StoreTypeOK /\ RowsSaved /\ Working(p) /\ ListsLive(p) /\ KeepsRecent(p) /\ Bounded(p)

LEMMA RowsFinite ==
  ASSUME StoreTypeOK, NEW rows, rows \subseteq DOMAIN appended
  PROVE  IsFiniteSet(rows) /\ Cardinality(rows) \in Nat
  <1>1. DOMAIN appended = 1..Len(appended) /\ Len(appended) \in Int
    BY DEF StoreTypeOK
  <1>2. IsFiniteSet(1..Len(appended))
    BY <1>1, FS_Interval
  <1>3. IsFiniteSet(rows)
    BY <1>1, <1>2, FS_Subset
  <1> QED
    BY <1>3, FS_CardinalityType

(* What a compaction keeps is at most INDEX_KEEP rows: those after its       *)
(* first one, and that one.                                                  *)
LEMMA KeptFew ==
  ASSUME StoreTypeOK, NEW rows, rows \subseteq DOMAIN appended
  PROVE  Cardinality(LastKeep(rows)) <= Keep
  <1>1. LastKeep(rows) \subseteq rows /\ rows \subseteq Nat
    BY DEF LastKeep, StoreTypeOK
  <1>2. Keep \in Nat \ {0}
    BY IndexAssumption
  <1>3. CASE LastKeep(rows) = {}
    BY <1>2, <1>3, FS_EmptySet
  <1>4. CASE LastKeep(rows) # {}
    <2>1. PICK m \in LastKeep(rows) : \A k \in LastKeep(rows) : m <= k
      <3>1. PICK m \in LastKeep(rows) :
              \A k \in LastKeep(rows) : <<k, m>> \notin OpToRel(<, Nat)
        BY <1>1, <1>4, NatLessThanWellFounded, WFMin
      <3>2. \A k \in LastKeep(rows) : k \in Nat /\ m \in Nat
        BY <1>1
      <3>3. ASSUME NEW k \in LastKeep(rows), k < m PROVE <<k, m>> \in OpToRel(<, Nat)
        BY <3>2, <3>3 DEF OpToRel
      <3>4. \A k \in LastKeep(rows) : ~(k < m)
        BY <3>1, <3>3, Zenon
      <3> QED
        BY <3>2, <3>4
    <2>2. LastKeep(rows) \subseteq After(rows, m) \cup {m}
      BY <1>1, <2>1 DEF After
    <2>3. After(rows, m) \subseteq DOMAIN appended /\ m \notin After(rows, m)
      BY <1>1 DEF After
    <2>4. IsFiniteSet(After(rows, m)) /\ Cardinality(After(rows, m)) \in Nat
      BY <2>3, RowsFinite
    <2>5. IsFiniteSet(After(rows, m) \cup {m})
          /\ Cardinality(After(rows, m) \cup {m}) = Cardinality(After(rows, m)) + 1
      BY <2>3, <2>4, FS_AddElement
    <2>6. Cardinality(LastKeep(rows)) <= Cardinality(After(rows, m) \cup {m})
      BY <2>2, <2>5, FS_Subset
    <2>7. Cardinality(After(rows, m)) < Keep
      BY <2>1 DEF LastKeep
    <2>8. Cardinality(LastKeep(rows)) \in Nat
      BY <1>1, RowsFinite
    <2> QED
      BY <1>2, <2>4, <2>5, <2>6, <2>7, <2>8
  <1> QED
    BY <1>3, <1>4

(* A row among the newest INDEX_KEEP of the index survives a compaction.     *)
LEMMA RecentKept ==
  ASSUME StoreTypeOK, NEW rows, rows \subseteq DOMAIN appended, NEW dropped,
         Recent(rows, dropped)
  PROVE  Recent(LastKeep(rows), dropped)
  <1> SUFFICES ASSUME NEW k \in rows, Len(appended) - k < Keep
               PROVE  Cardinality(After(rows, k)) < Keep
    BY DEF Recent, LastKeep
  <1>1. DOMAIN appended = 1..Len(appended) /\ Len(appended) \in Nat /\ k \in 1..Len(appended)
    BY DEF StoreTypeOK
  <1>2. After(rows, k) \in SUBSET ((k + 1)..Len(appended))
    BY <1>1 DEF After
  <1>3. /\ IsFiniteSet((k + 1)..Len(appended))
        /\ Cardinality((k + 1)..Len(appended)) = Len(appended) - k
    <2>1. k + 1 \in Int /\ Len(appended) \in Int
      BY <1>1
    <2>2. /\ IsFiniteSet((k + 1)..Len(appended))
          /\ Cardinality((k + 1)..Len(appended)) =
               IF k + 1 > Len(appended) THEN 0 ELSE Len(appended) - (k + 1) + 1
      BY <2>1, FS_Interval
    <2> QED
      BY <1>1, <2>2
  <1>4. Cardinality(After(rows, k)) <= Len(appended) - k
    BY <1>2, <1>3, FS_Subset
  <1>5. Cardinality(After(rows, k)) \in Nat
    BY <1>2, <1>3, FS_Subset, FS_CardinalityType
  <1>6. Keep \in Nat
    BY IndexAssumption
  <1> QED
    BY <1>1, <1>4, <1>5, <1>6

-----------------------------------------------------------------------------
(* The steps of a single process. *)

LEMMA InitAlone ==
  ASSUME NEW p, Procs = {p}, StoreInit
  PROVE  AloneInv(p)
  <1>1. op[p].pc = "idle" /\ op[p].removed = {} /\ op[p].rows = {}
    BY DEF StoreInit, Idle
  <1>2. DOMAIN appended = {} /\ index.rows = {} /\ faults = 0
    BY DEF StoreInit
  <1>3. Cardinality(index.rows) = 0 /\ CompactAt \in Nat
    BY <1>2, FS_EmptySet, IndexAssumption
  <1>4. StoreTypeOK /\ RowsSaved
    BY <1>1, <1>2, StoreInitTyped DEF RowsSaved
  <1>5. Working(p) /\ ListsLive(p) /\ KeepsRecent(p)
    BY <1>1, <1>2 DEF Working, ListsLive, KeepsRecent, Recent, Replacing
  <1>6. Bounded(p)
    BY <1>1, <1>2, <1>3 DEF Bounded, Extra, Replacing
  <1> QED
    BY <1>4, <1>5, <1>6 DEF AloneInv

(* A step that changes no incident and no row, and begins or ends no        *)
(* rewrite of the index.                                                    *)
LEMMA QuietAlone ==
  ASSUME NEW p, Procs = {p}, AloneInv(p), [Next]_storeVars,
         UNCHANGED <<inc, index, appended>>, faults' \in {faults, faults + 1},
         ~Replacing(p), ~Replacing(p)', Extra(p) <= Extra(p)',
         op'[p].removed = op[p].removed, Working(p)'
  PROVE  AloneInv(p)'
  <1>1. StoreTypeOK' /\ RowsSaved'
    BY StoreNextTyped, NextSaved DEF AloneInv
  <1>2. ListsLive(p)'
    <2>1. faults \in Nat /\ (faults' = 0 => faults = 0)
      BY DEF AloneInv, StoreTypeOK
    <2> QED
      BY <2>1 DEF AloneInv, ListsLive, Replacing
  <1>3. KeepsRecent(p)'
    BY DEF AloneInv, KeepsRecent, Recent
  <1>4. Bounded(p)'
    <2>1. Cardinality(index.rows) \in Nat /\ CompactAt \in Nat /\ faults \in Nat
      BY RowsFinite, IndexAssumption DEF AloneInv, StoreTypeOK
    <2>2. Extra(p) \in Nat /\ Extra(p)' \in Nat
      BY DEF Extra
    <2> QED
      BY <2>1, <2>2 DEF AloneInv, Bounded, Replacing
  <1> QED
    BY <1>1, <1>2, <1>3, <1>4 DEF AloneInv

LEMMA SaveFileAlone ==
  ASSUME NEW p, Procs = {p}, AloneInv(p), NEW i \in Incidents, SaveFile(p, i)
  PROVE  AloneInv(p)'
  <1>1. [Next]_storeVars /\ StoreTypeOK /\ RowsSaved
    BY DEF Next, AloneInv
  <1>2. StoreTypeOK' /\ RowsSaved'
    BY <1>1, StoreNextTyped, NextSaved
  <1>3. /\ op[p].pc = "idle" /\ inc[i].state = "unused"
        /\ op'[p].pc = "save_row" /\ op'[p].id = i /\ op'[p].removed = {}
        /\ UNCHANGED <<index, appended, faults>>
    BY <1>1 DEF SaveFile, SaveFirst, FileThenRow, Free, Idle, StoreTypeOK
  <1>4. inc'[i].state = "live" /\ \A j \in Incidents \ {i} : inc'[j] = inc[j]
    BY <1>1 DEF SaveFile, SaveFirst, FileThenRow, Written, StoreTypeOK
  <1>5. \A k \in DOMAIN appended : inc'[appended[k]] = inc[appended[k]]
    BY <1>1, <1>3, <1>4 DEF RowsSaved, StoreTypeOK
  <1>6. index.rows \subseteq DOMAIN appended
    BY <1>1 DEF StoreTypeOK
  <1>7. Working(p)'
    BY <1>3, <1>4 DEF Working
  <1>8. ListsLive(p)'
    BY <1>3, <1>5, <1>6 DEF AloneInv, Working, ListsLive, Replacing
  <1>9. KeepsRecent(p)'
    BY <1>3, <1>5 DEF AloneInv, KeepsRecent, Recent, Replacing
  <1>10. Bounded(p)'
    BY <1>3 DEF AloneInv, Bounded, Extra, Replacing
  <1> QED
    BY <1>2, <1>7, <1>8, <1>9, <1>10 DEF AloneInv

LEMMA SaveRowAlone ==
  ASSUME NEW p, Procs = {p}, AloneInv(p), SaveRow(p)
  PROVE  AloneInv(p)'
  <1>1. [Next]_storeVars /\ StoreTypeOK /\ RowsSaved
    BY DEF Next, Continue, AloneInv
  <1>2. StoreTypeOK' /\ RowsSaved'
    BY <1>1, StoreNextTyped, NextSaved
  <1> DEFINE n == Len(appended) + 1
  <1>3. /\ op[p].pc = "save_row" /\ op[p].id \in Incidents /\ op[p].removed = {}
        /\ op'[p].pc = "save_compact" /\ op'[p].removed = {}
        /\ UNCHANGED <<inc, faults>>
    BY <1>1 DEF SaveRow, Idle, StoreTypeOK, AloneInv, Working
  <1>4. /\ DOMAIN appended' = DOMAIN appended \cup {n}
        /\ Len(appended') = n
        /\ appended'[n] = op[p].id
        /\ \A k \in DOMAIN appended : appended'[k] = appended[k]
        /\ index'.rows = index.rows \cup {n} /\ index'.dropped = index.dropped
    BY <1>1, <1>3, RowAppended DEF SaveRow
  <1>5. inc[op[p].id].state = "live"
    BY <1>3 DEF AloneInv, Working
  <1>6. DOMAIN appended = 1..Len(appended) /\ Len(appended) \in Nat /\ index.rows \subseteq DOMAIN appended
    BY <1>1 DEF StoreTypeOK
  <1>7. Working(p)'
    BY <1>3 DEF Working
  <1>8. ListsLive(p)'
    BY <1>3, <1>4, <1>5, <1>6 DEF AloneInv, ListsLive, Replacing
  <1>9. KeepsRecent(p)'
    <2>1. Keep \in Nat
      BY IndexAssumption
    <2>2. ASSUME NEW k \in DOMAIN appended \ index.dropped, n - k < Keep, inc'[appended'[k]].state = "live"
          PROVE  k \in index'.rows
      <3>1. Len(appended) - k < Keep
        BY <1>6, <2>1, <2>2
      <3> QED
        BY <1>3, <1>4, <2>2, <3>1 DEF AloneInv, KeepsRecent, Recent
    <2> QED
      BY <1>3, <1>4, <2>2 DEF KeepsRecent, Recent, Replacing
  <1>10. Bounded(p)'
    <2>1. IsFiniteSet(index.rows) /\ Cardinality(index.rows) \in Nat /\ n \notin index.rows
      BY <1>1, <1>6, RowsFinite
    <2>2. Cardinality(index'.rows) = Cardinality(index.rows) + 1
      BY <1>4, <2>1, FS_AddElement
    <2>3. CompactAt \in Nat /\ faults \in Nat
      BY <1>1, IndexAssumption DEF StoreTypeOK
    <2> QED
      BY <1>3, <2>1, <2>2, <2>3 DEF AloneInv, Bounded, Extra, Replacing
  <1> QED
    BY <1>2, <1>7, <1>8, <1>9, <1>10 DEF AloneInv

(* A rewrite that is about to replace the index with rows it has just read. *)
LEMMA RewriteAlone ==
  ASSUME NEW p, Procs = {p}, AloneInv(p), [Next]_storeVars,
         UNCHANGED <<inc, index, appended>>, faults' \in {faults, faults + 1},
         Replacing(p)', op'[p].removed = {}, Extra(p) <= Extra(p)',
         op'[p].rows \subseteq index.rows,
         Recent(op'[p].rows, index.dropped \cup op'[p].dropped),
         faults = 0 => \A k \in op'[p].rows : inc[appended[k]].state = "live",
         faults = 0 /\ op'[p].pc # "prune_replace" =>
           \A k \in index.rows : inc[appended[k]].state = "live",
         op'[p].pc = "save_replace" => Cardinality(op'[p].rows) <= Keep
  PROVE  AloneInv(p)'
  <1>1. StoreTypeOK' /\ RowsSaved'
    BY StoreNextTyped, NextSaved DEF AloneInv
  <1>2. Working(p)'
    BY DEF Working, Replacing
  <1>3. ListsLive(p)'
    <2>1. faults \in Nat /\ (faults' = 0 => faults = 0)
      BY DEF AloneInv, StoreTypeOK
    <2> QED
      BY <2>1 DEF ListsLive
  <1>4. KeepsRecent(p)'
    BY DEF AloneInv, KeepsRecent, Recent
  <1>5. Bounded(p)'
    <2>1. Cardinality(index.rows) \in Nat /\ CompactAt \in Nat /\ faults \in Nat
      BY RowsFinite, IndexAssumption DEF AloneInv, StoreTypeOK
    <2>2. Extra(p) \in Nat /\ Extra(p)' \in Nat
      BY DEF Extra
    <2> QED
      BY <2>1, <2>2 DEF AloneInv, Bounded, Replacing
  <1> QED
    BY <1>1, <1>2, <1>3, <1>4, <1>5 DEF AloneInv

LEMMA CompactReadAlone ==
  ASSUME NEW p, Procs = {p}, AloneInv(p), CompactRead(p)
  PROVE  AloneInv(p)'
  <1>1. [Next]_storeVars /\ StoreTypeOK /\ index.rows \subseteq DOMAIN appended
    BY DEF Next, Continue, AloneInv, StoreTypeOK
  <1>2. /\ op[p].pc = "save_compact" /\ op[p].removed = {}
        /\ UNCHANGED <<inc, index, appended, faults>>
    BY DEF CompactRead, fileVars, AloneInv, Working
  <1>3. CASE TooLong(index.rows)
    <2>1. /\ op'[p].pc = "save_replace" /\ op'[p].removed = {}
          /\ op'[p].rows = LastKeep(index.rows) /\ op'[p].dropped = {}
      BY <1>1, <1>3 DEF CompactRead, Compacted, Idle, StoreTypeOK
    <2>2. LastKeep(index.rows) \subseteq index.rows
      BY DEF LastKeep
    <2>3. Cardinality(LastKeep(index.rows)) <= Keep
      BY <1>1, KeptFew
    <2>4. Recent(LastKeep(index.rows), index.dropped)
      BY <1>1, RecentKept DEF AloneInv, KeepsRecent
    <2>5. faults = 0 => \A k \in index.rows : inc[appended[k]].state = "live"
      BY <1>2 DEF AloneInv, ListsLive
    <2> QED
      BY <1>1, <1>2, <2>1, <2>2, <2>3, <2>4, <2>5, RewriteAlone DEF Replacing, Extra
  <1>4. CASE ~TooLong(index.rows)
    <2>1. op'[p].pc = "idle" /\ op'[p].removed = {}
      BY <1>1, <1>4 DEF CompactRead, Idle, StoreTypeOK
    <2>2. StoreTypeOK' /\ RowsSaved'
      BY <1>1, StoreNextTyped, NextSaved DEF AloneInv
    <2>3. Working(p)' /\ ListsLive(p)'
      BY <1>2, <2>1 DEF AloneInv, Working, ListsLive, Replacing
    <2>4. KeepsRecent(p)'
      BY <1>2, <2>1 DEF AloneInv, KeepsRecent, Recent, Replacing
    <2>5. Bounded(p)'
      <3>1. Cardinality(index.rows) \in Nat /\ CompactAt \in Nat /\ faults \in Nat
        BY <1>1, RowsFinite, IndexAssumption DEF StoreTypeOK
      <3>2. Cardinality(index.rows) <= CompactAt
        BY <1>4, <3>1 DEF TooLong
      <3> QED
        BY <1>2, <2>1, <3>1, <3>2 DEF Bounded, Extra, Replacing
    <2> QED
      BY <2>2, <2>3, <2>4, <2>5 DEF AloneInv
  <1> QED
    BY <1>3, <1>4

LEMMA ReplaceAlone ==
  ASSUME NEW p, Procs = {p}, AloneInv(p), ReplaceIndex(p)
  PROVE  AloneInv(p)'
  <1>1. [Next]_storeVars /\ StoreTypeOK /\ index.rows \subseteq DOMAIN appended
    BY DEF Next, Continue, AloneInv, StoreTypeOK
  <1>2. StoreTypeOK' /\ RowsSaved'
    BY <1>1, StoreNextTyped, NextSaved DEF AloneInv
  <1>3. /\ Replacing(p) /\ index'.rows = op[p].rows
        /\ index'.dropped = index.dropped \cup op[p].dropped
        /\ op'[p].pc = "idle" /\ op'[p].removed = {}
        /\ UNCHANGED <<inc, appended, faults>>
    BY <1>1 DEF ReplaceIndex, Replacing, Idle, StoreTypeOK
  <1>4. Working(p)'
    BY <1>3 DEF Working
  <1>5. ListsLive(p)'
    BY <1>3 DEF AloneInv, ListsLive, Replacing
  <1>6. KeepsRecent(p)'
    BY <1>3 DEF AloneInv, KeepsRecent, Recent, Replacing
  <1>7. Bounded(p)'
    <2>1. op[p].rows \subseteq DOMAIN appended
      BY <1>1 DEF StoreTypeOK
    <2>2. IsFiniteSet(index.rows) /\ Cardinality(index.rows) \in Nat
          /\ Cardinality(op[p].rows) \in Nat /\ faults \in Nat
      BY <1>1, <2>1, RowsFinite DEF StoreTypeOK
    <2>3. CompactAt \in Nat /\ Keep \in Nat /\ Keep <= CompactAt
      BY IndexAssumption
    <2>4. op[p].rows \subseteq index.rows
      BY <1>3 DEF AloneInv, Bounded
    <2>5. Cardinality(op[p].rows) <= Cardinality(index.rows)
      BY <2>2, <2>4, FS_Subset
    <2>6. Cardinality(op[p].rows) <= CompactAt + faults
      BY <1>3, <2>2, <2>3, <2>5 DEF AloneInv, Bounded, Extra, Replacing
    <2> QED
      BY <1>3, <2>2, <2>3, <2>6 DEF Bounded, Extra, Replacing
  <1> QED
    BY <1>2, <1>4, <1>5, <1>6, <1>7 DEF AloneInv

LEMMA LoadForUpdateAlone ==
  ASSUME NEW p, Procs = {p}, AloneInv(p),
         NEW i \in Incidents, NEW n \in 1..MaxIssue, LoadForUpdate(p, i, n)
  PROVE  AloneInv(p)'
  <1>1. [Next]_storeVars /\ StoreTypeOK
    BY DEF Next, AloneInv
  <1>2. /\ op[p].pc = "idle" /\ op[p].removed = {}
        /\ op'[p].pc = "update_write" /\ op'[p].id = i /\ op'[p].removed = {}
        /\ inc[i].state = "live"
        /\ UNCHANGED <<inc, index, appended, faults>>
    BY <1>1 DEF LoadForUpdate, fileVars, Free, Idle, StoreTypeOK, AloneInv, Working
  <1>3. Working(p)'
    BY <1>2 DEF Working
  <1>4. ~Replacing(p) /\ ~Replacing(p)' /\ Extra(p) = 0 /\ Extra(p)' = 0
    BY <1>2 DEF Replacing, Extra
  <1>5. op'[p].removed = op[p].removed /\ UNCHANGED <<inc, index, appended, faults>>
    BY <1>2
  <1>6. Extra(p) <= Extra(p)'
    BY <1>4
  <1> QED
    BY <1>1, <1>3, <1>4, <1>5, <1>6, QuietAlone

LEMMA WriteUpdateAlone ==
  ASSUME NEW p, Procs = {p}, AloneInv(p), WriteUpdate(p)
  PROVE  AloneInv(p)'
  <1>1. [Next]_storeVars /\ StoreTypeOK
    BY DEF Next, Continue, AloneInv
  <1>2. StoreTypeOK' /\ RowsSaved'
    BY <1>1, StoreNextTyped, NextSaved DEF AloneInv
  <1>3. /\ op[p].pc = "update_write" /\ op[p].removed = {}
        /\ op'[p].pc = "idle" /\ op'[p].removed = {}
        /\ UNCHANGED <<index, appended, faults>>
    BY <1>1 DEF WriteUpdate, Idle, StoreTypeOK, AloneInv, Working
  <1>4. \A j \in Incidents : inc'[j].state = inc[j].state
    BY <1>1, <1>3 DEF WriteUpdate, Written, StoreTypeOK, AloneInv, Working
  <1>5. \A k \in DOMAIN appended : appended[k] \in Incidents
    BY <1>1 DEF StoreTypeOK
  <1>6. index.rows \subseteq DOMAIN appended
    BY <1>1 DEF StoreTypeOK
  <1>7. Working(p)'
    BY <1>3 DEF Working
  <1>8. ListsLive(p)'
    BY <1>3, <1>4, <1>5, <1>6 DEF AloneInv, ListsLive, Replacing
  <1>9. KeepsRecent(p)'
    BY <1>3, <1>4, <1>5 DEF AloneInv, KeepsRecent, Recent, Replacing
  <1>10. Bounded(p)'
    BY <1>3 DEF AloneInv, Bounded, Extra, Replacing
  <1> QED
    BY <1>2, <1>7, <1>8, <1>9, <1>10 DEF AloneInv

LEMMA PruneStartAlone ==
  ASSUME NEW p, Procs = {p}, AloneInv(p), PruneStart(p)
  PROVE  AloneInv(p)'
  <1>1. [Next]_storeVars /\ StoreTypeOK
    BY DEF Next, AloneInv
  <1>2. /\ op[p].pc = "idle" /\ op[p].removed = {}
        /\ op'[p].pc = "prune" /\ op'[p].removed = {}
        /\ UNCHANGED <<inc, index, appended, faults>>
    BY <1>1 DEF PruneStart, fileVars, Free, Idle, StoreTypeOK, AloneInv, Working
  <1>3. Working(p)'
    BY <1>2 DEF Working
  <1>4. ~Replacing(p) /\ ~Replacing(p)' /\ Extra(p) = 0 /\ Extra(p)' = 0
    BY <1>2 DEF Replacing, Extra
  <1>5. op'[p].removed = op[p].removed /\ UNCHANGED <<inc, index, appended, faults>>
    BY <1>2
  <1>6. Extra(p) <= Extra(p)'
    BY <1>4
  <1> QED
    BY <1>1, <1>3, <1>4, <1>5, <1>6, QuietAlone

(* What prune decides to delete is not linked.                              *)
LEMMA LookDecides ==
  ASSUME StoreTypeOK, NEW p \in Procs, PruneLook(p)
  PROVE  /\ op[p].pc = "prune" /\ op'[p].removed = op[p].removed
         /\ \/ op'[p].pc = "prune"
            \/ /\ op'[p].pc = "prune_unlink"
               /\ inc[op'[p].id].state = "live" => inc[op'[p].id].issue = Unlinked
         /\ UNCHANGED <<inc, index, appended, faults>>
  <1>1. op[p] \in OpType /\ op[p].pc = "prune"
    BY DEF StoreTypeOK, PruneLook
  <1>2. PICK i \in op[p].todo :
          LET rest == [op[p] EXCEPT !.todo = @ \ {i}]
          IN op' = [op EXCEPT ![p] =
               IF inc[i].state = "live" /\ (~Old(inc[i].mtime) \/ Linked(i)) THEN rest
               ELSE [rest EXCEPT !.id = i, !.pc = "prune_unlink"]]
    BY DEF PruneLook
  <1> DEFINE rest == [op[p] EXCEPT !.todo = @ \ {i}]
             gone == [rest EXCEPT !.id = i, !.pc = "prune_unlink"]
  <1>3. /\ rest.pc = "prune" /\ gone.pc = "prune_unlink" /\ gone.id = i
        /\ rest.removed = op[p].removed /\ gone.removed = op[p].removed
    BY <1>1 DEF OpType
  <1>4. \/ op' = [op EXCEPT ![p] = rest]
        \/ op' = [op EXCEPT ![p] = gone] /\ ~(inc[i].state = "live" /\ Linked(i))
    BY <1>2
  <1> HIDE DEF rest, gone
  <1> QED
    BY <1>1, <1>3, <1>4 DEF PruneLook, fileVars, StoreTypeOK, Linked

LEMMA PruneLookAlone ==
  ASSUME NEW p, Procs = {p}, AloneInv(p), PruneLook(p)
  PROVE  AloneInv(p)'
  <1>1. [Next]_storeVars /\ StoreTypeOK
    BY DEF Next, Continue, AloneInv
  <1>2. Working(p)'
    BY <1>1, LookDecides DEF AloneInv, Working
  <1> QED
    BY <1>1, <1>2, LookDecides, QuietAlone DEF Replacing, Extra

LEMMA PruneUnreadAlone ==
  ASSUME NEW p, Procs = {p}, AloneInv(p), PruneUnread(p)
  PROVE  AloneInv(p)'
  <1>1. [Next]_storeVars /\ StoreTypeOK
    BY DEF Next, Continue, AloneInv
  <1>2. op[p] \in OpType /\ op[p].pc = "prune"
    BY <1>1 DEF StoreTypeOK, PruneUnread
  <1>3. PICK i \in op[p].todo :
          op' = [op EXCEPT ![p] = [op[p] EXCEPT !.todo = @ \ {i}, !.id = i, !.unread = TRUE,
                                           !.pc = "prune_unlink"]]
    BY DEF PruneUnread
  <1>4. /\ op'[p].pc = "prune_unlink" /\ op'[p].unread /\ op'[p].removed = op[p].removed
        /\ UNCHANGED <<inc, index, appended>> /\ faults' = faults + 1
    BY <1>1, <1>2, <1>3 DEF PruneUnread, Fault, fileVars, StoreTypeOK, OpType
  <1>5. Working(p)'
    BY <1>4 DEF AloneInv, Working
  <1> QED
    BY <1>1, <1>2, <1>4, <1>5, QuietAlone DEF Replacing, Extra

LEMMA PruneUnlinkAlone ==
  ASSUME NEW p, Procs = {p}, AloneInv(p), PruneUnlink(p)
  PROVE  AloneInv(p)'
  <1>1. [Next]_storeVars /\ StoreTypeOK
    BY DEF Next, Continue, AloneInv
  <1>2. StoreTypeOK' /\ RowsSaved'
    BY <1>1, StoreNextTyped, NextSaved DEF AloneInv
  <1> DEFINE i == op[p].id
  <1>3. /\ op[p].pc = "prune_unlink" /\ i \in Incidents
        /\ op'[p].pc = "prune" /\ op'[p].removed = op[p].removed \cup {i}
        /\ UNCHANGED <<index, appended, faults>>
    BY <1>1 DEF PruneUnlink, StoreTypeOK, OpType
  <1>4. inc'[i].state = "deleted" /\ \A j \in Incidents \ {i} : inc'[j] = inc[j]
    BY <1>1, <1>3 DEF PruneUnlink, StoreTypeOK, FileType
  <1>5. \A k \in DOMAIN appended : appended[k] \in Incidents
    BY <1>1 DEF StoreTypeOK
  <1>6. index.rows \subseteq DOMAIN appended /\ op[p].removed \subseteq Incidents
    BY <1>1 DEF StoreTypeOK, OpType
  <1>7. Working(p)'
    BY <1>3, <1>4, <1>6 DEF AloneInv, Working
  <1>8. ListsLive(p)'
    BY <1>3, <1>4, <1>5, <1>6 DEF AloneInv, ListsLive, Replacing
  <1>9. KeepsRecent(p)'
    BY <1>3, <1>4, <1>5 DEF AloneInv, KeepsRecent, Recent, Replacing
  <1>10. Bounded(p)'
    BY <1>3 DEF AloneInv, Bounded, Extra, Replacing
  <1> QED
    BY <1>2, <1>7, <1>8, <1>9, <1>10 DEF AloneInv

LEMMA PruneIndexAlone ==
  ASSUME NEW p, Procs = {p}, AloneInv(p), PruneIndex(p)
  PROVE  AloneInv(p)'
  <1>1. [Next]_storeVars /\ StoreTypeOK
    BY DEF Next, Continue, AloneInv
  <1>2. op[p].pc = "prune" /\ UNCHANGED <<inc, index, appended, faults>>
    BY DEF PruneIndex, FilesPruned, fileVars
  <1>3. index.rows \subseteq DOMAIN appended /\ \A k \in DOMAIN appended : appended[k] \in Incidents
    BY <1>1 DEF StoreTypeOK
  <1>4. CASE op[p].removed = {}
    <2>1. op'[p].pc = "idle" /\ op'[p].removed = {}
      BY <1>1, <1>4 DEF PruneIndex, Idle, StoreTypeOK
    <2>2. Working(p)'
      BY <2>1 DEF Working
    <2>3. ~Replacing(p) /\ ~Replacing(p)' /\ Extra(p) = 0 /\ Extra(p)' = 0
      BY <1>2, <2>1 DEF Replacing, Extra
    <2>4. op'[p].removed = op[p].removed
      BY <1>4, <2>1
    <2> QED
      BY <1>1, <1>2, <2>2, <2>3, <2>4, QuietAlone
  <1>5. CASE op[p].removed # {}
    <2>1. /\ op'[p].pc = "prune_replace" /\ op'[p].removed = {}
          /\ op'[p].rows = RowsLeft(p) /\ op'[p].dropped = {}
      BY <1>1, <1>5 DEF PruneIndex, Idle, StoreTypeOK
    <2>2. RowsLeft(p) \subseteq index.rows
      BY DEF RowsLeft
    <2>3. faults = 0 => \A k \in RowsLeft(p) : inc[appended[k]].state = "live"
      BY <1>2 DEF AloneInv, ListsLive, RowsLeft
    <2>4. Recent(RowsLeft(p), index.dropped)
      <3>1. \A i \in op[p].removed : inc[i].state = "deleted"
        BY DEF AloneInv, Working
      <3>2. Recent(index.rows, index.dropped)
        BY DEF AloneInv, KeepsRecent
      <3> QED
        BY <3>1, <3>2 DEF Recent, RowsLeft
    <2>5. Replacing(p)' /\ Extra(p) = 0 /\ Extra(p)' = 0
      BY <1>2, <2>1 DEF Replacing, Extra
    <2> QED
      BY <1>1, <1>2, <2>1, <2>2, <2>3, <2>4, <2>5, RewriteAlone
  <1> QED
    BY <1>4, <1>5

LEMMA PruneIndexUnreadAlone ==
  ASSUME NEW p, Procs = {p}, AloneInv(p), PruneIndexUnread(p)
  PROVE  AloneInv(p)'
  <1>1. [Next]_storeVars /\ StoreTypeOK
    BY DEF Next, Continue, AloneInv
  <1>2. /\ op[p].pc = "prune" /\ UNCHANGED <<inc, index, appended>> /\ faults' = faults + 1
        /\ op'[p].pc = "prune_replace" /\ op'[p].removed = {}
        /\ op'[p].rows = {} /\ op'[p].dropped = index.rows
    BY <1>1 DEF PruneIndexUnread, FilesPruned, Fault, fileVars, Idle, StoreTypeOK
  <1>3. Recent({}, index.dropped \cup index.rows)
    BY DEF AloneInv, KeepsRecent, Recent
  <1>4. Replacing(p)' /\ Extra(p) = 0 /\ Extra(p)' = 0
    BY <1>2 DEF Replacing, Extra
  <1>5. Extra(p) <= Extra(p)'
    BY <1>4
  <1>6. Recent(op'[p].rows, index.dropped \cup op'[p].dropped)
    BY <1>2, <1>3
  <1>7. /\ op'[p].rows \subseteq index.rows
        /\ \A k \in op'[p].rows : inc[appended[k]].state = "live"
        /\ op'[p].pc # "save_replace"
    BY <1>2
  <1> QED
    BY <1>1, <1>2, <1>4, <1>5, <1>6, <1>7, RewriteAlone

LEMMA AbortAlone ==
  ASSUME NEW p, Procs = {p}, AloneInv(p), Abort(p)
  PROVE  AloneInv(p)'
  <1>1. [Next]_storeVars /\ StoreTypeOK
    BY DEF Next, AloneInv
  <1>2. StoreTypeOK' /\ RowsSaved'
    BY <1>1, StoreNextTyped, NextSaved DEF AloneInv
  <1>3. /\ op'[p].pc = "idle" /\ op'[p].removed = {} /\ faults' = faults + 1
        /\ UNCHANGED <<inc, index, appended>>
    BY <1>1 DEF Abort, Fault, fileVars, Idle, StoreTypeOK
  <1>4. Cardinality(index.rows) \in Nat /\ CompactAt \in Nat /\ faults \in Nat
    BY <1>1, RowsFinite, IndexAssumption DEF StoreTypeOK
  <1>5. Working(p)'
    BY <1>3 DEF Working
  <1>6. ListsLive(p)'
    BY <1>3, <1>4 DEF ListsLive
  <1>7. KeepsRecent(p)'
    BY <1>3 DEF AloneInv, KeepsRecent, Recent, Replacing
  <1>8. Bounded(p)'
    BY <1>3, <1>4 DEF AloneInv, Bounded, Extra, Replacing
  <1> QED
    BY <1>2, <1>5, <1>6, <1>7, <1>8 DEF AloneInv

(* The clock, and steps that touch only candidates and drafts.              *)
LEMMA AsideAlone ==
  ASSUME NEW p, Procs = {p}, AloneInv(p), [Next]_storeVars,
         UNCHANGED <<inc, index, op, appended, faults>>
  PROVE  AloneInv(p)'
  <1>1. StoreTypeOK' /\ RowsSaved'
    BY StoreNextTyped, NextSaved DEF AloneInv
  <1>2. Working(p)' /\ ListsLive(p)'
    BY DEF AloneInv, Working, ListsLive, Replacing
  <1>3. KeepsRecent(p)' /\ Bounded(p)'
    BY DEF AloneInv, KeepsRecent, Recent, Bounded, Extra, Replacing
  <1> QED
    BY <1>1, <1>2, <1>3 DEF AloneInv

LEMMA NextAlone ==
  ASSUME NEW p, Procs = {p}, AloneInv(p), [Next]_storeVars
  PROVE  AloneInv(p)'
  <1>1. ASSUME PruneOther(p) \/ (\E d \in Drafts, i \in Incidents : SaveOther(p, d, i))
               \/ Tick \/ UNCHANGED storeVars
        PROVE  AloneInv(p)'
    BY <1>1, AsideAlone DEF PruneOther, SaveOther, Tick, storeVars, fileVars
  <1> QED
    BY <1>1, SaveFileAlone, SaveRowAlone, CompactReadAlone, ReplaceAlone,
       LoadForUpdateAlone, WriteUpdateAlone, PruneStartAlone, PruneLookAlone,
       PruneUnreadAlone, PruneUnlinkAlone, PruneIndexAlone, PruneIndexUnreadAlone, AbortAlone
    DEF Next, Continue

LEMMA AloneInductive ==
  ASSUME NEW p, Procs = {p}
  PROVE  Spec => []AloneInv(p)
  BY InitAlone, NextAlone, PTL DEF Spec

(* A single process leaves no row of a pruned incident behind, as long as no *)
(* call was cut short: what `contribute` and `issues` list exists.           *)
THEOREM OnlyExistingListed ==
  ASSUME NEW p, Procs = {p}
  PROVE  Spec => []ListedExists
  <1>1. AloneInv(p) => ListedExists
    BY DEF AloneInv, ListsLive, ListedExists
  <1> QED
    BY <1>1, AloneInductive, PTL

(* Of the last INDEX_KEEP rows ever appended, a single process keeps those    *)
(* whose incident exists in the index, whichever calls are cut short, unless  *)
(* a prune could not read the index it rewrote.                               *)
THEOREM NewestListed ==
  ASSUME NEW p, Procs = {p}
  PROVE  Spec => []RecentListed
  <1>1. AloneInv(p) => RecentListed
    BY DEF AloneInv, KeepsRecent, Recent, RecentListed
  <1> QED
    BY <1>1, AloneInductive, PTL

(* With a single process the index stays within INDEX_COMPACT_AT rows, and   *)
(* one for each fault, for every INDEX_KEEP up to that.                      *)
THEOREM IndexStaysBounded ==
  ASSUME NEW p, Procs = {p}
  PROVE  Spec => []IndexBounded
  <1>1. AloneInv(p) => IndexBounded
    <2> SUFFICES ASSUME AloneInv(p), Free(p)
                 PROVE  Cardinality(index.rows) <= CompactAt + faults
      BY DEF IndexBounded
    <2>1. Extra(p) = 0
      BY DEF Extra, Free
    <2>2. CompactAt \in Nat /\ faults \in Nat
      BY IndexAssumption DEF AloneInv, StoreTypeOK
    <2> QED
      BY <2>1, <2>2 DEF AloneInv, Bounded
  <1> QED
    BY <1>1, AloneInductive, PTL

(* prune never deletes an incident that is linked to an upstream report and  *)
(* that it could read, as long as no other process links it between prune's  *)
(* look and its unlink.                                                      *)
THEOREM LinkedSurvive ==
  ASSUME NEW p, Procs = {p}
  PROVE  Spec => PruneKeepsLinked
  <1>1. ASSUME AloneInv(p), [Next]_storeVars, NEW i \in Incidents,
               inc[i].state = "live", inc[i].issue # Unlinked
        PROVE  inc'[i].state = "live" \/ Unread(i)
    <2>1. StoreTypeOK
      BY <1>1 DEF AloneInv
    <2>2. ASSUME NEW j \in Incidents, SaveFile(p, j) PROVE inc'[i].state = "live"
      BY <1>1, <2>1, <2>2 DEF SaveFile, SaveFirst, FileThenRow, Written, StoreTypeOK
    <2>3. CASE WriteUpdate(p)
      BY <1>1, <2>1, <2>3 DEF WriteUpdate, Written, StoreTypeOK
    <2>4. CASE PruneUnlink(p)
      <3>1. i # op[p].id \/ Unread(i)
        BY <1>1, <2>4 DEF PruneUnlink, AloneInv, Working, Unread
      <3> QED
        BY <1>1, <2>1, <2>4, <3>1 DEF PruneUnlink, StoreTypeOK
    <2>5. \/ inc' = inc
          \/ \E j \in Incidents : SaveFile(p, j)
          \/ WriteUpdate(p) \/ PruneUnlink(p)
      BY <1>1 DEF Next, Continue, storeVars, fileVars, SaveRow, CompactRead, ReplaceIndex,
             LoadForUpdate, PruneStart, PruneLook, PruneUnread, PruneOther, PruneIndex,
           PruneIndexUnread, SaveOther, Abort, Tick
    <2> QED
      BY <1>1, <2>2, <2>3, <2>4, <2>5
  <1>2. AloneInv(p) /\ [Next]_storeVars =>
          [\A i \in Incidents :
             inc[i].state = "live" /\ inc[i].issue # Unlinked =>
               inc'[i].state = "live" \/ Unread(i)]_storeVars
    BY <1>1
  <1> QED
    BY <1>2, AloneInductive, PTL DEF Spec, PruneKeepsLinked

=============================================================================
