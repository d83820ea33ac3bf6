------------------------- MODULE ContributionProofs -------------------------
(* Theorems about Contribution, for any number of processes, incidents and  *)
(* drafts: what is published, and what an incident is linked to.            *)
EXTENDS Contribution, IncidentStoreProofs, SequenceTheorems, TLAPS

(* The part of the types the arguments rest on. The rows of the index, and   *)
(* the rows a call has read, play no part and have no type here.             *)
Pcs == {"idle", "save_row", "save_compact", "save_replace", "update_write",
        "prune", "prune_unlink", "prune_replace"}
IssueType == [incident : Incidents, body : Bodies]

OpTyped(o) ==
  /\ o = [pc |-> o.pc, id |-> o.id, issue |-> o.issue, todo |-> o.todo,
          removed |-> o.removed, rows |-> o.rows, unread |-> o.unread, dropped |-> o.dropped]
  /\ o.pc \in Pcs
  /\ o.id \in Incidents \cup {NoId}
  /\ o.issue \in 0..MaxIssue
  /\ o.todo \subseteq Incidents
  /\ o.pc \in {"update_write", "prune_unlink"} => o.id \in Incidents

Typed ==
  /\ now \in Nat
  /\ inc \in [Incidents -> FileType]
  /\ drafts \in [Drafts -> DraftType]
  /\ op = [p \in Procs |-> op[p]]
  /\ \A p \in Procs : OpTyped(op[p])
  /\ job \in [Procs -> JobType]
  /\ issues \in Seq(IssueType)
  /\ Len(issues) <= MaxIssue
  /\ listed \in BOOLEAN
  /\ said \subseteq Incidents \X (DOMAIN issues) \X BOOLEAN

(* Saved(i): i was saved once, so no save can ever begin its file again.     *)
Saved(i) == i \in Incidents /\ inc[i].state # "unused"
IssueOf(n, i) == n \in DOMAIN issues /\ issues[n].incident = i
HoldsLink(i) == inc[i].state = "live" => inc[i].issue # Unlinked

DraftsSaved == \A d \in Drafts : drafts[d].state = "live" => Saved(drafts[d].incident)

(* A command works on a saved incident, with the body of the preview; what   *)
(* it posts was approved; what it links is the issue it posted.              *)
JobSafe(p) ==
  /\ job[p].body = "previewed"
  /\ job[p].pc # "idle" => Saved(job[p].incident)
  /\ job[p].pc = "posting" =>
       /\ Approved(job[p].request)
       /\ ChatOpen(job[p].request)
       /\ RepoAllowed(job[p].request)
  /\ job[p].pc \in {"posted", "linking"} => IssueOf(job[p].issue, job[p].incident)
  /\ job[p].pc = "linking" =>
       \/ op[p].pc = "update_write" /\ op[p].id = job[p].incident
       \/ op[p].pc = "idle" /\ HoldsLink(job[p].incident)

(* The link an update is about to write is a good one. *)
UpdateSafe(p) ==
  op[p].pc = "update_write" => Saved(op[p].id) /\ IssueOf(op[p].issue, op[p].id)

SaidSafe == \A s \in said : Saved(s[1]) /\ (s[3] => HoldsLink(s[1]))

Safe ==
  /\ DraftsSaved
  /\ \A p \in Procs : JobSafe(p)
  /\ \A p \in Procs : UpdateSafe(p)
  /\ PostedAsPreviewed
  /\ LinkedToItsIssue
  /\ SaidSafe

ContribInv == Typed /\ Safe

-----------------------------------------------------------------------------
(* Types.                                                                    *)

LEMMA IdleTyped == OpTyped(Idle)
  BY LimitsAssumption DEF OpTyped, Idle, Pcs, Unlinked

(* One field of a typed call may take any value of its type. *)
LEMMA FieldTyped ==
  ASSUME NEW o, OpTyped(o)
  PROVE  /\ \A x : OpTyped([o EXCEPT !.rows = x])
         /\ \A x : OpTyped([o EXCEPT !.unread = x])
         /\ \A x : OpTyped([o EXCEPT !.dropped = x])
         /\ \A x : OpTyped([o EXCEPT !.removed = x])
         /\ \A x \in SUBSET Incidents : OpTyped([o EXCEPT !.todo = x])
         /\ \A x \in 0..MaxIssue : OpTyped([o EXCEPT !.issue = x])
         /\ \A x \in Incidents \cup {NoId} :
              x \in Incidents \/ o.pc \notin {"update_write", "prune_unlink"} =>
                OpTyped([o EXCEPT !.id = x])
         /\ \A x \in Incidents : [o EXCEPT !.id = x].id = x
         /\ \A x \in Pcs : x \notin {"update_write", "prune_unlink"} \/ o.id \in Incidents =>
              OpTyped([o EXCEPT !.pc = x])
         /\ \A x \in Pcs : [o EXCEPT !.pc = x].pc = x
<1>1. \A x : OpTyped([o EXCEPT !.rows = x])
  BY DEF OpTyped
<1>2. \A x : OpTyped([o EXCEPT !.unread = x]) /\ OpTyped([o EXCEPT !.dropped = x])
  BY DEF OpTyped
<1>3. \A x : OpTyped([o EXCEPT !.removed = x])
  BY DEF OpTyped
<1>4. \A x \in SUBSET Incidents : OpTyped([o EXCEPT !.todo = x])
  BY DEF OpTyped
<1>5. \A x \in 0..MaxIssue : OpTyped([o EXCEPT !.issue = x])
  BY DEF OpTyped
<1>6. /\ \A x \in Incidents \cup {NoId} :
           x \in Incidents \/ o.pc \notin {"update_write", "prune_unlink"} =>
             OpTyped([o EXCEPT !.id = x])
      /\ \A x \in Incidents : [o EXCEPT !.id = x].id = x
  BY DEF OpTyped
<1>7. \A x \in Pcs : x \notin {"update_write", "prune_unlink"} \/ o.id \in Incidents =>
        OpTyped([o EXCEPT !.pc = x])
  BY DEF OpTyped
<1>8. \A x \in Pcs : [o EXCEPT !.pc = x].pc = x
  BY DEF OpTyped
<1>9. QED
  BY <1>1, <1>2, <1>3, <1>4, <1>5, <1>6, <1>7, <1>8

LEMMA RowsTyped ==
  ASSUME NEW x \in Pcs, x \notin {"update_write", "prune_unlink"}, NEW r
  PROVE  /\ OpTyped([Idle EXCEPT !.pc = x, !.rows = r])
         /\ [Idle EXCEPT !.pc = x, !.rows = r].pc = x
         /\ OpTyped([Idle EXCEPT !.pc = x, !.dropped = r])
         /\ [Idle EXCEPT !.pc = x, !.dropped = r].pc = x
<1>1. PICK o : o = [Idle EXCEPT !.pc = x]
  OBVIOUS
<1>2. OpTyped(o) /\ o.pc = x
  BY <1>1, IdleTyped, FieldTyped
<1>3. OpTyped([o EXCEPT !.rows = r]) /\ [o EXCEPT !.rows = r].pc = x
  BY <1>2, FieldTyped DEF OpTyped
<1>4. OpTyped([o EXCEPT !.dropped = r]) /\ [o EXCEPT !.dropped = r].pc = x
  BY <1>2, FieldTyped DEF OpTyped
<1>5. QED
  BY <1>1, <1>3, <1>4

LEMMA NoJobTyped == NoJob \in JobType
<1>1. NoRequest \in RequestType
  BY DEF NoRequest, RequestType, Vias, Surfaces
<1>2. QED
  BY <1>1, LimitsAssumption DEF NoJob, JobType, Bodies, Unlinked

LEMMA InitTyped == ContribInit => Typed
<1> SUFFICES ASSUME ContribInit PROVE Typed
  OBVIOUS
<1>1. now \in Nat /\ inc \in [Incidents -> FileType] /\ drafts \in [Drafts -> DraftType]
  BY LimitsAssumption DEF ContribInit, StoreInit, FileType, DraftType, Bodies, Unlinked
<1>2. op = [p \in Procs |-> op[p]] /\ \A p \in Procs : OpTyped(op[p])
  BY IdleTyped DEF ContribInit, StoreInit
<1>3. job \in [Procs -> JobType]
  BY NoJobTyped DEF ContribInit
<1>4. issues \in Seq(IssueType) /\ Len(issues) <= MaxIssue
  BY LimitsAssumption DEF ContribInit
<1>5. listed \in BOOLEAN /\ said \subseteq Incidents \X (DOMAIN issues) \X BOOLEAN
  BY DEF ContribInit
<1>6. QED
  BY <1>1, <1>2, <1>3, <1>4, <1>5 DEF Typed

(* A call changes op[p] to a typed value; nothing else of op changes. *)
LEMMA OpChange ==
  ASSUME Typed, NEW p \in Procs, NEW o, OpTyped(o), op' = [op EXCEPT ![p] = o]
  PROVE  op' = [q \in Procs |-> op'[q]] /\ \A q \in Procs : OpTyped(op'[q])
<1>1. op' = [q \in Procs |-> IF q = p THEN o ELSE op[q]]
  BY DEF Typed
<1>2. \A q \in Procs : op'[q] = IF q = p THEN o ELSE op[q]
  BY <1>1
<1>3. \A q \in Procs : OpTyped(op'[q])
  <2> TAKE q \in Procs
  <2>1. CASE q = p
    BY <2>1, <1>2
  <2>2. CASE q # p
    <3>1. OpTyped(op[q])
      BY DEF Typed
    <3>2. op'[q] = op[q]
      BY <2>2, <1>2
    <3>3. QED
      BY <3>1, <3>2
  <2>3. QED
    BY <2>1, <2>2
<1>4. op' = [q \in Procs |-> op'[q]]
  BY <1>1, <1>2
<1>5. QED
  BY <1>3, <1>4

LEMMA WrittenTyped ==
  ASSUME NEW n \in 0..MaxIssue, NEW t \in Nat
  PROVE  Written(n, t) \in FileType
  BY DEF Written, FileType

LEMMA StoreTyped ==
  ASSUME Typed, NEW p \in Procs, Continue(p), UNCHANGED contribVars
  PROVE  Typed'
<1> USE LimitsAssumption
<1>0. OpTyped(op[p])
  BY DEF Typed
<1>1. CASE SaveRow(p)
  <2>1. PICK o : o = [Idle EXCEPT !.pc = "save_compact"]
    OBVIOUS
  <2>2. OpTyped(o)
    BY <2>1, IdleTyped, FieldTyped DEF Pcs
  <2>3. op' = [op EXCEPT ![p] = o]
    BY <1>1, <2>1 DEF SaveRow
  <2>4. QED
    BY <1>1, <2>2, <2>3, OpChange DEF SaveRow, Typed, contribVars
<1>2. CASE CompactRead(p)
  <2>1. PICK o : o = IF TooLong(index.rows)
                       THEN [Idle EXCEPT !.pc = "save_replace", !.rows = Compacted(index.rows)]
                       ELSE Idle
    OBVIOUS
  <2>2. OpTyped(o)
    BY <2>1, IdleTyped, RowsTyped DEF Pcs
  <2>3. op' = [op EXCEPT ![p] = o]
    BY <1>2, <2>1 DEF CompactRead
  <2>4. QED
    BY <1>2, <2>2, <2>3, OpChange DEF CompactRead, Typed, contribVars, fileVars
<1>3. CASE ReplaceIndex(p)
  BY <1>3, IdleTyped, OpChange DEF ReplaceIndex, Typed, contribVars
<1>4. CASE WriteUpdate(p)
  <2>1. Written(op[p].issue, now) \in FileType
    BY <1>0, WrittenTyped DEF OpTyped, Typed
  <2>2. inc' \in [Incidents -> FileType]
    BY <1>4, <2>1 DEF WriteUpdate, Typed
  <2>3. QED
    BY <1>4, <2>2, IdleTyped, OpChange DEF WriteUpdate, Typed, contribVars
<1>5. CASE PruneLook(p)
  <2>1. PICK i \in op[p].todo :
          op' = [op EXCEPT ![p] =
            IF inc[i].state = "live" /\ (~Old(inc[i].mtime) \/ Linked(i))
              THEN [op[p] EXCEPT !.todo = @ \ {i}]
            ELSE [[op[p] EXCEPT !.todo = @ \ {i}] EXCEPT !.id = i, !.pc = "prune_unlink"]]
    BY <1>5 DEF PruneLook
  <2>2. PICK o : op' = [op EXCEPT ![p] = o] /\ OpTyped(o)
    <3>1. i \in Incidents /\ op[p].todo \ {i} \in SUBSET Incidents
      BY <1>0 DEF OpTyped
    <3>2. op[p].pc = "prune"
      BY <1>5 DEF PruneLook
    <3>3. PICK a : a = [op[p] EXCEPT !.todo = @ \ {i}] /\ OpTyped(a)
      BY <1>0, <3>1, FieldTyped
    <3>5. OpTyped([a EXCEPT !.id = i, !.pc = "prune_unlink"])
      <4>1. PICK b : b = [a EXCEPT !.id = i] /\ OpTyped(b) /\ b.id = i
        BY <3>1, <3>3, FieldTyped
      <4>2. OpTyped([b EXCEPT !.pc = "prune_unlink"])
        BY <3>1, <4>1, FieldTyped DEF Pcs
      <4>3. QED
        BY <4>1, <4>2
    <3>6. QED
      BY <2>1, <3>3, <3>5
  <2>3. QED
    BY <1>5, <2>2, OpChange DEF PruneLook, Typed, contribVars, fileVars
<1>u. CASE PruneUnread(p)
  <2>1. PICK i \in op[p].todo :
          op' = [op EXCEPT ![p] = [op[p] EXCEPT !.todo = @ \ {i}, !.id = i, !.unread = TRUE,
                                                !.pc = "prune_unlink"]]
    BY <1>u DEF PruneUnread
  <2>2. i \in Incidents /\ op[p].todo \ {i} \in SUBSET Incidents
    BY <1>0 DEF OpTyped
  <2>3. PICK a : a = [op[p] EXCEPT !.todo = @ \ {i}] /\ OpTyped(a)
    BY <1>0, <2>2, FieldTyped
  <2>4. PICK b : b = [a EXCEPT !.id = i] /\ OpTyped(b) /\ b.id = i
    BY <2>2, <2>3, FieldTyped
  <2>5. PICK c : c = [b EXCEPT !.unread = TRUE] /\ OpTyped(c) /\ c.id = i
    <3>1. OpTyped([b EXCEPT !.unread = TRUE])
      BY <2>4, FieldTyped
    <3>2. [b EXCEPT !.unread = TRUE].id = i
      BY <2>4 DEF OpTyped
    <3>3. QED
      BY <3>1, <3>2
  <2>6. OpTyped([c EXCEPT !.pc = "prune_unlink"])
    BY <2>2, <2>5, FieldTyped DEF Pcs
  <2>7. op' = [op EXCEPT ![p] = [c EXCEPT !.pc = "prune_unlink"]]
    BY <2>1, <2>3, <2>4, <2>5
  <2>8. QED
    BY <1>u, <2>6, <2>7, OpChange DEF PruneUnread, Typed, contribVars, fileVars
<1>6. CASE PruneUnlink(p)
  <2>1. inc' \in [Incidents -> FileType]
    BY <1>6, <1>0 DEF PruneUnlink, Typed, FileType
  <2>2. PICK o : o = [op[p] EXCEPT !.pc = "prune", !.id = NoId, !.unread = FALSE,
                                   !.removed = @ \cup {op[p].id}]
    OBVIOUS
  <2>3. OpTyped(o)
    <3>1. PICK a : a = [op[p] EXCEPT !.pc = "prune"]
      OBVIOUS
    <3>2. OpTyped(a) /\ a.pc = "prune"
      BY <1>0, <3>1, FieldTyped DEF Pcs
    <3>z. PICK z : z = [a EXCEPT !.id = NoId] /\ OpTyped(z)
      BY <3>2, FieldTyped
    <3>3. PICK b : b = [z EXCEPT !.unread = FALSE] /\ OpTyped(b)
      BY <3>z, FieldTyped
    <3>4. PICK r : r = op[p].removed \cup {op[p].id}
      OBVIOUS
    <3>5. OpTyped([b EXCEPT !.removed = r])
      BY <3>3, FieldTyped
    <3>6. o = [b EXCEPT !.removed = r]
      BY <1>0, <2>2, <3>1, <3>z, <3>3, <3>4 DEF OpTyped
    <3>7. QED
      BY <3>5, <3>6
  <2>4. op' = [op EXCEPT ![p] = o]
    BY <1>6, <2>2 DEF PruneUnlink, Typed
  <2>5. QED
    BY <1>6, <2>1, <2>3, <2>4, OpChange DEF PruneUnlink, Typed, contribVars
<1>7. CASE PruneOther(p)
  <2>1. drafts' \in [Drafts -> DraftType]
    BY <1>7 DEF PruneOther, Typed, DraftType, OldDrafts, LiveDrafts
  <2>2. QED
    BY <1>7, <2>1 DEF PruneOther, Typed, contribVars
<1>8. CASE PruneIndex(p)
  <2>1. PICK o : o = IF op[p].removed = {} THEN Idle
                     ELSE [Idle EXCEPT !.pc = "prune_replace", !.rows = RowsLeft(p)]
    OBVIOUS
  <2>2. OpTyped(o)
    BY <2>1, IdleTyped, RowsTyped DEF Pcs
  <2>3. op' = [op EXCEPT ![p] = o]
    BY <1>8, <2>1 DEF PruneIndex
  <2>4. QED
    BY <1>8, <2>2, <2>3, OpChange DEF PruneIndex, Typed, contribVars, fileVars
<1>v. CASE PruneIndexUnread(p)
  <2>1. PICK o : o = [Idle EXCEPT !.pc = "prune_replace", !.dropped = index.rows]
    OBVIOUS
  <2>2. OpTyped(o)
    BY <2>1, RowsTyped DEF Pcs
  <2>3. op' = [op EXCEPT ![p] = o]
    BY <1>v, <2>1 DEF PruneIndexUnread
  <2>4. QED
    BY <1>v, <2>2, <2>3, OpChange DEF PruneIndexUnread, Typed, contribVars, fileVars
<1>9. QED
  BY <1>1, <1>2, <1>3, <1>4, <1>5, <1>u, <1>6, <1>7, <1>8, <1>v DEF Continue

(* A command changes job[p] to a typed value. *)
LEMMA JobChange ==
  ASSUME Typed, NEW p \in Procs, NEW j \in JobType, job' = [job EXCEPT ![p] = j]
  PROVE  /\ job' \in [Procs -> JobType]
         /\ job'[p] = j
         /\ \A q \in Procs : q # p => job'[q] = job[q]
  BY DEF Typed

(* The next stage of a command is a typed value as well. *)
LEMMA StageTyped ==
  ASSUME NEW j \in JobType,
         NEW x \in {"idle", "resolved", "candidate", "drafted", "posting", "posted", "linking"}
  PROVE  /\ [j EXCEPT !.pc = x] \in JobType
         /\ [j EXCEPT !.pc = x].pc = x
         /\ [j EXCEPT !.pc = x].incident = j.incident
         /\ [j EXCEPT !.pc = x].body = j.body
         /\ [j EXCEPT !.pc = x].issue = j.issue
         /\ [j EXCEPT !.pc = x].request = j.request
         /\ [j EXCEPT !.pc = x].selected = j.selected
  BY DEF JobType

(* The issues after a submission. *)
LEMMA IssueAdded ==
  ASSUME Typed, NEW e \in IssueType, Len(issues) < MaxIssue, issues' = Append(issues, e)
  PROVE  /\ issues' \in Seq(IssueType)
         /\ Len(issues') = Len(issues) + 1
         /\ Len(issues') \in 1..MaxIssue
         /\ Len(issues') \in DOMAIN issues'
         /\ DOMAIN issues \subseteq DOMAIN issues'
         /\ issues'[Len(issues')] = e
         /\ \A n \in DOMAIN issues : issues'[n] = issues[n]
<1> HIDE DEF IssueType
<1>1. issues \in Seq(IssueType) /\ MaxIssue \in Nat
  BY LimitsAssumption DEF Typed
<1>2. Len(issues) \in Nat
  BY <1>1
<1>3. QED
  BY <1>1, <1>2

(* An edit of a draft changes that draft only, and keeps it one. *)
LEMMA TextEdited ==
  ASSUME drafts \in [Drafts -> DraftType], now \in Nat, NEW e \in Drafts, EditText(e)
  PROVE  /\ drafts' \in [Drafts -> DraftType]
         /\ \A d \in Drafts :
              drafts'[d].state = drafts[d].state /\ drafts'[d].incident = drafts[d].incident
<1>1. PICK b : b = [drafts EXCEPT ![e].body = "edited"]
  OBVIOUS
<1>2. /\ b \in [Drafts -> DraftType]
      /\ \A d \in Drafts : b[d].state = drafts[d].state /\ b[d].incident = drafts[d].incident
  BY <1>1 DEF DraftType, Bodies
<1>3. drafts' = [b EXCEPT ![e].mtime = now]
  BY <1>1 DEF EditText
<1>4. /\ drafts' \in [Drafts -> DraftType]
      /\ \A d \in Drafts : drafts'[d].state = b[d].state /\ drafts'[d].incident = b[d].incident
  BY <1>2, <1>3 DEF DraftType
<1>5. QED
  BY <1>2, <1>4

LEMMA RoutingEdited ==
  ASSUME drafts \in [Drafts -> DraftType], now \in Nat,
         NEW e \in Drafts, NEW i \in Incidents, NEW selected \in BOOLEAN,
         EditRouting(e, i, selected)
  PROVE  /\ drafts' \in [Drafts -> DraftType]
         /\ \A d \in Drafts :
              /\ drafts'[d].state = drafts[d].state
              /\ drafts'[d].incident = IF d = e THEN i ELSE drafts[d].incident
<1>1. PICK b : b = [drafts EXCEPT ![e].incident = i]
  OBVIOUS
<1>2. /\ b \in [Drafts -> DraftType]
      /\ \A d \in Drafts :
           /\ b[d].state = drafts[d].state
           /\ b[d].incident = IF d = e THEN i ELSE drafts[d].incident
  BY <1>1 DEF DraftType
<1>3. PICK c : c = [b EXCEPT ![e].selected = selected]
  OBVIOUS
<1>4. /\ c \in [Drafts -> DraftType]
      /\ \A d \in Drafts : c[d].state = b[d].state /\ c[d].incident = b[d].incident
  BY <1>2, <1>3 DEF DraftType
<1>5. drafts' = [c EXCEPT ![e].mtime = now]
  BY <1>1, <1>3 DEF EditRouting
<1>6. /\ drafts' \in [Drafts -> DraftType]
      /\ \A d \in Drafts : drafts'[d].state = c[d].state /\ drafts'[d].incident = c[d].incident
  BY <1>4, <1>5 DEF DraftType
<1>7. QED
  BY <1>2, <1>4, <1>6

LEMMA SaveFileTyped ==
  ASSUME Typed, NEW p \in Procs, NEW i \in Incidents, Wtf(p, i)
  PROVE  Typed'
<1> USE DEF Wtf, SaveFile, SaveFirst, FileThenRow
<1>1. Written(Unlinked, now) \in FileType
  BY LimitsAssumption, WrittenTyped DEF Typed, Unlinked
<1>2. inc' \in [Incidents -> FileType]
  BY <1>1 DEF Typed
<1>3. PICK a : a = [Idle EXCEPT !.pc = "save_row"]
  OBVIOUS
<1>4. OpTyped(a)
  BY <1>3, IdleTyped, FieldTyped DEF Pcs
<1>5. OpTyped([a EXCEPT !.id = i])
  BY <1>4, FieldTyped
<1>6. op' = [op EXCEPT ![p] = [a EXCEPT !.id = i]]
  BY <1>3
<1>7. QED
  BY <1>2, <1>5, <1>6, OpChange DEF Typed, contribVars

LEMMA LinkTyped ==
  ASSUME Typed, NEW p \in Procs, Saved(job[p].incident), Link(p)
  PROVE  /\ Typed'
         /\ op'[p].pc = "update_write"
         /\ op'[p].id = job[p].incident
         /\ op'[p].issue = job[p].issue
         /\ \A q \in Procs : q # p => op'[q] = op[q]
<1> DEFINE i == job[p].incident
           n == job[p].issue
<1>1. i \in Incidents /\ n \in 0..MaxIssue /\ job[p] \in JobType
  BY DEF Typed, JobType, Saved
<1>2. /\ op' = [op EXCEPT ![p] = [Idle EXCEPT !.id = i, !.issue = n, !.pc = "update_write"]]
      /\ job' = [job EXCEPT ![p].pc = "linking"]
      /\ UNCHANGED <<now, fileVars, appended, faults, issues, listed, said>>
  BY DEF Link, LoadForUpdate, LinkedIncident
<1>3. [job[p] EXCEPT !.pc = "linking"] \in JobType
  BY <1>1, StageTyped
<1>4. job' \in [Procs -> JobType]
  BY <1>2, <1>3, JobChange DEF Typed
<1> HIDE DEF i, n
<1>5. PICK a : a = [Idle EXCEPT !.id = i]
  OBVIOUS
<1>6. OpTyped(a) /\ a.id = i
  BY <1>1, <1>5, IdleTyped, FieldTyped
<1>7. PICK b : b = [a EXCEPT !.issue = n]
  OBVIOUS
<1>8. OpTyped(b) /\ b.id = i /\ b.issue = n
  BY <1>1, <1>6, <1>7, FieldTyped DEF OpTyped
<1>9. PICK c : c = [b EXCEPT !.pc = "update_write"]
  OBVIOUS
<1>10. OpTyped(c) /\ c.id = i /\ c.issue = n /\ c.pc = "update_write"
  BY <1>1, <1>8, <1>9, FieldTyped DEF OpTyped, Pcs
<1>11. op' = [op EXCEPT ![p] = c]
  BY <1>2, <1>5, <1>7, <1>9
<1>12. /\ op'[p] = c
       /\ \A q \in Procs : q # p => op'[q] = op[q]
  BY <1>11 DEF Typed
<1>13. Typed'
  BY <1>2, <1>4, <1>10, <1>11, OpChange DEF Typed, fileVars
<1>14. QED
  BY <1>10, <1>12, <1>13 DEF i, n

LEMMA PostTyped ==
  ASSUME Typed, NEW p \in Procs, Saved(job[p].incident), Post(p)
  PROVE  Typed'
<1> DEFINE e == [incident |-> job[p].incident, body |-> job[p].body]
<1>1. e \in IssueType
  BY DEF Typed, JobType, Saved, IssueType
<1>2. /\ Len(issues) < MaxIssue
      /\ issues' = Append(issues, e)
      /\ UNCHANGED <<storeVars, listed, said>>
  BY DEF Post
<1>3. /\ issues' \in Seq(IssueType)
      /\ Len(issues') \in 1..MaxIssue
      /\ DOMAIN issues \subseteq DOMAIN issues'
  BY <1>1, <1>2, IssueAdded
<1>4. job' \in [Procs -> JobType]
  <2>1. [NoJob EXCEPT !.pc = "posted", !.issue = Len(issues'), !.incident = job[p].incident]
          \in JobType
    <3>1. [NoJob EXCEPT !.pc = "posted"] \in JobType
      BY NoJobTyped, StageTyped
    <3>2. PICK a \in JobType : a = [NoJob EXCEPT !.pc = "posted"]
      BY <3>1
    <3>3. [a EXCEPT !.issue = Len(issues')] \in JobType
      BY <1>3 DEF JobType
    <3>4. PICK b \in JobType : b = [a EXCEPT !.issue = Len(issues')]
      BY <3>3
    <3>5. [b EXCEPT !.incident = job[p].incident] \in JobType
      BY DEF JobType, Saved
    <3>6. QED
      BY <3>2, <3>4, <3>5
  <2>2. QED
    BY <2>1, NoJobTyped, JobChange DEF Post, GiveUp
<1>5. QED
  BY <1>2, <1>3, <1>4 DEF Typed, storeVars, fileVars

(* What a command says when it ends. *)
LEMMA SaidTyped ==
  ASSUME NEW i \in Incidents, NEW n \in DOMAIN issues, NEW b \in BOOLEAN
  PROVE  <<i, n, b>> \in Incidents \X (DOMAIN issues) \X BOOLEAN
OBVIOUS

LEMMA SaidParts ==
  ASSUME NEW i, NEW n, NEW b
  PROVE  <<i, n, b>>[1] = i /\ <<i, n, b>>[3] = b
OBVIOUS

(* Every other action of a command. *)
LEMMA CommandTyped ==
  ASSUME Typed, NEW p \in Procs, JobSafe(p),
         \/ \E i \in Incidents : Resolve(p, i)
         \/ SaveCandidate(p)
         \/ \E d \in Drafts, selected \in BOOLEAN : Draft(p, d, selected)
         \/ \E d \in Drafts : SubmitDraft(p, d)
         \/ \E via \in Vias, surface \in Surfaces : Decide(p, via, surface)
         \/ Report(p)
         \/ ReportUnloaded(p)
         \/ EndCommand(p)
  PROVE  Typed'
<1>0. job[p] \in JobType
  BY DEF Typed
<1>1. ASSUME NEW i \in Incidents, Resolve(p, i)
      PROVE  Typed'
  <2>1. [[NoJob EXCEPT !.pc = "resolved"] EXCEPT !.incident = i] \in JobType
    BY NoJobTyped, StageTyped DEF JobType
  <2>2. QED
    BY <1>1, <2>1, JobChange DEF Resolve, Typed, storeVars, fileVars
<1>2. CASE SaveCandidate(p)
  <2>1. [job[p] EXCEPT !.pc = "candidate"] \in JobType
    BY <1>0, StageTyped
  <2>2. QED
    BY <1>2, <2>1, JobChange DEF SaveCandidate, SaveCandidateFile, Typed
<1>3. ASSUME NEW d \in Drafts, NEW selected \in BOOLEAN, Draft(p, d, selected)
      PROVE  Typed'
  <2>1. [[job[p] EXCEPT !.pc = "drafted"] EXCEPT !.selected = selected] \in JobType
    BY <1>0, StageTyped DEF JobType
  <2>2. drafts' \in [Drafts -> DraftType]
    BY <1>0, <1>3 DEF Draft, SaveDraftFile, Typed, DraftType, JobType, Bodies
  <2>3. QED
    BY <1>3, <2>1, <2>2, JobChange DEF Draft, Typed
<1>4. ASSUME NEW d \in Drafts, SubmitDraft(p, d)
      PROVE  Typed'
  <2>1. PICK j : j = [NoJob EXCEPT !.pc = "drafted", !.incident = drafts[d].incident,
                                   !.body = drafts[d].body, !.selected = drafts[d].selected]
    OBVIOUS
  <2>2. j \in JobType
    <3>0. drafts[d] \in DraftType
      BY DEF Typed
    <3>1. PICK a \in JobType : a = [NoJob EXCEPT !.pc = "drafted"]
      BY NoJobTyped, StageTyped
    <3>2. PICK b \in JobType : b = [a EXCEPT !.incident = drafts[d].incident]
      BY <3>0 DEF JobType, DraftType
    <3>3. PICK c \in JobType : c = [b EXCEPT !.body = drafts[d].body]
      BY <3>0 DEF JobType, DraftType, Bodies
    <3>4. PICK e \in JobType : e = [c EXCEPT !.selected = drafts[d].selected]
      BY <3>0 DEF JobType, DraftType
    <3>5. QED
      BY <2>1, <3>1, <3>2, <3>3, <3>4
  <2>3. job' = [job EXCEPT ![p] = j]
    BY <1>4, <2>1 DEF SubmitDraft
  <2>4. QED
    BY <1>4, <2>2, <2>3, JobChange DEF SubmitDraft, Typed, storeVars, fileVars
<1>5. ASSUME NEW via \in Vias, NEW surface \in Surfaces, Decide(p, via, surface)
      PROVE  Typed'
  <2>1. PICK r : r = [via |-> via, surface |-> surface, selected |-> job[p].selected,
                      listed |-> listed]
    OBVIOUS
  <2>2. r \in RequestType
    BY <1>0, <2>1 DEF Typed, RequestType, JobType
  <2>3. [[job[p] EXCEPT !.pc = "posting"] EXCEPT !.request = r] \in JobType
    BY <1>0, <2>2, StageTyped DEF JobType
  <2>4. job' = [job EXCEPT ![p] = [[job[p] EXCEPT !.pc = "posting"] EXCEPT !.request = r]]
    BY <1>5, <2>1 DEF Decide
  <2>5. QED
    BY <1>5, <2>3, <2>4, JobChange DEF Decide, Typed, storeVars, fileVars
<1>6. CASE Report(p)
  <2>1. job[p].incident \in Incidents /\ job[p].issue \in DOMAIN issues
    BY <1>6 DEF Report, MayReport, CannotLink, LinkDone, JobSafe, Saved, IssueOf
  <2>2. said' \subseteq Incidents \X (DOMAIN issues) \X BOOLEAN
    <3>1. PICK b \in BOOLEAN : b = (job[p].pc = "linking")
      OBVIOUS
    <3>2. <<job[p].incident, job[p].issue, b>> \in Incidents \X (DOMAIN issues) \X BOOLEAN
      BY <2>1, <3>1, SaidTyped
    <3>3. said \subseteq Incidents \X (DOMAIN issues) \X BOOLEAN
      BY DEF Typed
    <3>4. said' = said \cup {<<job[p].incident, job[p].issue, b>>}
      BY <1>6, <3>1 DEF Report
    <3>5. QED
      BY <3>2, <3>3, <3>4
  <2>3. QED
    BY <1>6, <2>2, NoJobTyped, JobChange DEF Report, Typed, storeVars, fileVars
<1>u. CASE ReportUnloaded(p)
  <2>1. job[p].incident \in Incidents /\ job[p].issue \in DOMAIN issues
    BY <1>u DEF ReportUnloaded, JobSafe, Saved, IssueOf
  <2>2. said' \subseteq Incidents \X (DOMAIN issues) \X BOOLEAN
    <3>1. <<job[p].incident, job[p].issue, FALSE>> \in Incidents \X (DOMAIN issues) \X BOOLEAN
      BY <2>1, SaidTyped
    <3>2. said \subseteq Incidents \X (DOMAIN issues) \X BOOLEAN
      BY DEF Typed
    <3>3. said' = said \cup {<<job[p].incident, job[p].issue, FALSE>>}
      BY <1>u DEF ReportUnloaded
    <3>4. QED
      BY <3>1, <3>2, <3>3
  <2>3. QED
    BY <1>u, <2>2, NoJobTyped, JobChange DEF ReportUnloaded, Typed, fileVars
<1>7. CASE EndCommand(p)
  BY <1>7, NoJobTyped, JobChange DEF EndCommand, Typed, storeVars, fileVars
<1>8. QED
  BY <1>1, <1>2, <1>3, <1>4, <1>5, <1>6, <1>u, <1>7

LEMMA PruneTyped ==
  ASSUME Typed, NEW p \in Procs, Prune(p)
  PROVE  Typed'
<1>1. PICK a : a = [Idle EXCEPT !.pc = "prune"]
  OBVIOUS
<1>2. OpTyped(a)
  BY <1>1, IdleTyped, FieldTyped DEF Pcs
<1>3. Live \in SUBSET Incidents
  BY DEF Live
<1>4. OpTyped([a EXCEPT !.todo = Live])
  BY <1>2, <1>3, FieldTyped
<1>5. op' = [op EXCEPT ![p] = [a EXCEPT !.todo = Live]]
  BY <1>1 DEF Prune, PruneStart
<1>6. QED
  BY <1>4, <1>5, OpChange DEF Prune, PruneStart, Typed, fileVars, contribVars

LEMMA EnvironmentTyped ==
  ASSUME Typed,
         \/ \E p \in Procs : Die(p)
         \/ Unlist
         \/ EditOrTick
  PROVE  Typed'
<1>1. ASSUME NEW p \in Procs, Die(p)
      PROVE  Typed'
  BY <1>1, IdleTyped, NoJobTyped, OpChange, JobChange DEF Die, Typed, fileVars
<1>3. CASE Unlist
  BY <1>3 DEF Unlist, Typed, storeVars, fileVars
<1>4. CASE EditOrTick
  <2>1. CASE Tick
    BY <1>4, <2>1 DEF EditOrTick, Tick, Typed, contribVars, fileVars
  <2>2. ASSUME NEW d \in Drafts, EditText(d)
        PROVE  Typed'
    <3>1. drafts' \in [Drafts -> DraftType]
      BY <2>2, TextEdited DEF Typed
    <3>2. QED
      BY <1>4, <2>2, <3>1 DEF EditOrTick, EditText, Typed, contribVars
  <2>3. ASSUME NEW d \in Drafts, NEW i \in Incidents, NEW selected \in BOOLEAN,
               EditRouting(d, i, selected)
        PROVE  Typed'
    <3>1. drafts' \in [Drafts -> DraftType]
      BY <2>3, RoutingEdited DEF Typed
    <3>2. QED
      BY <1>4, <2>3, <3>1 DEF EditOrTick, EditRouting, Typed, contribVars
  <2>4. QED
    BY <1>4, <2>1, <2>2, <2>3 DEF EditOrTick
<1>5. QED
  BY <1>1, <1>3, <1>4

LEMMA NextTyped ==
  ASSUME ContribInv, [ContribNext]_vars
  PROVE  Typed'
<1>1. Typed /\ \A p \in Procs : JobSafe(p)
  BY DEF ContribInv, Safe
<1>2. Contributors \subseteq Procs /\ Pruners \subseteq Procs
  BY CommandsAssumption
<1>3. ASSUME NEW p \in Contributors, Commands(p)
      PROVE  Typed'
  <2>1. JobSafe(p) /\ p \in Procs
    BY <1>1, <1>2
  <2>2. CASE \E i \in Incidents : Wtf(p, i)
    BY <1>1, <2>1, <2>2, SaveFileTyped
  <2>3. CASE Post(p)
    BY <1>1, <2>1, <2>3, PostTyped DEF JobSafe, Post
  <2>4. CASE Link(p)
    BY <1>1, <2>1, <2>4, LinkTyped DEF JobSafe, Link
  <2>5. CASE ~(\E i \in Incidents : Wtf(p, i)) /\ ~Post(p) /\ ~Link(p)
    BY <1>1, <1>3, <2>1, <2>5, CommandTyped DEF Commands
  <2>6. QED
    BY <2>2, <2>3, <2>4, <2>5
<1>4. CASE \E p \in Pruners : Prune(p)
  BY <1>1, <1>2, <1>4, PruneTyped
<1>5. CASE \E p \in Procs : StoreStep(p)
  BY <1>1, <1>5, StoreTyped DEF StoreStep
<1>6. CASE \/ \E p \in Procs : Die(p)
           \/ Unlist
           \/ EditOrTick
  BY <1>1, <1>6, EnvironmentTyped
<1>7. CASE UNCHANGED vars
  BY <1>1, <1>7 DEF Typed, vars, storeVars, fileVars, contribVars
<1>8. QED
  BY <1>3, <1>4, <1>5, <1>6, <1>7 DEF ContribNext

-----------------------------------------------------------------------------
(* What no step takes back.                                                  *)

(* A saved incident stays saved, an issue stays the issue of its incident,   *)
(* and a file that carries a link carries one until it is deleted.           *)
Grows ==
  /\ \A i \in Incidents : Saved(i) => Saved(i)'
  /\ \A n \in Nat, i \in Incidents : IssueOf(n, i) => IssueOf(n, i)'
  /\ \A i \in Incidents : Saved(i) /\ HoldsLink(i) => HoldsLink(i)'

LEMMA SameGrows == UNCHANGED <<inc, issues>> => Grows
  BY DEF Grows, Saved, IssueOf, HoldsLink

LEMMA SaveGrows ==
  ASSUME Typed, NEW p \in Procs, NEW i \in Incidents, Wtf(p, i)
  PROVE  Grows
<1>1. /\ inc[i].state = "unused"
      /\ inc' = [inc EXCEPT ![i] = Written(Unlinked, now)]
      /\ issues' = issues
  BY DEF Wtf, SaveFile, SaveFirst, FileThenRow, contribVars
<1>2. \A k \in Incidents : k # i => inc'[k] = inc[k]
  BY <1>1 DEF Typed
<1>3. ~Saved(i)
  BY <1>1 DEF Saved
<1>4. QED
  BY <1>1, <1>2, <1>3 DEF Grows, Saved, IssueOf, HoldsLink

(* The link an update writes is never the value that means "no link". *)
LEMMA IssueNumber ==
  ASSUME Typed, NEW n \in DOMAIN issues
  PROVE  n \in Nat \ {0}
<1>1. Len(issues) \in Nat /\ DOMAIN issues = 1..Len(issues)
  <2> HIDE DEF IssueType
  <2> QED BY DEF Typed
<1>2. QED
  BY <1>1

LEMMA UpdateGrows ==
  ASSUME Typed, NEW p \in Procs, UpdateSafe(p), WriteUpdate(p), UNCHANGED contribVars
  PROVE  /\ Grows
         /\ Saved(op[p].id)
         /\ inc'[op[p].id].issue # Unlinked
         /\ inc'[op[p].id].issue = op[p].issue
         /\ IssueOf(op[p].issue, op[p].id)
         /\ \A k \in Incidents : k # op[p].id => inc'[k] = inc[k]
<1> DEFINE i == op[p].id
           n == op[p].issue
<1>1. /\ Saved(i) /\ IssueOf(n, i)
      /\ inc' = [inc EXCEPT ![i] = Written(n, now)]
      /\ issues' = issues
  BY DEF UpdateSafe, WriteUpdate, contribVars
<1>2. n # 0
  BY <1>1, IssueNumber DEF IssueOf
<1> HIDE DEF i, n
<1>3. /\ \A k \in Incidents : k # i => inc'[k] = inc[k]
      /\ inc'[i].state = "live"
      /\ inc'[i].issue = n
  BY <1>1 DEF Typed, Written, Saved
<1>4. QED
  BY <1>1, <1>2, <1>3 DEF Grows, Saved, IssueOf, HoldsLink, Unlinked, i, n

LEMMA UnlinkGrows ==
  ASSUME Typed, NEW p \in Procs, PruneUnlink(p), UNCHANGED contribVars
  PROVE  /\ Grows
         /\ \A k \in Incidents : inc'[k].issue = inc[k].issue
<1> DEFINE i == op[p].id
<1>1. /\ i \in Incidents
      /\ inc' = [inc EXCEPT ![i].state = "deleted"]
      /\ issues' = issues
  BY DEF PruneUnlink, contribVars, Typed, OpTyped
<1> HIDE DEF i
<1>2. /\ \A k \in Incidents : k # i => inc'[k] = inc[k]
      /\ inc'[i].state = "deleted"
      /\ inc'[i].issue = inc[i].issue
  BY <1>1 DEF Typed, FileType
<1>3. QED
  BY <1>1, <1>2 DEF Grows, Saved, IssueOf, HoldsLink

LEMMA PostGrows ==
  ASSUME Typed, NEW p \in Procs, Saved(job[p].incident), Post(p)
  PROVE  /\ Grows
         /\ Len(issues') \in DOMAIN issues'
         /\ issues'[Len(issues')].incident = job[p].incident
         /\ issues'[Len(issues')].body = job[p].body
         /\ \A n \in DOMAIN issues' :
              n = Len(issues') \/ (n \in DOMAIN issues /\ issues'[n] = issues[n])
<1> DEFINE e == [incident |-> job[p].incident, body |-> job[p].body]
<1>1. e \in IssueType
  BY DEF Typed, JobType, Saved, IssueType
<1>2. /\ Len(issues) < MaxIssue
      /\ issues' = Append(issues, e)
      /\ UNCHANGED inc
  BY DEF Post, storeVars, fileVars
<1> DEFINE IT == IssueType
<1>3. /\ issues' \in Seq(IT)
      /\ issues \in Seq(IT)
      /\ Len(issues') = Len(issues) + 1
      /\ Len(issues') \in DOMAIN issues'
      /\ DOMAIN issues \subseteq DOMAIN issues'
      /\ issues'[Len(issues')] = e
      /\ \A n \in DOMAIN issues : issues'[n] = issues[n]
  BY <1>1, <1>2, IssueAdded DEF Typed
<1> HIDE DEF IT
<1>4. \A n \in DOMAIN issues' : n = Len(issues') \/ n \in DOMAIN issues
  BY <1>3
<1>5. e.incident = job[p].incident /\ e.body = job[p].body
  OBVIOUS
<1> HIDE DEF e
<1>6. job[p].incident = issues'[Len(issues')].incident
  BY <1>3, <1>5
<1>7. \A n \in Nat, i \in Incidents : IssueOf(n, i) => IssueOf(n, i)'
  BY <1>3 DEF IssueOf
<1>8. Grows
  BY <1>2, <1>7 DEF Grows, Saved, HoldsLink
<1>9. issues'[Len(issues')].body = job[p].body
  BY <1>3, <1>5
<1>10. \A n \in DOMAIN issues' :
         n = Len(issues') \/ (n \in DOMAIN issues /\ issues'[n] = issues[n])
  BY <1>3, <1>4
<1>11. QED
  BY <1>3, <1>6, <1>8, <1>9, <1>10

-----------------------------------------------------------------------------
(* Safety of every step.                                                     *)

LEMMA InitSafe == ContribInit => Safe
<1> SUFFICES ASSUME ContribInit PROVE Safe
  OBVIOUS
<1>1. DraftsSaved
  BY DEF ContribInit, StoreInit, DraftsSaved
<1>2. (\A p \in Procs : JobSafe(p)) /\ (\A p \in Procs : UpdateSafe(p))
  BY DEF ContribInit, StoreInit, JobSafe, UpdateSafe, NoJob, Idle
<1>3. PostedAsPreviewed /\ LinkedToItsIssue /\ SaidSafe
  BY DEF ContribInit, StoreInit, PostedAsPreviewed, LinkedToItsIssue, SaidSafe
<1>4. QED
  BY <1>1, <1>2, <1>3 DEF Safe

(* A process that is not part of a step stays safe. *)
LEMMA BystanderSafe ==
  ASSUME ContribInv, Grows, NEW q \in Procs, job'[q] = job[q], op'[q] = op[q]
  PROVE  JobSafe(q)' /\ UpdateSafe(q)'
<1>1. JobSafe(q) /\ UpdateSafe(q)
  BY DEF ContribInv, Safe
<1>2. job[q].issue \in Nat /\ op[q].issue \in Nat
  BY LimitsAssumption DEF ContribInv, Typed, OpTyped, JobType
<1>3. /\ Saved(job[q].incident) => Saved(job[q].incident)' /\ job[q].incident \in Incidents
      /\ Saved(op[q].id) => Saved(op[q].id)' /\ op[q].id \in Incidents
  BY DEF Grows, Saved
<1>4. QED
  BY <1>1, <1>2, <1>3 DEF Grows, JobSafe, UpdateSafe, Approved, ChatOpen, RepoAllowed
(* Nor does a step of a call disturb the command it belongs to, unless the   *)
(* call is the update that the command waits for.                            *)
LEMMA CallSafe ==
  ASSUME ContribInv, Grows, NEW q \in Procs, job'[q] = job[q],
         op[q].pc \notin {"idle", "update_write"}, op'[q].pc # "update_write"
  PROVE  JobSafe(q)' /\ UpdateSafe(q)'
<1>1. JobSafe(q)
  BY DEF ContribInv, Safe
<1>2. job[q].pc # "linking"
  BY <1>1 DEF JobSafe
<1>3. job[q].issue \in Nat
  BY LimitsAssumption DEF ContribInv, Typed, JobType
<1>4. Saved(job[q].incident) => Saved(job[q].incident)' /\ job[q].incident \in Incidents
  BY DEF Grows, Saved
<1>5. QED
  BY <1>1, <1>2, <1>3, <1>4
     DEF Grows, JobSafe, UpdateSafe, Approved, ChatOpen, RepoAllowed

(* What was printed stays true. *)
LEMMA SaidKept ==
  ASSUME ContribInv, Grows, said' = said
  PROVE  SaidSafe'
<1>1. SaidSafe /\ said \subseteq Incidents \X (DOMAIN issues) \X BOOLEAN
  BY DEF ContribInv, Safe, Typed
<1>2. \A s \in said : s[1] \in Incidents
  BY <1>1
<1>3. \A s \in said : Saved(s[1])' /\ (s[3] => HoldsLink(s[1])')
  BY <1>1, <1>2 DEF SaidSafe, Grows
<1>4. QED
  BY <1>3 DEF SaidSafe

LEMMA DraftsKept ==
  ASSUME ContribInv, Grows,
         \A d \in Drafts : drafts'[d].state = "live" =>
           drafts[d].state = "live" /\ drafts'[d].incident = drafts[d].incident
  PROVE  DraftsSaved'
<1>1. \A d \in Drafts : drafts[d].state = "live" => Saved(drafts[d].incident)
  BY DEF ContribInv, Safe, DraftsSaved
<1>2. \A d \in Drafts : drafts'[d].state = "live" => Saved(drafts[d].incident)'
  <2> TAKE d \in Drafts
  <2> HAVE drafts'[d].state = "live"
  <2>1. PICK i : i = drafts[d].incident
    OBVIOUS
  <2>2. Saved(i)
    BY <1>1, <2>1
  <2>3. Saved(i)'
    BY <2>2 DEF Grows, Saved
  <2>4. i = drafts'[d].incident
    BY <2>1
  <2>5. QED
    BY <2>3, <2>4 DEF Saved
<1>3. QED
  BY <1>2 DEF DraftsSaved

LEMMA IssuesKept ==
  ASSUME ContribInv, UNCHANGED issues,
         \A i \in Incidents : inc'[i].issue = inc[i].issue
  PROVE  PostedAsPreviewed' /\ LinkedToItsIssue'
  BY DEF ContribInv, Safe, PostedAsPreviewed, LinkedToItsIssue

LEMMA StoreSafe ==
  ASSUME ContribInv, NEW p \in Procs, Continue(p), UNCHANGED contribVars
  PROVE  Safe'
<1>0. Typed /\ Safe
  BY DEF ContribInv
<1>1. UNCHANGED <<job, issues, listed, said>>
  BY DEF contribVars
<1>2. \A q \in Procs : q # p => op'[q] = op[q]
  <2>1. \/ \E o : op' = [op EXCEPT ![p] = o]
        \/ op' = op
    BY DEF Continue, SaveRow, CompactRead, ReplaceIndex, WriteUpdate, PruneLook, PruneUnread,
           PruneUnlink, PruneOther, PruneIndex, PruneIndexUnread
  <2>2. QED
    BY <1>0, <2>1 DEF Typed
<1>3. \A d \in Drafts : drafts'[d].state = "live" =>
        drafts[d].state = "live" /\ drafts'[d].incident = drafts[d].incident
  <2>1. CASE PruneOther(p)
    BY <1>0, <2>1 DEF PruneOther, OldDrafts, LiveDrafts, Typed, DraftType
  <2>2. CASE ~PruneOther(p)
    BY <2>2 DEF Continue, SaveRow, CompactRead, ReplaceIndex, WriteUpdate, PruneLook,
                PruneUnread, PruneUnlink, PruneIndex, PruneIndexUnread, fileVars
  <2>3. QED
    BY <2>1, <2>2
<1>4. CASE WriteUpdate(p)
  <2>1. UpdateSafe(p) /\ JobSafe(p)
    BY <1>0 DEF Safe
  <2>2. PICK i, n : i = op[p].id /\ n = op[p].issue
    OBVIOUS
  <2>3. /\ Grows
        /\ Saved(i)
        /\ inc'[i].issue # Unlinked
        /\ inc'[i].issue = n
        /\ IssueOf(n, i)
        /\ \A k \in Incidents : k # i => inc'[k] = inc[k]
    BY <1>0, <1>4, <2>1, <2>2, UpdateGrows
  <2>4. op[p].pc = "update_write" /\ op'[p].pc = "idle"
    BY <1>0, <1>4 DEF WriteUpdate, Typed, Idle
  <2>5. JobSafe(p)' /\ UpdateSafe(p)'
    <3>1. job[p].issue \in Nat
      BY LimitsAssumption, <1>0 DEF Typed, JobType
    <3>2. Saved(job[p].incident) => Saved(job[p].incident)' /\ job[p].incident \in Incidents
      BY <1>1, <2>3 DEF Grows, Saved
    <3>3. job[p].pc = "linking" => HoldsLink(job[p].incident)'
      BY <1>1, <2>1, <2>2, <2>3, <2>4 DEF JobSafe, HoldsLink
    <3>4. QED
      BY <1>1, <2>1, <2>3, <2>4, <3>1, <3>2, <3>3
         DEF Grows, JobSafe, UpdateSafe, Approved, ChatOpen, RepoAllowed
  <2>6. \A q \in Procs : JobSafe(q)' /\ UpdateSafe(q)'
    BY <1>1, <1>2, <2>3, <2>5, BystanderSafe
  <2>7. PostedAsPreviewed'
    BY <1>0, <1>1 DEF Safe, PostedAsPreviewed
  <2>8. LinkedToItsIssue'
    BY <1>0, <1>1, <2>3 DEF Safe, LinkedToItsIssue, IssueOf
  <2>9. QED
    BY <1>1, <1>3, <2>3, <2>6, <2>7, <2>8, SaidKept, DraftsKept DEF Safe
<1>5. CASE ~WriteUpdate(p)
  <2>1. Grows /\ \A i \in Incidents : inc'[i].issue = inc[i].issue
    <3>1. CASE PruneUnlink(p)
      BY <1>0, <3>1, UnlinkGrows
    <3>2. CASE ~PruneUnlink(p)
      <4>1. UNCHANGED inc
        BY <1>5, <3>2 DEF Continue, SaveRow, CompactRead, ReplaceIndex, PruneLook, PruneUnread,
                          PruneOther, PruneIndex, PruneIndexUnread, fileVars
      <4>2. QED
        BY <1>1, <4>1, SameGrows
    <3>3. QED
      BY <3>1, <3>2
  <2>2. op[p].pc \notin {"idle", "update_write"}
    BY <1>5 DEF Continue, SaveRow, CompactRead, ReplaceIndex, PruneLook, PruneUnread,
                PruneUnlink, PruneOther, FilesPruned, PruneIndex, PruneIndexUnread
  <2>3. op'[p].pc # "update_write"
    <3>1. OpTyped(op[p]) /\ op[p].pc # "update_write"
      BY <1>0, <2>2 DEF Typed
    <3>2. CASE \/ SaveRow(p) \/ CompactRead(p) \/ ReplaceIndex(p)
               \/ PruneIndex(p) \/ PruneIndexUnread(p)
      <4>1. \A r : /\ [Idle EXCEPT !.pc = "save_replace", !.rows = r].pc = "save_replace"
                   /\ [Idle EXCEPT !.pc = "prune_replace", !.rows = r].pc = "prune_replace"
                   /\ [Idle EXCEPT !.pc = "prune_replace", !.dropped = r].pc = "prune_replace"
        BY RowsTyped DEF Pcs
      <4>2. Idle.pc = "idle" /\ [Idle EXCEPT !.pc = "save_compact"].pc = "save_compact"
        BY DEF Idle
      <4>3. \A o : op' = [op EXCEPT ![p] = o] => op'[p] = o
        BY <1>0 DEF Typed
      <4>4. CASE SaveRow(p) \/ ReplaceIndex(p)
        BY <4>2, <4>3, <4>4 DEF SaveRow, ReplaceIndex
      <4>5. CASE CompactRead(p)
        <5>1. \/ op'[p] = Idle
              \/ \E r : op'[p] = [Idle EXCEPT !.pc = "save_replace", !.rows = r]
          BY <4>3, <4>5 DEF CompactRead
        <5>2. QED
          BY <4>1, <4>2, <5>1
      <4>6. CASE PruneIndex(p)
        <5>1. \/ op'[p] = Idle
              \/ \E r : op'[p] = [Idle EXCEPT !.pc = "prune_replace", !.rows = r]
          BY <4>3, <4>6 DEF PruneIndex
        <5>2. QED
          BY <4>1, <4>2, <5>1
      <4>7. CASE PruneIndexUnread(p)
        <5>1. \E r : op'[p] = [Idle EXCEPT !.pc = "prune_replace", !.dropped = r]
          BY <4>3, <4>7 DEF PruneIndexUnread
        <5>2. QED
          BY <4>1, <5>1
      <4>8. QED
        BY <3>2, <4>4, <4>5, <4>6, <4>7
    <3>3. CASE PruneLook(p)
      BY <1>0, <3>1, <3>3 DEF PruneLook, Typed, OpTyped
    <3>u. CASE PruneUnread(p)
      <4>1. PICK i, o :
              /\ op' = [op EXCEPT ![p] = o]
              /\ o = [op[p] EXCEPT !.todo = @ \ {i}, !.id = i, !.unread = TRUE,
                                   !.pc = "prune_unlink"]
        BY <3>u DEF PruneUnread
      <4>2. o.pc = "prune_unlink"
        BY <3>1, <4>1 DEF OpTyped
      <4>3. op'[p] = o
        BY <1>0, <4>1 DEF Typed
      <4>4. QED
        BY <4>2, <4>3
    <3>4. CASE PruneUnlink(p)
      BY <1>0, <3>1, <3>4 DEF PruneUnlink, Typed, OpTyped
    <3>5. CASE PruneOther(p)
      BY <3>1, <3>5 DEF PruneOther
    <3>6. QED
      BY <1>5, <3>2, <3>3, <3>u, <3>4, <3>5 DEF Continue
  <2>4. \A q \in Procs : JobSafe(q)' /\ UpdateSafe(q)'
    BY <1>1, <1>2, <2>1, <2>2, <2>3, BystanderSafe, CallSafe
  <2>5. QED
    BY <1>1, <1>3, <2>1, <2>4, SaidKept, DraftsKept, IssuesKept DEF Safe
<1>6. QED
  BY <1>4, <1>5

(* A command moves on without touching an incident, an issue or a call: what *)
(* has to be shown is that the new stage is a safe one.                      *)
LEMMA StageSafe ==
  ASSUME ContribInv, NEW p \in Procs, NEW j \in JobType, job' = [job EXCEPT ![p] = j],
         UNCHANGED <<inc, op, issues>>,
         j.body = "previewed",
         j.pc # "idle" => Saved(j.incident),
         j.pc = "posting" => Approved(j.request) /\ ChatOpen(j.request) /\ RepoAllowed(j.request),
         j.pc \notin {"posted", "linking"}
  PROVE  /\ Grows
         /\ \A q \in Procs : JobSafe(q)' /\ UpdateSafe(q)'
         /\ PostedAsPreviewed' /\ LinkedToItsIssue'
<1>0. Typed /\ Safe
  BY DEF ContribInv
<1>1. Grows
  BY SameGrows
<1>2. job'[p] = j /\ \A q \in Procs : q # p => job'[q] = job[q]
  BY <1>0, JobChange
<1>3. UpdateSafe(p)'
  BY <1>0 DEF Safe, UpdateSafe, Saved, IssueOf
<1>4. JobSafe(p)'
  <2>1. Saved(j.incident) => Saved(j.incident)'
    BY DEF Saved
  <2>2. QED
    BY <1>2, <2>1 DEF JobSafe, Approved, ChatOpen, RepoAllowed, Saved
<1>5. \A q \in Procs : JobSafe(q)' /\ UpdateSafe(q)'
  BY <1>1, <1>2, <1>3, <1>4, BystanderSafe
<1>6. QED
  BY <1>1, <1>5, IssuesKept

LEMMA CommandSafe ==
  ASSUME ContribInv, NEW p \in Procs,
         \/ \E i \in Incidents : Resolve(p, i)
         \/ SaveCandidate(p)
         \/ \E d \in Drafts, selected \in BOOLEAN : Draft(p, d, selected)
         \/ \E d \in Drafts : SubmitDraft(p, d)
         \/ \E via \in Vias, surface \in Surfaces : Decide(p, via, surface)
         \/ Report(p)
         \/ ReportUnloaded(p)
         \/ EndCommand(p)
  PROVE  Safe'
<1>0. Typed /\ Safe /\ JobSafe(p) /\ job[p] \in JobType
  BY DEF ContribInv, Safe, Typed
<1>1. ASSUME NEW i \in Incidents, Resolve(p, i)
      PROVE  Safe'
  <2>1. PICK a : a = [NoJob EXCEPT !.pc = "resolved"]
    OBVIOUS
  <2>2. a \in JobType /\ a.pc = "resolved" /\ a.body = "previewed"
    BY <2>1, NoJobTyped, StageTyped DEF NoJob
  <2>3. PICK j : j = [a EXCEPT !.incident = i]
    OBVIOUS
  <2>4. j \in JobType /\ j.pc = "resolved" /\ j.body = "previewed" /\ j.incident = i
    BY <2>2, <2>3 DEF JobType
  <2>5. /\ job' = [job EXCEPT ![p] = j]
        /\ Saved(i)
        /\ UNCHANGED <<inc, op, issues, drafts, said>>
    BY <1>1, <2>1, <2>3 DEF Resolve, Saved, storeVars, fileVars
  <2>6. QED
    BY <2>4, <2>5, StageSafe, SaidKept, DraftsKept DEF Safe
<1>2. CASE SaveCandidate(p)
  <2>1. PICK j : j = [job[p] EXCEPT !.pc = "candidate"]
    OBVIOUS
  <2>2. j \in JobType /\ j.pc = "candidate" /\ j.body = job[p].body /\ j.incident = job[p].incident
    BY <1>0, <2>1, StageTyped
  <2>3. /\ job' = [job EXCEPT ![p] = j]
        /\ UNCHANGED <<inc, op, issues, drafts, said>>
        /\ job[p].pc # "idle"
    BY <1>2, <2>1 DEF SaveCandidate
  <2>4. j.body = "previewed" /\ Saved(j.incident)
    BY <1>0, <2>2, <2>3 DEF JobSafe
  <2>5. QED
    BY <2>2, <2>3, <2>4, StageSafe, SaidKept, DraftsKept DEF Safe
<1>3. ASSUME NEW d \in Drafts, NEW selected \in BOOLEAN, Draft(p, d, selected)
      PROVE  Safe'
  <2>1. PICK a : a = [job[p] EXCEPT !.pc = "drafted"]
    OBVIOUS
  <2>2. a \in JobType /\ a.pc = "drafted" /\ a.body = job[p].body /\ a.incident = job[p].incident
    BY <1>0, <2>1, StageTyped
  <2>3. PICK j : j = [a EXCEPT !.selected = selected]
    OBVIOUS
  <2>4. j \in JobType /\ j.pc = "drafted" /\ j.body = job[p].body /\ j.incident = job[p].incident
    BY <2>2, <2>3 DEF JobType
  <2>5. /\ job' = [job EXCEPT ![p] = j]
        /\ UNCHANGED <<inc, op, issues, said>>
        /\ job[p].pc # "idle"
    BY <1>3, <2>1, <2>3 DEF Draft
  <2>6. j.body = "previewed" /\ Saved(j.incident)
    BY <1>0, <2>4, <2>5 DEF JobSafe
  <2>7. DraftsSaved'
    <3>1. \A e \in Drafts : e # d => drafts'[e] = drafts[e]
      BY <1>0, <1>3 DEF Draft, SaveDraftFile, Typed
    <3>2. drafts'[d].incident = job[p].incident
      BY <1>0, <1>3 DEF Draft, SaveDraftFile, Typed
    <3>3. QED
      BY <1>0, <2>4, <2>5, <2>6, <3>1, <3>2 DEF Safe, DraftsSaved, Saved
  <2>8. QED
    BY <2>4, <2>5, <2>6, <2>7, StageSafe, SaidKept DEF Safe
<1>4. ASSUME NEW d \in Drafts, SubmitDraft(p, d)
      PROVE  Safe'
  <2>0. drafts[d] \in DraftType /\ drafts[d].body = "previewed" /\ Saved(drafts[d].incident)
    BY <1>0, <1>4 DEF SubmitDraft, DigestMatches, Safe, DraftsSaved, Typed
  <2>1. PICK a : a = [NoJob EXCEPT !.pc = "drafted"]
    OBVIOUS
  <2>2. a \in JobType /\ a.pc = "drafted"
    BY <2>1, NoJobTyped, StageTyped
  <2>3. PICK b : b = [a EXCEPT !.incident = drafts[d].incident]
    OBVIOUS
  <2>4. b \in JobType /\ b.pc = "drafted" /\ b.incident = drafts[d].incident
    BY <2>0, <2>2, <2>3 DEF JobType, DraftType
  <2>5. PICK c : c = [b EXCEPT !.body = drafts[d].body]
    OBVIOUS
  <2>6. c \in JobType /\ c.pc = "drafted" /\ c.incident = drafts[d].incident /\ c.body = "previewed"
    BY <2>0, <2>4, <2>5 DEF JobType, Bodies
  <2>7. PICK j : j = [c EXCEPT !.selected = drafts[d].selected]
    OBVIOUS
  <2>8. j \in JobType /\ j.pc = "drafted" /\ j.incident = drafts[d].incident /\ j.body = "previewed"
    BY <2>0, <2>6, <2>7 DEF JobType, DraftType
  <2>9. /\ job' = [job EXCEPT ![p] = j]
        /\ UNCHANGED <<inc, op, issues, drafts, said>>
    BY <1>4, <2>1, <2>3, <2>5, <2>7 DEF SubmitDraft, storeVars, fileVars
  <2>10. Saved(j.incident)
    BY <2>0, <2>8
  <2>11. QED
    BY <2>8, <2>9, <2>10, StageSafe, SaidKept, DraftsKept DEF Safe
<1>5. ASSUME NEW via \in Vias, NEW surface \in Surfaces, Decide(p, via, surface)
      PROVE  Safe'
  <2>1. PICK r : r = [via |-> via, surface |-> surface, selected |-> job[p].selected,
                      listed |-> listed]
    OBVIOUS
  <2>2. r \in RequestType
    BY <1>0, <2>1 DEF Typed, RequestType, JobType
  <2>3. PICK a : a = [job[p] EXCEPT !.pc = "posting"]
    OBVIOUS
  <2>4. a \in JobType /\ a.pc = "posting" /\ a.body = job[p].body /\ a.incident = job[p].incident
    BY <1>0, <2>3, StageTyped
  <2>5. PICK j : j = [a EXCEPT !.request = r]
    OBVIOUS
  <2>6. /\ j \in JobType /\ j.pc = "posting" /\ j.body = job[p].body
        /\ j.incident = job[p].incident /\ j.request = r
    BY <2>2, <2>4, <2>5 DEF JobType
  <2>7. /\ job' = [job EXCEPT ![p] = j]
        /\ UNCHANGED <<inc, op, issues, drafts, said>>
        /\ job[p].pc # "idle"
        /\ Approved(r) /\ ChatOpen(r) /\ RepoAllowed(r)
    BY <1>5, <2>1, <2>3, <2>5 DEF Decide, storeVars, fileVars
  <2>8. j.body = "previewed" /\ Saved(j.incident)
    BY <1>0, <2>6, <2>7 DEF JobSafe
  <2>9. QED
    BY <2>6, <2>7, <2>8, StageSafe, SaidKept, DraftsKept DEF Safe
<1>6. ASSUME job' = [job EXCEPT ![p] = NoJob], UNCHANGED <<inc, op, issues, drafts>>
      PROVE  /\ DraftsSaved' /\ Grows
             /\ \A q \in Procs : JobSafe(q)' /\ UpdateSafe(q)'
             /\ PostedAsPreviewed' /\ LinkedToItsIssue'
  <2>1. NoJob.body = "previewed" /\ NoJob.pc = "idle"
    BY DEF NoJob
  <2>2. QED
    BY <1>6, <2>1, NoJobTyped, StageSafe, DraftsKept
<1>7. CASE EndCommand(p)
  <2>1. job' = [job EXCEPT ![p] = NoJob] /\ UNCHANGED <<inc, op, issues, drafts, said>>
    BY <1>7 DEF EndCommand, storeVars, fileVars
  <2>2. QED
    BY <1>6, <2>1, SaidKept DEF Safe
<1>8. CASE Report(p)
  <2>1. /\ job' = [job EXCEPT ![p] = NoJob] /\ UNCHANGED <<inc, op, issues, drafts>>
        /\ said' = said \cup {<<job[p].incident, job[p].issue, job[p].pc = "linking">>}
    BY <1>8 DEF Report, storeVars, fileVars
  <2>2. Saved(job[p].incident) /\ (job[p].pc = "linking" => HoldsLink(job[p].incident))
    <3>1. CASE CannotLink(p)
      BY <1>0, <3>1 DEF CannotLink, JobSafe, HoldsLink
    <3>2. CASE LinkDone(p)
      BY <1>0, <3>2 DEF LinkDone, JobSafe, Free
    <3>3. QED
      BY <1>8, <3>1, <3>2 DEF Report, MayReport
  <2>3. SaidSafe'
    <3>b. PICK b \in BOOLEAN : b = (job[p].pc = "linking")
      OBVIOUS
    <3>a. PICK i, n : i = job[p].incident /\ n = job[p].issue
      OBVIOUS
    <3>p. PICK t : t = <<i, n, b>>
      OBVIOUS
    <3>0. t = <<i, n, b>> /\ t[1] = i /\ t[3] = b
      BY <3>p, SaidParts, Zenon
    <3>1. \A s \in said' : Saved(s[1]) /\ (s[3] => HoldsLink(s[1]))
      <4>1. said' = said \cup {t} /\ Saved(t[1]) /\ (t[3] => HoldsLink(t[1]))
        <5>1. said' = said \cup {t}
          BY <2>1, <3>b, <3>a, <3>0
        <5>2. Saved(i) /\ (b => HoldsLink(i))
          BY <2>2, <3>b, <3>a
        <5>3. QED
          BY <3>0, <5>1, <5>2
      <4>2. \A s \in said : Saved(s[1]) /\ (s[3] => HoldsLink(s[1]))
        BY <1>0 DEF Safe, SaidSafe
      <4>3. QED
        BY <4>1, <4>2
    <3>2. QED
      BY <2>1, <3>1 DEF SaidSafe, Saved, HoldsLink
  <2>4. QED
    BY <1>6, <2>1, <2>3 DEF Safe
<1>9. CASE ReportUnloaded(p)
  <2>1. /\ job' = [job EXCEPT ![p] = NoJob] /\ UNCHANGED <<inc, op, issues, drafts>>
        /\ said' = said \cup {<<job[p].incident, job[p].issue, FALSE>>}
        /\ job[p].pc = "posted"
    BY <1>9 DEF ReportUnloaded, fileVars
  <2>2. Saved(job[p].incident)
    BY <1>0, <2>1 DEF JobSafe
  <2>3. SaidSafe'
    <3>a. PICK i, n, b : i = job[p].incident /\ n = job[p].issue /\ b = FALSE
      OBVIOUS
    <3>p. PICK t : t = <<i, n, b>>
      OBVIOUS
    <3>0. t = <<i, n, b>> /\ t[1] = i /\ t[3] = b
      BY <3>p, SaidParts, Zenon
    <3>1. \A s \in said' : Saved(s[1]) /\ (s[3] => HoldsLink(s[1]))
      <4>1. said' = said \cup {t} /\ Saved(t[1]) /\ ~t[3]
        BY <2>1, <2>2, <3>a, <3>0
      <4>2. \A s \in said : Saved(s[1]) /\ (s[3] => HoldsLink(s[1]))
        BY <1>0 DEF Safe, SaidSafe
      <4>3. QED
        BY <4>1, <4>2
    <3>2. QED
      BY <2>1, <3>1 DEF SaidSafe, Saved, HoldsLink
  <2>4. QED
    BY <1>6, <2>1, <2>3 DEF Safe
<1>10. QED
  BY <1>1, <1>2, <1>3, <1>4, <1>5, <1>7, <1>8, <1>9

(* wtf begins the file of an incident that no draft, command or link knows. *)
LEMMA SaveFileSafe ==
  ASSUME ContribInv, NEW p \in Procs, NEW i \in Incidents, Wtf(p, i)
  PROVE  Safe'
<1>0. Typed /\ Safe /\ JobSafe(p)
  BY DEF ContribInv, Safe
<1>1. Grows
  BY <1>0, SaveGrows
<1>2. UNCHANGED <<job, issues, said, drafts>> /\ job[p].pc = "idle"
  BY DEF Wtf, SaveFile, Ready, contribVars
<1>3. op'[p].pc = "save_row" /\ \A q \in Procs : q # p => op'[q] = op[q]
  <2>1. PICK a : a = [Idle EXCEPT !.pc = "save_row"]
    OBVIOUS
  <2>2. OpTyped(a) /\ a.pc = "save_row"
    BY <2>1, IdleTyped, FieldTyped DEF Pcs
  <2>3. [a EXCEPT !.id = i].pc = "save_row"
    BY <2>2 DEF OpTyped
  <2>4. op' = [op EXCEPT ![p] = [a EXCEPT !.id = i]]
    BY <2>1 DEF Wtf, SaveFile
  <2>5. QED
    BY <1>0, <2>3, <2>4 DEF Typed
<1>4. JobSafe(p)' /\ UpdateSafe(p)'
  BY <1>0, <1>2, <1>3 DEF JobSafe, UpdateSafe
<1>5. \A q \in Procs : JobSafe(q)' /\ UpdateSafe(q)'
  BY <1>1, <1>2, <1>3, <1>4, BystanderSafe
<1>6. inc' = [inc EXCEPT ![i] = Written(Unlinked, now)]
  BY DEF Wtf, SaveFile, SaveFirst, FileThenRow
<1>7. PostedAsPreviewed' /\ LinkedToItsIssue'
  BY <1>0, <1>2, <1>6 DEF Safe, Typed, PostedAsPreviewed, LinkedToItsIssue, Written
<1>8. QED
  BY <1>1, <1>2, <1>5, <1>7, SaidKept, DraftsKept DEF Safe

LEMMA PostSafe ==
  ASSUME ContribInv, NEW p \in Procs, Post(p)
  PROVE  Safe'
<1>0. Typed /\ Safe /\ JobSafe(p)
  BY DEF ContribInv, Safe
<1>1. job[p].pc = "posting" /\ UNCHANGED <<inc, op, drafts, said>>
  BY DEF Post, GiveUp, storeVars, fileVars
<1>2. Saved(job[p].incident) /\ job[p].body = "previewed"
  BY <1>0, <1>1 DEF JobSafe
<1>3. PICK n, i : n = Len(issues') /\ i = job[p].incident
  OBVIOUS
<1>4. /\ Grows
      /\ n \in DOMAIN issues'
      /\ issues'[n].incident = i
      /\ issues'[n].body = "previewed"
      /\ \A m \in DOMAIN issues' : m = n \/ (m \in DOMAIN issues /\ issues'[m] = issues[m])
  BY <1>0, <1>2, <1>3, PostGrows
<1>5. \A q \in Procs : q # p => job'[q] = job[q]
  BY <1>0 DEF Post, GiveUp, Typed
<1>6. UpdateSafe(p)'
  <2>1. op[p].pc = "update_write" => op[p].id \in Incidents /\ op[p].issue \in Nat
    BY <1>0, LimitsAssumption DEF Typed, OpTyped
  <2>2. UpdateSafe(p)
    BY <1>0 DEF Safe
  <2>3. QED
    BY <1>1, <1>4, <2>1, <2>2 DEF UpdateSafe, Grows
<1>7. JobSafe(p)'
  <2>1. CASE job' = [job EXCEPT ![p] = NoJob]
    BY <1>0, <2>1 DEF Typed, NoJob, JobSafe
  <2>2. CASE job' = [job EXCEPT ![p] = [NoJob EXCEPT !.pc = "posted", !.issue = Len(issues'),
                                                     !.incident = job[p].incident]]
    <3>1. PICK a : a = [NoJob EXCEPT !.pc = "posted"]
      OBVIOUS
    <3>2. a \in JobType /\ a.pc = "posted" /\ a.body = "previewed"
      BY <3>1, NoJobTyped, StageTyped DEF NoJob
    <3>3. PICK b : b = [a EXCEPT !.issue = n]
      OBVIOUS
    <3>4. /\ b.pc = "posted" /\ b.body = "previewed" /\ b.issue = n
          /\ b = [pc |-> b.pc, incident |-> b.incident, body |-> b.body, selected |-> b.selected,
                  issue |-> b.issue, request |-> b.request]
      BY <3>2, <3>3 DEF JobType
    <3>5. PICK c : c = [b EXCEPT !.incident = i]
      OBVIOUS
    <3>6. c.pc = "posted" /\ c.body = "previewed" /\ c.issue = n /\ c.incident = i
      BY <3>4, <3>5
    <3>7. job'[p] = c
      BY <1>0, <1>3, <2>2, <3>1, <3>3, <3>5 DEF Typed
    <3>8. Saved(i)'
      BY <1>2, <1>3, <1>4 DEF Grows, Saved
    <3>9. IssueOf(n, i)'
      BY <1>4 DEF IssueOf
    <3>10. QED
      BY <3>6, <3>7, <3>8, <3>9 DEF JobSafe
  <2>3. QED
    BY <2>1, <2>2 DEF Post, GiveUp
<1>8. \A q \in Procs : JobSafe(q)' /\ UpdateSafe(q)'
  BY <1>1, <1>4, <1>5, <1>6, <1>7, BystanderSafe
<1>9. PostedAsPreviewed'
  BY <1>0, <1>4 DEF Safe, PostedAsPreviewed
<1>10. LinkedToItsIssue'
  <2>1. \A k \in Incidents : inc[k].issue # Unlinked => IssueOf(inc[k].issue, k)
    BY <1>0 DEF Safe, LinkedToItsIssue, IssueOf
  <2>2. \A k \in Incidents : inc[k].issue \in Nat
    BY <1>0, LimitsAssumption DEF Typed, FileType
  <2>3. \A k \in Incidents : inc[k].issue # Unlinked => IssueOf(inc[k].issue, k)'
    BY <1>1, <1>4, <2>1, <2>2 DEF Grows
  <2>4. QED
    BY <1>1, <2>3 DEF LinkedToItsIssue, IssueOf
<1>11. QED
  BY <1>1, <1>4, <1>8, <1>9, <1>10, SaidKept, DraftsKept DEF Safe

LEMMA LinkSafe ==
  ASSUME ContribInv, NEW p \in Procs, Link(p)
  PROVE  Safe'
<1>0. Typed /\ Safe /\ JobSafe(p)
  BY DEF ContribInv, Safe
<1>1. job[p].pc = "posted" /\ UNCHANGED <<inc, issues, said, drafts>>
  BY DEF Link, LoadForUpdate, fileVars
<1>2. PICK n, i : n = job[p].issue /\ i = job[p].incident
  OBVIOUS
<1>3. Saved(i) /\ IssueOf(n, i) /\ job[p].body = "previewed"
  BY <1>0, <1>1, <1>2 DEF JobSafe
<1>4. /\ op'[p].pc = "update_write" /\ op'[p].id = i /\ op'[p].issue = n
      /\ \A q \in Procs : q # p => op'[q] = op[q]
  BY <1>0, <1>2, <1>3, LinkTyped
<1>5. /\ job'[p].pc = "linking" /\ job'[p].issue = n /\ job'[p].incident = i
      /\ job'[p].body = "previewed"
      /\ \A q \in Procs : q # p => job'[q] = job[q]
  <2>1. PICK j : j = [job[p] EXCEPT !.pc = "linking"]
    OBVIOUS
  <2>2. /\ j \in JobType /\ j.pc = "linking" /\ j.issue = n /\ j.incident = i
        /\ j.body = "previewed"
    BY <1>0, <1>2, <1>3, <2>1, StageTyped DEF Typed
  <2>3. job' = [job EXCEPT ![p] = j]
    BY <1>0, <2>1 DEF Link, Typed
  <2>4. QED
    BY <1>0, <2>2, <2>3, JobChange
<1>6. Grows /\ Saved(i)' /\ IssueOf(n, i)'
  BY <1>1, <1>3, SameGrows DEF Saved, IssueOf
<1>7. JobSafe(p)' /\ UpdateSafe(p)'
  BY <1>4, <1>5, <1>6 DEF JobSafe, UpdateSafe
<1>8. \A q \in Procs : JobSafe(q)' /\ UpdateSafe(q)'
  BY <1>4, <1>5, <1>6, <1>7, BystanderSafe
<1>9. QED
  BY <1>1, <1>6, <1>8, SaidKept, DraftsKept, IssuesKept DEF Safe

LEMMA PruneSafe ==
  ASSUME ContribInv, NEW p \in Procs, Prune(p)
  PROVE  Safe'
<1>0. Typed /\ Safe /\ JobSafe(p)
  BY DEF ContribInv, Safe
<1>1. UNCHANGED <<inc, issues, job, said, drafts>> /\ job[p].pc = "idle"
  BY DEF Prune, PruneStart, Ready, fileVars, contribVars
<1>2. op'[p].pc = "prune" /\ \A q \in Procs : q # p => op'[q] = op[q]
  <2>1. PICK a : a = [Idle EXCEPT !.pc = "prune"]
    OBVIOUS
  <2>2. OpTyped(a) /\ a.pc = "prune"
    BY <2>1, IdleTyped, FieldTyped DEF Pcs
  <2>3. [a EXCEPT !.todo = Live].pc = "prune"
    BY <2>2 DEF OpTyped
  <2>4. op' = [op EXCEPT ![p] = [a EXCEPT !.todo = Live]]
    BY <2>1 DEF Prune, PruneStart
  <2>5. QED
    BY <1>0, <2>3, <2>4 DEF Typed
<1>3. JobSafe(p)' /\ UpdateSafe(p)'
  BY <1>0, <1>1, <1>2 DEF JobSafe, UpdateSafe
<1>4. Grows
  BY <1>1, SameGrows
<1>5. \A q \in Procs : JobSafe(q)' /\ UpdateSafe(q)'
  BY <1>1, <1>2, <1>3, <1>4, BystanderSafe
<1>6. QED
  BY <1>1, <1>4, <1>5, SaidKept, DraftsKept, IssuesKept DEF Safe

LEMMA EnvironmentSafe ==
  ASSUME ContribInv,
         \/ \E p \in Procs : Die(p)
         \/ Unlist
         \/ EditOrTick
  PROVE  Safe'
<1>0. Typed /\ Safe
  BY DEF ContribInv
<1>1. ASSUME NEW p \in Procs, Die(p)
      PROVE  Safe'
  <2>1. UNCHANGED <<inc, issues, said, drafts>>
    BY <1>1 DEF Die, fileVars
  <2>2. /\ op'[p] = Idle /\ job'[p] = NoJob
        /\ \A q \in Procs : q # p => op'[q] = op[q] /\ job'[q] = job[q]
    BY <1>0, <1>1 DEF Die, Typed
  <2>3. /\ NoJob.pc = "idle" /\ NoJob.body = "previewed"
        /\ Idle.pc = "idle"
    BY DEF NoJob, Idle
  <2>4. JobSafe(p)' /\ UpdateSafe(p)'
    BY <2>2, <2>3 DEF JobSafe, UpdateSafe
  <2>5. Grows
    BY <2>1, SameGrows
  <2>6. \A q \in Procs : JobSafe(q)' /\ UpdateSafe(q)'
    BY <2>2, <2>4, <2>5, BystanderSafe
  <2>7. QED
    BY <2>1, <2>5, <2>6, SaidKept, DraftsKept, IssuesKept DEF Safe
<1>3. CASE Unlist \/ EditOrTick
  <2>1. UNCHANGED <<inc, op, job, issues, said>>
    BY <1>3 DEF Unlist, EditOrTick, Tick, EditText, EditRouting, storeVars, fileVars, contribVars
  <2>2. Grows
    BY <2>1, SameGrows
  <2>3. DraftsSaved'
    <3>1. CASE UNCHANGED drafts
      BY <2>2, <3>1, DraftsKept
    <3>2. ASSUME NEW e \in Drafts, EditText(e)
          PROVE  DraftsSaved'
      <4>1. \A d \in Drafts :
              drafts'[d].state = drafts[d].state /\ drafts'[d].incident = drafts[d].incident
        BY <1>0, <3>2, TextEdited DEF Typed
      <4>2. QED
        BY <2>2, <4>1, DraftsKept
    <3>3. ASSUME NEW e \in Drafts, NEW i \in Incidents, NEW selected \in BOOLEAN,
                 EditRouting(e, i, selected)
          PROVE  DraftsSaved'
      <4>1. \A d \in Drafts :
              /\ drafts'[d].state = drafts[d].state
              /\ drafts'[d].incident = IF d = e THEN i ELSE drafts[d].incident
        BY <1>0, <3>3, RoutingEdited DEF Typed
      <4>2. Saved(i) /\ \A d \in Drafts : drafts[d].state = "live" => Saved(drafts[d].incident)
        BY <1>0, <3>3 DEF EditRouting, Saved, Safe, DraftsSaved
      <4>3. \A d \in Drafts : drafts'[d].state = "live" => Saved(drafts'[d].incident)
        BY <4>1, <4>2
      <4>4. QED
        BY <2>1, <4>3 DEF DraftsSaved, Saved
    <3>4. QED
      BY <1>3, <3>1, <3>2, <3>3 DEF Unlist, EditOrTick, Tick, storeVars, fileVars
  <2>4. \A q \in Procs : JobSafe(q)' /\ UpdateSafe(q)'
    BY <2>1, <2>2, BystanderSafe
  <2>5. QED
    BY <2>1, <2>2, <2>3, <2>4, SaidKept, IssuesKept DEF Safe
<1>4. QED
  BY <1>1, <1>3

LEMMA NextSafe ==
  ASSUME ContribInv, [ContribNext]_vars
  PROVE  Safe'
<1>1. Contributors \subseteq Procs /\ Pruners \subseteq Procs
  BY CommandsAssumption
<1>2. ASSUME NEW p \in Contributors, Commands(p)
      PROVE  Safe'
  <2>1. p \in Procs
    BY <1>1
  <2>2. CASE \E i \in Incidents : Wtf(p, i)
    BY <2>1, <2>2, SaveFileSafe
  <2>3. CASE Post(p)
    BY <2>1, <2>3, PostSafe
  <2>4. CASE Link(p)
    BY <2>1, <2>4, LinkSafe
  <2>5. CASE ~(\E i \in Incidents : Wtf(p, i)) /\ ~Post(p) /\ ~Link(p)
    BY <1>2, <2>1, <2>5, CommandSafe DEF Commands
  <2>6. QED
    BY <2>2, <2>3, <2>4, <2>5
<1>3. CASE \E p \in Pruners : Prune(p)
  BY <1>1, <1>3, PruneSafe
<1>4. CASE \E p \in Procs : StoreStep(p)
  BY <1>4, StoreSafe DEF StoreStep
<1>5. CASE \/ \E p \in Procs : Die(p)
           \/ Unlist
           \/ EditOrTick
  BY <1>5, EnvironmentSafe
<1>6. CASE UNCHANGED vars
  BY <1>6
     DEF ContribInv, Safe, DraftsSaved, JobSafe, UpdateSafe, PostedAsPreviewed, LinkedToItsIssue,
         SaidSafe, Saved, IssueOf, HoldsLink, vars, storeVars, fileVars, contribVars
<1>7. QED
  BY <1>2, <1>3, <1>4, <1>5, <1>6 DEF ContribNext

-----------------------------------------------------------------------------
(* Theorems.                                                                 *)

LEMMA ContribInductive == ContribSpec => []ContribInv
<1>1. ContribInit => ContribInv
  BY InitTyped, InitSafe DEF ContribInv
<1>2. ContribInv /\ [ContribNext]_vars => ContribInv'
  BY NextTyped, NextSafe DEF ContribInv
<1>3. QED
  BY <1>1, <1>2, PTL DEF ContribSpec

(* No issue has a body that was changed after its preview (load_draft refuses *)
(* a draft whose digest does not match): for any number of processes, drafts  *)
(* and edits.                                                                 *)
THEOREM PublishedAsPreviewed == ContribSpec => []PostedAsPreviewed
<1>1. ContribInv => PostedAsPreviewed
  BY DEF ContribInv, Safe
<1>2. QED
  BY <1>1, ContribInductive, PTL

(* An incident is linked to an issue whose draft, as it was sent, is about it *)
(* (_submit, _link_incident): also when the draft was readdressed by hand.    *)
THEOREM LinksItsOwnIssue == ContribSpec => []LinkedToItsIssue
<1>1. ContribInv => LinkedToItsIssue
  BY DEF ContribInv, Safe
<1>2. QED
  BY <1>1, ContribInductive, PTL

(* After a command that wrote the link printed "Linked INC -> repo#n", the    *)
(* file of the incident, while it exists, carries a link: wtf never writes it *)
(* again, prune only deletes it, an update replaces a link by a link. A       *)
(* command that could not load the file prints the same and is not covered.   *)
THEOREM LinksStay == ContribSpec => []LinkStays
<1>1. ContribInv => LinkStays
  BY DEF ContribInv, Safe, SaidSafe, LinkStays, HoldsLink
<1>2. QED
  BY <1>1, ContribInductive, PTL

(* The number of issues grows in one action only. *)
LEMMA OnlyPostAdds ==
  ASSUME ContribInv, [ContribNext]_vars, Len(issues') > Len(issues)
  PROVE  \E p \in Procs : Post(p)
<1>1. Typed
  BY DEF ContribInv
<1>2. ASSUME UNCHANGED issues PROVE FALSE
  <2> HIDE DEF IssueType
  <2>1. Len(issues) \in Nat
    BY <1>1 DEF Typed
  <2>2. QED
    BY <1>2, <2>1
<1>3. \/ \E p \in Procs : Post(p)
      \/ UNCHANGED issues
  <2>1. CASE \E p \in Contributors : Commands(p)
    BY <2>1, CommandsAssumption
       DEF Commands, Wtf, Resolve, SaveCandidate, Draft, SubmitDraft, Decide, Link, Report,
           ReportUnloaded, EndCommand, contribVars
  <2>2. CASE ~(\E p \in Contributors : Commands(p))
    BY <2>2 DEF ContribNext, Prune, StoreStep, Die, Unlist, EditOrTick, contribVars, vars
  <2>3. QED
    BY <2>1, <2>2
<1>4. QED
  BY <1>2, <1>3

(* Every issue on GitHub was approved by a human, from a permitted surface,   *)
(* for a repository that was listed at that moment or that the draft, as it   *)
(* was sent, says the user named (_submit, submit_issue), whatever else runs, *)
(* is edited or dies meanwhile.                                               *)
THEOREM ApprovedOnly == ContribSpec => OnlyApproved
<1> DEFINE Deliberate ==
      Len(issues') > Len(issues) =>
        \E p \in Procs :
          LET r == job[p].request
          IN  /\ job[p].pc = "posting" /\ job'[p].pc # "posting"
              /\ r.via \in {"flag", "yes"}
              /\ r.surface = "cli" \/ AllowChat
              /\ r.selected \/ r.listed
<1>1. ContribInv /\ [ContribNext]_vars => [Deliberate]_vars
  <2> SUFFICES ASSUME ContribInv, [ContribNext]_vars, Len(issues') > Len(issues)
               PROVE  Deliberate
    BY DEF Deliberate
  <2>1. PICK p \in Procs : Post(p)
    BY OnlyPostAdds
  <2>2. job[p].pc = "posting" /\ JobSafe(p)
    BY <2>1 DEF Post, ContribInv, Safe
  <2>3. job'[p].pc # "posting"
    <3>1. CASE job' = [job EXCEPT ![p] = NoJob]
      BY <3>1 DEF ContribInv, Typed, NoJob
    <3>2. CASE job' = [job EXCEPT ![p] = [NoJob EXCEPT !.pc = "posted", !.issue = Len(issues'),
                                                       !.incident = job[p].incident]]
      <4>1. PICK a : a = [NoJob EXCEPT !.pc = "posted"]
        OBVIOUS
      <4>2. PICK b : b = [a EXCEPT !.issue = Len(issues')]
        OBVIOUS
      <4>3. PICK c : c = [b EXCEPT !.incident = job[p].incident]
        OBVIOUS
      <4>4. a.pc = "posted" /\ a.issue = Unlinked
        BY <4>1 DEF NoJob
      <4>5. b.pc = "posted"
        BY <4>2, <4>4
      <4>6. c.pc = "posted"
        BY <4>3, <4>5
      <4>7. job'[p] = c
        BY <3>2, <4>1, <4>2, <4>3 DEF ContribInv, Typed
      <4>8. QED
        BY <4>6, <4>7
    <3>3. QED
      BY <2>1, <3>1, <3>2 DEF Post, GiveUp
  <2>4. QED
    BY <2>2, <2>3 DEF JobSafe, Approved, ChatOpen, RepoAllowed, Deliberate
<1>2. QED
  BY <1>1, ContribInductive, PTL DEF ContribSpec, OnlyApproved, Deliberate

-----------------------------------------------------------------------------
(* The types of everything the commands and the store keep.                  *)

LEMMA CommandStoreTyped ==
  ASSUME ContribInv, StoreTypeOK, NEW p \in Procs, Commands(p)
  PROVE  StoreTypeOK'
<1>1. JobSafe(p) /\ job[p] \in JobType
  BY DEF ContribInv, Safe, Typed
<1>2. CASE \E i \in Incidents : Wtf(p, i)
  BY <1>2, SaveTyped DEF Wtf
<1>3. CASE Link(p)
  <2>1. job[p].issue \in 0..MaxIssue /\ LinkedIncident(p) \in Incidents
    BY <1>1, <1>3 DEF JobSafe, Link, JobType, LinkedIncident, Saved
  <2>2. QED
    BY <1>3, <2>1, UpdateTyped DEF Link
<1>4. CASE SaveCandidate(p)
  BY <1>4 DEF SaveCandidate, SaveCandidateFile, StoreTypeOK
<1>5. ASSUME NEW d \in Drafts, NEW selected \in BOOLEAN, Draft(p, d, selected)
      PROVE  StoreTypeOK'
  <2>1. drafts' \in [Drafts -> DraftType]
    BY <1>1, <1>5 DEF Draft, SaveDraftFile, StoreTypeOK, DraftType, JobType, Bodies
  <2>2. QED
    BY <1>5, <2>1 DEF Draft, StoreTypeOK
<1>6. CASE \/ \E i \in Incidents : Resolve(p, i)
           \/ \E d \in Drafts : SubmitDraft(p, d)
           \/ \E via \in Vias, surface \in Surfaces : Decide(p, via, surface)
           \/ Post(p) \/ Report(p) \/ EndCommand(p)
  <2>1. UNCHANGED storeVars
    BY <1>6 DEF Resolve, SubmitDraft, Decide, Post, GiveUp, Report, EndCommand
  <2>2. QED
    BY <2>1, AsideTyped
<1>7. CASE ReportUnloaded(p)
  BY <1>7 DEF ReportUnloaded, Fault, fileVars, StoreTypeOK
<1>8. QED
  BY <1>2, <1>3, <1>4, <1>5, <1>6, <1>7 DEF Commands

LEMMA ContribStoreTyped ==
  ASSUME ContribInv, StoreTypeOK, [ContribNext]_vars
  PROVE  StoreTypeOK'
<1>1. ASSUME NEW p \in Procs, Prune(p) \/ StoreStep(p)
      PROVE  StoreTypeOK'
  BY <1>1, SaveTyped, CompactTyped, UpdateTyped, PruneStepTyped
  DEF Prune, StoreStep, Continue
<1>2. ASSUME NEW p \in Procs, Die(p)
      PROVE  StoreTypeOK'
  <2>1. op' = [op EXCEPT ![p] = Idle] /\ appended' = appended
    BY <1>2 DEF Die
  <2>2. QED
    BY <1>2, <2>1, IdleCall, CallTyped DEF StoreTypeOK, Die, Fault, fileVars
<1>3. CASE Unlist \/ UNCHANGED vars
  <2>1. UNCHANGED storeVars
    BY <1>3 DEF Unlist, vars
  <2>2. QED
    BY <2>1, AsideTyped
<1>4. CASE EditOrTick
  <2>1. ASSUME NEW d \in Drafts, EditText(d)
        PROVE  StoreTypeOK'
    <3>1. drafts' \in [Drafts -> DraftType]
      BY <2>1, TextEdited DEF StoreTypeOK
    <3>2. QED
      BY <2>1, <3>1 DEF EditText, StoreTypeOK
  <2>2. ASSUME NEW d \in Drafts, NEW i \in Incidents, NEW selected \in BOOLEAN,
               EditRouting(d, i, selected)
        PROVE  StoreTypeOK'
    <3>1. drafts' \in [Drafts -> DraftType]
      BY <2>2, RoutingEdited DEF StoreTypeOK
    <3>2. QED
      BY <2>2, <3>1 DEF EditRouting, Fault, StoreTypeOK
  <2>3. QED
    BY <1>4, <2>1, <2>2, AsideTyped DEF EditOrTick
<1>5. QED
  BY <1>1, <1>2, <1>3, <1>4, CommandStoreTyped, CommandsAssumption DEF ContribNext

(* Whatever is saved, pruned, drafted, edited, submitted and linked by any   *)
(* number of processes, every file, call and command keeps its type, and a   *)
(* link that was printed is one of an existing incident and issue.           *)
THEOREM ContribTypeCorrect == ContribSpec => []ContribTypeOK
<1>1. ContribInit => StoreTypeOK
  BY StoreInitTyped DEF ContribInit
<1>2. ContribInv /\ StoreTypeOK => ContribTypeOK
  BY DEF ContribInv, Typed, ContribTypeOK, IssueType
<1>3. ContribInv /\ StoreTypeOK /\ [ContribNext]_vars => StoreTypeOK'
  BY ContribStoreTyped
<1>4. QED
  BY <1>1, <1>2, <1>3, ContribInductive, PTL DEF ContribSpec

-----------------------------------------------------------------------------
(* The commands implement the abstract publication.                          *)

SavedSet == {i \in Incidents : inc[i].state # "unused"}
Approval(q) == IF job[q].pc = "posting" THEN job[q].incident ELSE NoId
Approvals == [q \in Procs |-> Approval(q)]
Posts == [n \in DOMAIN issues |-> issues[n].incident]
Links == [i \in Incidents |-> inc[i].issue]

(* What prune is about to look at or delete was saved, and a file that was   *)
(* never written carries no link.                                            *)
PruneSaved(q) ==
  /\ op[q].todo \subseteq SavedSet
  /\ op[q].pc = "prune_unlink" => op[q].id \in SavedSet
FileInv ==
  /\ \A i \in Incidents : inc[i].state = "unused" => inc[i].issue = Unlinked
  /\ \A q \in Procs : PruneSaved(q)

LEMMA FilesSame == UNCHANGED inc => UNCHANGED <<SavedSet, Live, Links>>
  BY DEF SavedSet, Live, Links

LEMMA IdleSaved ==
  /\ Idle.todo = {} /\ Idle.pc = "idle"
  /\ \A x : [Idle EXCEPT !.pc = x].todo = {} /\ [Idle EXCEPT !.pc = x].pc = x
  /\ \A x, y : /\ [Idle EXCEPT !.pc = x, !.rows = y].todo = {}
               /\ [Idle EXCEPT !.pc = x, !.rows = y].pc = x
  /\ \A x, y : /\ [Idle EXCEPT !.pc = x, !.dropped = y].todo = {}
               /\ [Idle EXCEPT !.pc = x, !.dropped = y].pc = x
  /\ \A x, y : /\ [Idle EXCEPT !.pc = x, !.id = y].todo = {}
               /\ [Idle EXCEPT !.pc = x, !.id = y].pc = x
  /\ \A x, y, z : /\ [Idle EXCEPT !.id = y, !.issue = z, !.pc = x].todo = {}
                  /\ [Idle EXCEPT !.id = y, !.issue = z, !.pc = x].pc = x
  /\ \A x, y : /\ [Idle EXCEPT !.pc = x, !.todo = y].todo = y
               /\ [Idle EXCEPT !.pc = x, !.todo = y].pc = x
  BY DEF Idle

(* A step of a call changes only op[p], and what the call has to do shrinks. *)
LEMMA CallTodo ==
  ASSUME Typed, FileInv, NEW p \in Procs, Continue(p)
  PROVE  /\ op'[p].todo \subseteq SavedSet
         /\ op'[p].pc = "prune_unlink" => op'[p].id \in SavedSet
         /\ \A q \in Procs : q # p => op'[q] = op[q]
<1> DEFINE Shrinks ==
      /\ op'[p].todo \subseteq SavedSet
      /\ op'[p].pc = "prune_unlink" => op'[p].id \in SavedSet
      /\ \A q \in Procs : q # p => op'[q] = op[q]
<1>0. /\ \A o : op' = [op EXCEPT ![p] = o] => op'[p] = o /\ \A q \in Procs : q # p => op'[q] = op[q]
      /\ OpTyped(op[p]) /\ PruneSaved(p)
  BY DEF Typed, FileInv
<1>1. ASSUME NEW o, op' = [op EXCEPT ![p] = o], o.todo = {}, o.pc # "prune_unlink"
      PROVE  Shrinks
  <2>1. op'[p] = o /\ \A q \in Procs : q # p => op'[q] = op[q]
    BY <1>0, <1>1
  <2>2. QED
    BY <1>1, <2>1
<1>2. CASE SaveRow(p) \/ ReplaceIndex(p) \/ WriteUpdate(p)
  <2>1. PICK c : c = [Idle EXCEPT !.pc = "save_compact"]
    OBVIOUS
  <2>2. op' = [op EXCEPT ![p] = Idle] \/ op' = [op EXCEPT ![p] = c]
    BY <1>2, <2>1 DEF SaveRow, ReplaceIndex, WriteUpdate
  <2>3. /\ Idle.todo = {} /\ Idle.pc # "prune_unlink"
        /\ c.todo = {} /\ c.pc # "prune_unlink"
    BY <2>1, IdleSaved
  <2>4. QED
    BY <1>1, <2>2, <2>3
<1>3. CASE CompactRead(p)
  <2>1. CASE op' = [op EXCEPT ![p] = Idle]
    BY <1>1, <2>1, IdleSaved
  <2>2. ASSUME NEW r, op' = [op EXCEPT ![p] = [Idle EXCEPT !.pc = "save_replace", !.rows = r]]
        PROVE  Shrinks
    <3>1. PICK o : o = [Idle EXCEPT !.pc = "save_replace", !.rows = r]
      OBVIOUS
    <3>2. o.todo = {} /\ o.pc = "save_replace"
      BY <3>1, IdleSaved
    <3>3. op' = [op EXCEPT ![p] = o]
      BY <2>2, <3>1
    <3>4. QED
      BY <1>1, <3>2, <3>3
  <2>3. QED
    BY <1>3, <2>1, <2>2 DEF CompactRead
<1>4. CASE PruneIndex(p)
  <2>1. CASE op' = [op EXCEPT ![p] = Idle]
    BY <1>1, <2>1, IdleSaved
  <2>2. ASSUME NEW r, op' = [op EXCEPT ![p] = [Idle EXCEPT !.pc = "prune_replace", !.rows = r]]
        PROVE  Shrinks
    <3>1. PICK o : o = [Idle EXCEPT !.pc = "prune_replace", !.rows = r]
      OBVIOUS
    <3>2. o.todo = {} /\ o.pc = "prune_replace"
      BY <3>1, IdleSaved
    <3>3. op' = [op EXCEPT ![p] = o]
      BY <2>2, <3>1
    <3>4. QED
      BY <1>1, <3>2, <3>3
  <2>3. QED
    BY <1>4, <2>1, <2>2 DEF PruneIndex
<1>u. CASE PruneIndexUnread(p)
  <2>1. PICK o : o = [Idle EXCEPT !.pc = "prune_replace", !.dropped = index.rows]
    OBVIOUS
  <2>2. o.todo = {} /\ o.pc = "prune_replace"
    BY <2>1, IdleSaved
  <2>3. op' = [op EXCEPT ![p] = o]
    BY <1>u, <2>1 DEF PruneIndexUnread
  <2>4. QED
    BY <1>1, <2>2, <2>3
<1>5. CASE PruneOther(p)
  BY <1>0, <1>5 DEF PruneOther, PruneSaved
<1>6. CASE PruneUnlink(p)
  <2>1. PICK a : a = [op[p] EXCEPT !.pc = "prune", !.id = NoId, !.unread = FALSE,
                                   !.removed = @ \cup {op[p].id}]
    OBVIOUS
  <2>2. a.pc = "prune" /\ a.todo = op[p].todo
    BY <1>0, <2>1 DEF OpTyped
  <2>3. op' = [op EXCEPT ![p] = a]
    BY <1>6, <2>1 DEF PruneUnlink
  <2>4. QED
    BY <1>0, <2>2, <2>3 DEF PruneSaved
<1>7. CASE PruneLook(p)
  <2>1. PICK i \in op[p].todo :
          LET rest == [op[p] EXCEPT !.todo = @ \ {i}]
          IN op' = [op EXCEPT ![p] =
               IF inc[i].state = "live" /\ (~Old(inc[i].mtime) \/ Linked(i)) THEN rest
               ELSE [rest EXCEPT !.id = i, !.pc = "prune_unlink"]]
    BY <1>7 DEF PruneLook
  <2>2. PICK r : r = [op[p] EXCEPT !.todo = @ \ {i}]
    OBVIOUS
  <2>4. PICK u : u = [r EXCEPT !.id = i, !.pc = "prune_unlink"]
    OBVIOUS
  <2>5. op[p].pc = "prune"
    BY <1>7 DEF PruneLook
  <2>6. r.todo = op[p].todo \ {i} /\ r.pc = "prune" /\ OpTyped(r)
    BY <1>0, <2>2, <2>5, FieldTyped DEF OpTyped
  <2>8. u.todo = r.todo /\ u.id = i
    BY <2>4, <2>6 DEF OpTyped
  <2>9. op' = [op EXCEPT ![p] = r] \/ op' = [op EXCEPT ![p] = u]
    BY <2>1, <2>2, <2>4
  <2>10. QED
    BY <1>0, <2>1, <2>6, <2>8, <2>9 DEF PruneSaved
<1>v. CASE PruneUnread(p)
  <2>1. PICK i \in op[p].todo :
          op' = [op EXCEPT ![p] = [op[p] EXCEPT !.todo = @ \ {i}, !.id = i, !.unread = TRUE,
                                                !.pc = "prune_unlink"]]
    BY <1>v DEF PruneUnread
  <2>2. PICK u : u = [op[p] EXCEPT !.todo = @ \ {i}, !.id = i, !.unread = TRUE,
                                   !.pc = "prune_unlink"]
    OBVIOUS
  <2>3. u.todo = op[p].todo \ {i} /\ u.id = i
    BY <1>0, <2>2 DEF OpTyped
  <2>4. op' = [op EXCEPT ![p] = u]
    BY <2>1, <2>2
  <2>5. QED
    BY <1>0, <2>1, <2>3, <2>4 DEF PruneSaved
<1>8. QED
  BY <1>2, <1>3, <1>4, <1>u, <1>5, <1>6, <1>7, <1>v DEF Continue

(* What a step does to the files: nothing, or one of three things. *)
LEMMA FileSteps ==
  ASSUME [ContribNext]_vars
  PROVE  \/ \E p \in Procs : \E i \in Incidents : Wtf(p, i)
         \/ \E p \in Procs : WriteUpdate(p) /\ UNCHANGED contribVars
         \/ \E p \in Procs : PruneUnlink(p) /\ UNCHANGED contribVars
         \/ UNCHANGED inc
<1>1. Contributors \subseteq Procs
  BY CommandsAssumption
<1>2. CASE \E p \in Contributors : Commands(p)
  BY <1>1, <1>2
     DEF Commands, Resolve, SaveCandidate, Draft, SubmitDraft, Decide, Post, Link, LoadForUpdate,
         Report, ReportUnloaded, EndCommand, storeVars, fileVars
<1>3. CASE \E p \in Procs : StoreStep(p)
  BY <1>3 DEF StoreStep, Continue, SaveRow, CompactRead, ReplaceIndex, PruneLook, PruneUnread,
              PruneOther, PruneIndex, PruneIndexUnread, fileVars
<1>4. CASE ~(\E p \in Contributors : Commands(p)) /\ ~(\E p \in Procs : StoreStep(p))
  BY <1>4 DEF ContribNext, Prune, PruneStart, Die, Unlist, EditOrTick, Tick, EditText,
              EditRouting, vars, storeVars, fileVars
<1>5. QED
  BY <1>2, <1>3, <1>4

LEMMA SavedGrows ==
  ASSUME ContribInv, [ContribNext]_vars
  PROVE  SavedSet \subseteq SavedSet'
<1>1. Typed /\ \A p \in Procs : UpdateSafe(p)
  BY DEF ContribInv, Safe
<1>2. CASE \E p \in Procs : \E i \in Incidents : Wtf(p, i)
  BY <1>1, <1>2, SaveGrows DEF Grows, Saved, SavedSet
<1>3. CASE \E p \in Procs : WriteUpdate(p) /\ UNCHANGED contribVars
  <2>1. Grows
    BY <1>1, <1>3, UpdateGrows
  <2>2. QED
    BY <2>1 DEF Grows, Saved, SavedSet
<1>4. CASE \E p \in Procs : PruneUnlink(p) /\ UNCHANGED contribVars
  <2>1. Grows
    BY <1>1, <1>4, UnlinkGrows
  <2>2. QED
    BY <2>1 DEF Grows, Saved, SavedSet
<1>5. QED
  BY <1>2, <1>3, <1>4, FileSteps, FilesSame

LEMMA FileInductive == ContribSpec => [](ContribInv /\ FileInv)
<1>1. ContribInit => FileInv
  BY IdleSaved DEF ContribInit, StoreInit, FileInv, PruneSaved
<1>2. ContribInv /\ FileInv /\ [ContribNext]_vars => FileInv'
  <2> SUFFICES ASSUME ContribInv, FileInv, [ContribNext]_vars PROVE FileInv'
    OBVIOUS
  <2>0. Typed /\ SavedSet \subseteq SavedSet'
    BY SavedGrows DEF ContribInv
  <2>1. \A q \in Procs : PruneSaved(q)
    BY DEF FileInv
  <2>2. \A q \in Procs : op'[q] = op[q] => PruneSaved(q)'
    BY <2>0, <2>1 DEF PruneSaved
  <2>3. ASSUME NEW i \in Incidents, inc'[i].state = "unused" PROVE inc'[i].issue = Unlinked
    <3>0. inc[i].state = "unused" /\ inc[i].issue = Unlinked
      BY <2>0, <2>3 DEF SavedSet, FileInv
    <3>1. ASSUME NEW p \in Procs, NEW k \in Incidents, Wtf(p, k) PROVE inc'[i] = inc[i]
      BY <2>0, <2>3, <3>1
         DEF Wtf, SaveFile, SaveFirst, FileThenRow, Written, Typed
    <3>2. ASSUME NEW p \in Procs, WriteUpdate(p) PROVE inc'[i] = inc[i]
      BY <2>0, <2>3, <3>2 DEF WriteUpdate, Written, Typed
    <3>3. ASSUME NEW p \in Procs, PruneUnlink(p) PROVE inc'[i].issue = inc[i].issue
      BY <2>0, <3>3 DEF PruneUnlink, Typed, FileType
    <3>4. QED
      BY <3>0, <3>1, <3>2, <3>3, FileSteps
  <2>4. ASSUME NEW p \in Procs, op' = [op EXCEPT ![p] = Idle]
        PROVE  \A q \in Procs : PruneSaved(q)'
    BY <2>0, <2>2, <2>4, IdleSaved DEF PruneSaved, Typed
  <2>5. ASSUME NEW p \in Procs, NEW o, op' = [op EXCEPT ![p] = o],
               o.todo \subseteq SavedSet, o.pc # "prune_unlink"
        PROVE  \A q \in Procs : PruneSaved(q)'
    BY <2>0, <2>2, <2>5 DEF PruneSaved, Typed
  <2>6. ASSUME NEW p \in Procs, Commands(p) PROVE \A q \in Procs : PruneSaved(q)'
    <3>1. ASSUME NEW i \in Incidents, Wtf(p, i) PROVE \A q \in Procs : PruneSaved(q)'
      <4>1. PICK o : o = [Idle EXCEPT !.pc = "save_row", !.id = i]
        OBVIOUS
      <4>2. o.todo = {} /\ o.pc = "save_row"
        BY <4>1, IdleSaved
      <4>3. op' = [op EXCEPT ![p] = o]
        BY <3>1, <4>1 DEF Wtf, SaveFile
      <4>4. QED
        BY <2>5, <4>2, <4>3
    <3>2. CASE Link(p)
      <4>1. PICK o : o = [Idle EXCEPT !.id = job[p].incident, !.issue = job[p].issue,
                                      !.pc = "update_write"]
        OBVIOUS
      <4>2. o.todo = {} /\ o.pc = "update_write"
        BY <4>1, IdleSaved
      <4>3. op' = [op EXCEPT ![p] = o]
        BY <3>2, <4>1 DEF Link, LoadForUpdate, LinkedIncident
      <4>4. QED
        BY <2>5, <4>2, <4>3
    <3>3. CASE ~(\E i \in Incidents : Wtf(p, i)) /\ ~Link(p)
      <4>1. UNCHANGED op
        BY <2>6, <3>3 DEF Commands, Resolve, SaveCandidate, Draft, SubmitDraft, Decide, Post,
                          Report, ReportUnloaded, EndCommand, storeVars
      <4>2. QED
        BY <2>2, <4>1
    <3>4. QED
      BY <3>1, <3>2, <3>3
  <2>7. ASSUME NEW p \in Procs, Prune(p) PROVE \A q \in Procs : PruneSaved(q)'
    <3>1. PICK o : o = [Idle EXCEPT !.pc = "prune", !.todo = Live]
      OBVIOUS
    <3>2. o.todo = Live /\ o.pc = "prune"
      BY <3>1, IdleSaved
    <3>3. Live \subseteq SavedSet
      BY DEF Live, SavedSet
    <3>4. op' = [op EXCEPT ![p] = o]
      BY <2>7, <3>1 DEF Prune, PruneStart
    <3>5. QED
      BY <2>5, <3>2, <3>3, <3>4
  <2>8. ASSUME NEW p \in Procs, StoreStep(p) PROVE \A q \in Procs : PruneSaved(q)'
    <3>1. /\ op'[p].todo \subseteq SavedSet
          /\ op'[p].pc = "prune_unlink" => op'[p].id \in SavedSet
          /\ \A q \in Procs : q # p => op'[q] = op[q]
      BY <2>0, <2>8, CallTodo DEF StoreStep
    <3>2. PruneSaved(p)'
      BY <2>0, <3>1 DEF PruneSaved
    <3>3. QED
      BY <2>2, <3>1, <3>2
  <2>9. \A q \in Procs : PruneSaved(q)'
    <3>1. CASE \E p \in Procs : Die(p)
      BY <2>4, <3>1 DEF Die
    <3>2. CASE Unlist \/ EditOrTick \/ UNCHANGED vars
      <4>1. UNCHANGED op
        BY <3>2 DEF Unlist, EditOrTick, Tick, EditText, EditRouting, vars, storeVars
      <4>2. QED
        BY <2>2, <4>1
    <3>3. QED
      BY <2>6, <2>7, <2>8, <3>1, <3>2, CommandsAssumption DEF ContribNext
  <2>10. QED
    BY <2>3, <2>9 DEF FileInv
<1>3. QED
  BY <1>1, <1>2, ContribInductive, PTL DEF ContribSpec

-----------------------------------------------------------------------------
(* Each kind of step of the commands is a step of the publication.           *)

LEMMA PublishedInit == ContribInit => Published!Init
<1> SUFFICES ASSUME ContribInit PROVE Published!Init
  OBVIOUS
<1>1. SavedSet = {} /\ Live = {} /\ Links = [i \in Incidents |-> Unlinked]
  BY DEF ContribInit, StoreInit, SavedSet, Live, Links
<1>2. Approvals = [q \in Procs |-> NoId]
  BY DEF ContribInit, NoJob, Approvals, Approval
<1>3. Posts = <<>>
  BY DEF ContribInit, Posts
<1>4. QED
  BY <1>1, <1>2, <1>3 DEF Published!Init, SavedSet, Approvals, Approval, Posts, Links

LEMMA JobApproval ==
  ASSUME Typed, NEW p \in Procs, NEW j \in JobType, job' = [job EXCEPT ![p] = j]
  PROVE  Approvals' =
           [Approvals EXCEPT ![p] = IF j.pc = "posting" THEN j.incident ELSE NoId]
<1> DEFINE a == IF j.pc = "posting" THEN j.incident ELSE NoId
<1>1. job'[p] = j /\ \A q \in Procs : q # p => job'[q] = job[q]
  BY JobChange
<1>2. Approval(p)' = a /\ \A q \in Procs : q # p => Approval(q)' = Approval(q)
  BY <1>1 DEF Approval
<1>3. Approvals' = [q \in Procs |-> IF q = p THEN a ELSE Approvals[q]]
  BY <1>2 DEF Approvals
<1>4. [Approvals EXCEPT ![p] = a] = [q \in Procs |-> IF q = p THEN a ELSE Approvals[q]]
  BY DEF Approvals
<1>5. QED
  BY <1>3, <1>4

LEMMA ApprovalWithdrawn ==
  ASSUME Typed, NEW p \in Procs, NEW j \in JobType, job' = [job EXCEPT ![p] = j],
         j.pc # "posting"
  PROVE  Approvals' = [Approvals EXCEPT ![p] = NoId]
  BY JobApproval

(* Outside the time between the last gate and the answer nothing is approved. *)
LEMMA ApprovalStays ==
  ASSUME Typed, NEW p \in Procs, NEW j \in JobType, job' = [job EXCEPT ![p] = j],
         job[p].pc # "posting", j.pc # "posting"
  PROVE  Approvals' = Approvals
<1>1. Approvals' = [Approvals EXCEPT ![p] = NoId]
  BY ApprovalWithdrawn
<1>2. Approvals[p] = NoId
  BY DEF Approvals, Approval
<1>3. QED
  BY <1>1, <1>2 DEF Approvals

LEMMA SameApprovals == UNCHANGED job => UNCHANGED Approvals
  BY DEF Approvals, Approval

LEMMA SamePosts == UNCHANGED issues => UNCHANGED Posts
  BY DEF Posts

LEMMA PublishedSave ==
  ASSUME ContribInv, FileInv, NEW p \in Procs, NEW i \in Incidents, Wtf(p, i)
  PROVE  Published!Next
<1>1. /\ inc[i].state = "unused"
      /\ inc' = [inc EXCEPT ![i] = Written(Unlinked, now)]
      /\ UNCHANGED <<job, issues>>
  BY DEF Wtf, SaveFile, SaveFirst, FileThenRow, contribVars
<1>2. /\ inc'[i].state = "live" /\ inc'[i].issue = Unlinked
      /\ \A k \in Incidents : k # i => inc'[k] = inc[k]
  BY <1>1 DEF ContribInv, Typed, Written
<1>3. SavedSet' = SavedSet \cup {i} /\ i \notin SavedSet /\ Live' = Live \cup {i}
  BY <1>1, <1>2 DEF SavedSet, Live
<1>4. inc[i].issue = Unlinked
  BY <1>1 DEF FileInv
<1>5. Links' = Links
  BY <1>2, <1>4 DEF Links
<1>6. Published!Save(i)
  BY <1>1, <1>3, <1>5, SameApprovals, SamePosts
     DEF Published!Save, SavedSet, Approvals, Approval, Posts, Links
<1>7. QED
  BY <1>6 DEF Published!Next

LEMMA PublishedAttach ==
  ASSUME ContribInv, NEW p \in Procs, WriteUpdate(p), UNCHANGED contribVars
  PROVE  Published!Next
<1>0. Typed /\ UpdateSafe(p)
  BY DEF ContribInv, Safe
<1>1. PICK i, n : i = op[p].id /\ n = op[p].issue
  OBVIOUS
<1>2. /\ i \in Incidents /\ inc[i].state # "unused"
      /\ n \in DOMAIN issues /\ issues[n].incident = i
      /\ inc' = [inc EXCEPT ![i] = Written(n, now)]
      /\ UNCHANGED <<job, issues>>
  BY <1>0, <1>1 DEF UpdateSafe, Saved, IssueOf, WriteUpdate, contribVars
<1>3. /\ inc'[i].state = "live" /\ inc'[i].issue = n
      /\ \A k \in Incidents : k # i => inc'[k] = inc[k]
  BY <1>0, <1>2 DEF Typed, Written
<1>4. SavedSet' = SavedSet /\ Live' = Live \cup {i}
  BY <1>2, <1>3 DEF SavedSet, Live
<1>5. Links' = [Links EXCEPT ![i] = n]
  <2>1. Links' = [k \in Incidents |-> IF k = i THEN n ELSE Links[k]]
    BY <1>2, <1>3 DEF Links
  <2>2. [Links EXCEPT ![i] = n] = [k \in Incidents |-> IF k = i THEN n ELSE Links[k]]
    BY DEF Links
  <2>3. QED
    BY <2>1, <2>2
<1>6. n \in DOMAIN Posts /\ Posts[n] = i
  BY <1>2 DEF Posts
<1>7. Published!Attach(n)
  BY <1>2, <1>4, <1>5, <1>6, SameApprovals, SamePosts
     DEF Published!Attach, SavedSet, Approvals, Approval, Posts, Links
<1>8. QED
  BY <1>6, <1>7 DEF Published!Next, Posts

LEMMA PublishedRemove ==
  ASSUME ContribInv, FileInv, NEW p \in Procs, PruneUnlink(p), UNCHANGED contribVars
  PROVE  Published!Next
<1>1. PICK i : i = op[p].id
  OBVIOUS
<1>2. /\ i \in SavedSet
      /\ inc' = [inc EXCEPT ![i].state = "deleted"]
      /\ UNCHANGED <<job, issues>>
  BY <1>1 DEF FileInv, PruneSaved, PruneUnlink, contribVars
<1>3. /\ i \in Incidents
      /\ inc'[i].state = "deleted" /\ inc'[i].issue = inc[i].issue
      /\ \A k \in Incidents : k # i => inc'[k] = inc[k]
  BY <1>2 DEF ContribInv, Typed, FileType, SavedSet
<1>4. SavedSet' = SavedSet /\ Live' = Live \ {i}
  BY <1>2, <1>3 DEF SavedSet, Live
<1>5. Links' = Links
  BY <1>3 DEF Links
<1>6. Published!Remove(i)
  BY <1>2, <1>4, <1>5, SameApprovals, SamePosts
     DEF Published!Remove, SavedSet, Approvals, Approval, Posts, Links
<1>7. QED
  BY <1>3, <1>6 DEF Published!Next

LEMMA PublishedApprove ==
  ASSUME ContribInv, NEW p \in Procs, NEW via \in Vias, NEW surface \in Surfaces,
         Decide(p, via, surface)
  PROVE  Published!Next
<1>0. Typed /\ JobSafe(p) /\ job[p] \in JobType
  BY DEF ContribInv, Safe, Typed
<1>1. PICK r : r = [via |-> via, surface |-> surface, selected |-> job[p].selected,
                    listed |-> listed]
  OBVIOUS
<1>2. PICK i : i = job[p].incident
  OBVIOUS
<1>3. PICK a : a = [job[p] EXCEPT !.pc = "posting"]
  OBVIOUS
<1>4. a \in JobType /\ a.pc = "posting" /\ a.incident = i
  BY <1>0, <1>2, <1>3, StageTyped
<1>5. PICK j : j = [a EXCEPT !.request = r]
  OBVIOUS
<1>6. r \in RequestType
  BY <1>0, <1>1 DEF Typed, RequestType, JobType
<1>7. j \in JobType /\ j.pc = "posting" /\ j.incident = i
  BY <1>4, <1>5, <1>6 DEF JobType
<1>8. /\ job' = [job EXCEPT ![p] = j]
      /\ job[p].pc = "drafted"
      /\ UNCHANGED <<inc, issues>>
  BY <1>1, <1>3, <1>5 DEF Decide, storeVars, fileVars
<1>9. i \in SavedSet /\ i \in Incidents
  BY <1>0, <1>2, <1>8 DEF JobSafe, Saved, SavedSet
<1>10. Approvals[p] = NoId
  BY <1>8 DEF Approvals, Approval
<1>11. Approvals' = [Approvals EXCEPT ![p] = i]
  BY <1>0, <1>7, <1>8, JobApproval
<1>12. Published!Approve(p, i)
  BY <1>8, <1>9, <1>10, <1>11, FilesSame, SamePosts
     DEF Published!Approve, SavedSet, Approvals, Approval, Posts, Links
<1>13. QED
  BY <1>9, <1>12 DEF Published!Next

LEMMA PublishedPublish ==
  ASSUME ContribInv, NEW p \in Procs, Post(p)
  PROVE  Published!Next
<1>0. Typed /\ JobSafe(p) /\ job[p] \in JobType
  BY DEF ContribInv, Safe, Typed
<1>1. PICK i : i = job[p].incident
  OBVIOUS
<1>2. /\ job[p].pc = "posting" /\ i \in Incidents
      /\ UNCHANGED inc
  BY <1>0, <1>1 DEF Post, JobSafe, Saved, storeVars, fileVars
<1>3. Approvals[p] = i /\ i # NoId
  BY <1>1, <1>2, IdAssumption DEF Approvals, Approval
<1>4. Approvals' = [Approvals EXCEPT ![p] = NoId]
  <2>1. PICK a : a = [NoJob EXCEPT !.pc = "posted"]
    OBVIOUS
  <2>2. a \in JobType /\ a.pc = "posted"
    BY <2>1, NoJobTyped, StageTyped
  <2>3. PICK b : b = [a EXCEPT !.issue = Len(issues')]
    OBVIOUS
  <2>4. Len(issues') \in 0..MaxIssue
    <3>1. Typed'
      BY <1>0, <1>1, <1>2, PostTyped DEF JobSafe
    <3>2. Len(issues') \in Nat /\ Len(issues') <= MaxIssue
      <4> HIDE DEF IssueType
      <4> QED BY <3>1 DEF Typed
    <3>3. QED
      BY <3>2, LimitsAssumption
  <2>5. b \in JobType /\ b.pc = "posted"
    BY <2>2, <2>3, <2>4 DEF JobType
  <2>6. PICK c : c = [b EXCEPT !.incident = job[p].incident]
    OBVIOUS
  <2>7. c \in JobType /\ c.pc = "posted"
    BY <1>1, <1>2, <2>5, <2>6 DEF JobType
  <2>8. job' = [job EXCEPT ![p] = c] \/ job' = [job EXCEPT ![p] = NoJob]
    BY <2>1, <2>3, <2>6 DEF Post, GiveUp
  <2>9. NoJob \in JobType /\ NoJob.pc = "idle"
    BY NoJobTyped DEF NoJob
  <2>10. QED
    BY <1>0, <2>7, <2>8, <2>9, ApprovalWithdrawn
<1>5. Posts' = Append(Posts, i)
  <2> DEFINE e == [incident |-> i, body |-> job[p].body]
             IT == IssueType
  <2>1. e \in IT
    BY <1>0, <1>2 DEF JobType, IssueType
  <2>2. issues' = Append(issues, e) /\ issues \in Seq(IT)
    BY <1>0, <1>1 DEF Post, Typed
  <2>3. e.incident = i
    OBVIOUS
  <2>4. \A x \in IT : x.incident \in Incidents
    BY DEF IssueType
  <2> HIDE DEF e, IT
  <2>5. /\ Len(issues) \in Nat /\ DOMAIN issues = 1..Len(issues)
        /\ DOMAIN issues' = 1..(Len(issues) + 1)
        /\ issues'[Len(issues) + 1] = e
        /\ \A m \in 1..Len(issues) : issues'[m] = issues[m]
    BY <2>1, <2>2
  <2>6. Posts \in Seq(Incidents) /\ Len(Posts) = Len(issues)
    <3>1. \A m \in 1..Len(issues) : issues[m].incident \in Incidents
      BY <2>2, <2>4
    <3>2. QED
      BY <2>5, <3>1 DEF Posts
  <2>7. /\ Append(Posts, i) \in Seq(Incidents)
        /\ Len(Append(Posts, i)) = Len(issues) + 1
        /\ Append(Posts, i)[Len(issues) + 1] = i
        /\ \A m \in 1..Len(issues) : Append(Posts, i)[m] = Posts[m]
    BY <1>2, <2>6, AppendProperties
  <2>8. Posts' = [m \in 1..(Len(issues) + 1) |-> issues'[m].incident]
    BY <2>5 DEF Posts
  <2>9. \A m \in 1..Len(issues) : Posts[m] = issues[m].incident
    BY <2>5 DEF Posts
  <2>10. \A m \in 1..(Len(issues) + 1) : Posts'[m] = Append(Posts, i)[m]
    <3>1. \A m \in 1..(Len(issues) + 1) : m = Len(issues) + 1 \/ m \in 1..Len(issues)
      BY <2>5
    <3>2. \A m \in 1..(Len(issues) + 1) : Posts'[m] = issues'[m].incident
      BY <2>8
    <3>3. QED
      BY <2>3, <2>5, <2>7, <2>9, <3>1, <3>2
  <2>11. Posts' \in Seq(Incidents) /\ Len(Posts') = Len(issues) + 1
    <3>1. \A m \in 1..(Len(issues) + 1) : issues'[m].incident \in Incidents
      BY <1>2, <2>2, <2>3, <2>4, <2>5
    <3>2. Len(issues) + 1 \in Nat
      BY <2>5
    <3>3. QED
      BY <2>8, <3>1, <3>2
  <2>12. QED
    BY <2>7, <2>10, <2>11, SeqEqual
<1>6. Published!Publish(p)
  BY <1>2, <1>3, <1>4, <1>5, FilesSame
     DEF Published!Publish, SavedSet, Approvals, Approval, Posts, Links
<1>7. QED
  BY <1>6 DEF Published!Next

LEMMA PublishedWithdraw ==
  ASSUME ContribInv, NEW p \in Procs, job' = [job EXCEPT ![p] = NoJob], UNCHANGED <<inc, issues>>
  PROVE  Published!Next
<1>1. Approvals' = [Approvals EXCEPT ![p] = NoId]
  <2>1. NoJob \in JobType /\ NoJob.pc # "posting"
    BY NoJobTyped DEF NoJob
  <2>2. QED
    BY <2>1, ApprovalWithdrawn DEF ContribInv
<1>2. Published!Withdraw(p)
  BY <1>1, FilesSame, SamePosts
     DEF Published!Withdraw, SavedSet, Approvals, Approval, Posts, Links
<1>3. QED
  BY <1>2 DEF Published!Next

(* Nothing that publication knows of changes. *)
PublishedSame == UNCHANGED <<SavedSet, Live, Approvals, Posts, Links>>

LEMMA PublishedQuiet ==
  ASSUME ContribInv, NEW p \in Procs,
         \/ \E i \in Incidents : Resolve(p, i)
         \/ SaveCandidate(p)
         \/ \E d \in Drafts, selected \in BOOLEAN : Draft(p, d, selected)
         \/ \E d \in Drafts : SubmitDraft(p, d)
         \/ Link(p)
  PROVE  PublishedSame
<1>0. Typed
  BY DEF ContribInv
<1>1. UNCHANGED <<inc, issues>>
  BY DEF Resolve, SaveCandidate, Draft, SubmitDraft, Link, LoadForUpdate, storeVars, fileVars
<1>2. job[p].pc # "posting" /\ job'[p].pc # "posting"
  <2>0. job[p] \in JobType
    BY <1>0 DEF Typed
  <2>1. ASSUME NEW i \in Incidents, Resolve(p, i)
        PROVE  job[p].pc # "posting" /\ job'[p].pc # "posting"
    BY <1>0, <2>1 DEF Resolve, Ready, NoJob, Typed
  <2>2. CASE SaveCandidate(p) \/ Link(p)
    BY <1>0, <2>0, <2>2 DEF SaveCandidate, Link, Typed, JobType
  <2>3. ASSUME NEW d \in Drafts, NEW selected \in BOOLEAN, Draft(p, d, selected)
        PROVE  job[p].pc # "posting" /\ job'[p].pc # "posting"
    <3>1. PICK a : a = [job[p] EXCEPT !.pc = "drafted"]
      OBVIOUS
    <3>2. a.pc = "drafted" /\ a \in JobType
      BY <2>0, <3>1, StageTyped
    <3>3. PICK b : b = [a EXCEPT !.selected = selected]
      OBVIOUS
    <3>4. b.pc = "drafted"
      BY <3>2, <3>3
    <3>5. job'[p] = b
      BY <1>0, <2>3, <3>1, <3>3 DEF Draft, Typed
    <3>6. QED
      BY <2>3, <3>4, <3>5 DEF Draft
  <2>4. ASSUME NEW d \in Drafts, SubmitDraft(p, d)
        PROVE  job[p].pc # "posting" /\ job'[p].pc # "posting"
    <3>1. PICK a : a = [NoJob EXCEPT !.pc = "drafted"]
      OBVIOUS
    <3>2. PICK b : b = [a EXCEPT !.incident = drafts[d].incident]
      OBVIOUS
    <3>3. PICK c : c = [b EXCEPT !.body = drafts[d].body]
      OBVIOUS
    <3>4. PICK e : e = [c EXCEPT !.selected = drafts[d].selected]
      OBVIOUS
    <3>5. a.pc = "drafted"
      BY <3>1 DEF NoJob
    <3>6. b.pc = "drafted"
      BY <3>2, <3>5
    <3>7. e.pc = "drafted"
      BY <3>3, <3>4, <3>6
    <3>8. job'[p] = e
      BY <1>0, <2>4, <3>1, <3>2, <3>3, <3>4 DEF SubmitDraft, Typed
    <3>9. QED
      BY <2>4, <3>7, <3>8 DEF SubmitDraft, Ready
  <2>5. QED
    BY <2>1, <2>2, <2>3, <2>4
<1>3. \A q \in Procs : q # p => job'[q] = job[q]
  BY <1>0 DEF Resolve, SaveCandidate, Draft, SubmitDraft, Link, Typed
<1>4. Approvals' = Approvals
  <2>1. \A q \in Procs : Approval(q)' = Approval(q)
    BY <1>2, <1>3 DEF Approval
  <2>2. QED
    BY <2>1 DEF Approvals
<1>5. QED
  BY <1>1, <1>4, FilesSame, SamePosts DEF PublishedSame

LEMMA PublishedAside ==
  ASSUME UNCHANGED <<inc, job, issues>>
  PROVE  PublishedSame
BY FilesSame, SamePosts, SameApprovals DEF PublishedSame

LEMMA PublishedCommand ==
  ASSUME ContribInv, FileInv, NEW p \in Procs, Commands(p)
  PROVE  Published!Next \/ PublishedSame
<1>1. CASE \E i \in Incidents : Wtf(p, i)
  BY <1>1, PublishedSave
<1>2. CASE \E via \in Vias, surface \in Surfaces : Decide(p, via, surface)
  BY <1>2, PublishedApprove
<1>3. CASE Post(p)
  BY <1>3, PublishedPublish
<1>4. CASE Report(p) \/ ReportUnloaded(p) \/ EndCommand(p)
  <2>1. job' = [job EXCEPT ![p] = NoJob] /\ UNCHANGED <<inc, issues>>
    BY <1>4 DEF Report, ReportUnloaded, EndCommand, storeVars, fileVars
  <2>2. QED
    BY <2>1, PublishedWithdraw
<1>5. CASE \/ \E i \in Incidents : Resolve(p, i)
           \/ SaveCandidate(p)
           \/ \E d \in Drafts, selected \in BOOLEAN : Draft(p, d, selected)
           \/ \E d \in Drafts : SubmitDraft(p, d)
           \/ Link(p)
  BY <1>5, PublishedQuiet
<1>6. QED
  BY <1>1, <1>2, <1>3, <1>4, <1>5 DEF Commands

LEMMA PublishedStore ==
  ASSUME ContribInv, FileInv, NEW p \in Procs, StoreStep(p)
  PROVE  Published!Next \/ PublishedSame
<1>1. Continue(p) /\ UNCHANGED contribVars /\ UNCHANGED <<job, issues>>
  BY DEF StoreStep, contribVars
<1>2. CASE WriteUpdate(p)
  BY <1>1, <1>2, PublishedAttach
<1>3. CASE PruneUnlink(p)
  BY <1>1, <1>3, PublishedRemove
<1>4. CASE ~WriteUpdate(p) /\ ~PruneUnlink(p)
  <2>1. UNCHANGED inc
    BY <1>1, <1>4 DEF Continue, SaveRow, CompactRead, ReplaceIndex, PruneLook, PruneUnread,
                      PruneOther, PruneIndex, PruneIndexUnread, fileVars
  <2>2. QED
    BY <1>1, <2>1, PublishedAside
<1>5. QED
  BY <1>2, <1>3, <1>4

(* The commands of any number of processes, together with prune, faults,    *)
(* edits and lost answers, do to an incident what Publication allows: one    *)
(* issue for an approval, links to its own issues, no file begun again and   *)
(* no link taken back.                                                       *)
THEOREM PublicationRefined == ContribSpec => ImplementsPublication
<1>1. ContribInit => Published!Init
  BY PublishedInit
<1>2. ContribInv /\ FileInv /\ [ContribNext]_vars => [Published!Next]_(Published!vars)
  <2> SUFFICES ASSUME ContribInv, FileInv, [ContribNext]_vars
               PROVE  [Published!Next]_(Published!vars)
    OBVIOUS
  <2>1. Published!Next \/ PublishedSame
    <3>1. CASE \E p \in Contributors : Commands(p)
      BY <3>1, CommandsAssumption, PublishedCommand
    <3>2. CASE \E p \in Procs : StoreStep(p)
      BY <3>2, PublishedStore
    <3>3. CASE \E p \in Procs : Die(p)
      <4>1. PICK p \in Procs : job' = [job EXCEPT ![p] = NoJob] /\ UNCHANGED <<inc, issues>>
        BY <3>3 DEF Die, fileVars
      <4>2. QED
        BY <4>1, PublishedWithdraw
    <3>4. CASE \/ \E p \in Pruners : Prune(p)
               \/ Unlist
               \/ EditOrTick
               \/ UNCHANGED vars
      <4>1. UNCHANGED <<inc, job, issues>>
        BY <3>4 DEF Prune, PruneStart, Unlist, EditOrTick, Tick, EditText, EditRouting, vars,
                    storeVars, fileVars, contribVars
      <4>2. QED
        BY <4>1, PublishedAside
    <3>5. QED
      BY <3>1, <3>2, <3>3, <3>4 DEF ContribNext
  <2>2. QED
    BY <2>1 DEF PublishedSame, Published!vars, SavedSet, Approvals, Approval, Posts, Links
<1>3. QED
  BY <1>1, <1>2, FileInductive, PTL DEF ContribSpec, ImplementsPublication, Published!Spec

=============================================================================
