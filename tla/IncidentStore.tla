---------------------------- MODULE IncidentStore ----------------------------
(***************************************************************************)
(* The incident store of hermes_minefield/incident/store.py: one JSON file  *)
(* per incident, an append-only index of them that is compacted now and     *)
(* then, and prune, which deletes old incidents, candidates and drafts and  *)
(* rewrites the index. There is no lock: every process (a gateway running   *)
(* slash commands, a CLI) goes through the same files, one file operation   *)
(* at a time; op[p] is the call process p is in, with what it has read.     *)
(*                                                                          *)
(* A single file is written by rename, so a reader sees it whole: the       *)
(* content of an incident is reduced to the GitHub issue it is linked to.   *)
(* Rows of the index are known by their numbers: a rewrite keeps some of    *)
(* the rows it has read, in the order in which they were appended.          *)
(***************************************************************************)
EXTENDS Integers, Sequences, FiniteSets

CONSTANTS
  Procs,        (* processes sharing the minefield directory                 *)
  Incidents,    (* incident ids; new_id() never returns one twice here       *)
  Drafts,       (* issue draft ids                                           *)
  CompactAt,    (* INDEX_COMPACT_AT                                          *)
  Keep,         (* INDEX_KEEP                                                *)
  Age,          (* older_than_seconds of prune, in ticks (0: a tick is longer)  *)
  MaxIssue,     (* bound: issue numbers                                      *)
  MaxTime, MaxFaults   (* bounds of the model                                *)

ASSUME IndexAssumption ==
  /\ {CompactAt, Keep} \subseteq Nat \ {0}
  /\ Keep <= CompactAt

ASSUME AgeAssumption == Age \in Nat

ASSUME LimitsAssumption == {MaxIssue, MaxTime, MaxFaults} \subseteq Nat

VARIABLES
  now,         (* the wall clock                                             *)
  inc,         (* the incident files                                         *)
  drafts,      (* the draft files                                            *)
  candidates,  (* mtimes of the candidate files, which nothing ever reads    *)
  index,       (* index.jsonl: whether it exists, and which rows it holds;   *)
               (* `dropped` is history: rows lost by rewriting it unread     *)
  op,          (* the store call each process is in                          *)
  appended,    (* every row ever appended to the index, by its number        *)
  faults       (* calls cut short, files not read and drafts readdressed     *)

fileVars  == <<inc, drafts, candidates, index>>
storeVars == <<now, fileVars, op, appended, faults>>

NoId == "none"
Unlinked == 0

(* new_id() puts a timestamp into every id. *)
ASSUME IdAssumption == NoId \notin Incidents

(* `unread` and `dropped` are history: the incident that prune is about to   *)
(* delete could not be read, and the rows of an index it could not read.     *)
Idle == [pc |-> "idle", id |-> NoId, issue |-> Unlinked, todo |-> {}, removed |-> {},
         rows |-> {}, unread |-> FALSE, dropped |-> {}]

Free(p) == op[p].pc = "idle"

(* Something goes wrong outside the program: a file that exists cannot be    *)
(* read or parsed now (OSError, ValueError), a call is cut short.            *)
Fault == faults < MaxFaults /\ faults' = faults + 1

WrittenSwapped(n, t) == [state |-> "live", issue |-> t, mtime |-> n]
Written(n, t) == [state |-> "live", issue |-> n, mtime |-> t]
Live == {i \in Incidents : inc[i].state = "live"}
LiveDrafts == {d \in Drafts : drafts[d].state = "live"}

Old(mtime) == mtime < now - Age

-----------------------------------------------------------------------------
(* save_incident: the file, then a row of the index, then compaction.        *)

AppendRow(i) ==
  /\ appended' = Append(appended, i)
  /\ index' = [index EXCEPT !.made = TRUE, !.rows = @ \cup {Len(appended) + 1}]

FileThenRow(i) ==
  /\ inc' = [inc EXCEPT ![i] = Written(Unlinked, now)]
  /\ UNCHANGED <<index, appended>>

RowThenFile(i) ==
  /\ AppendRow(i)
  /\ UNCHANGED inc

SaveFirst(i) == FileThenRow(i)

SaveFile(p, i) ==
  /\ Free(p)
  /\ inc[i].state = "unused"
  /\ SaveFirst(i)
  /\ op' = [op EXCEPT ![p] = [Idle EXCEPT !.pc = "save_row", !.id = i]]
  /\ UNCHANGED <<now, drafts, candidates, faults>>

SaveRow(p) ==
  /\ op[p].pc = "save_row"
  /\ AppendRow(op[p].id)
  /\ op' = [op EXCEPT ![p] = [Idle EXCEPT !.pc = "save_compact"]]
  /\ UNCHANGED <<now, inc, drafts, candidates, faults>>

After(rows, k) == {l \in rows : l > k}
LastKeep(rows) == {k \in rows : Cardinality(After(rows, k)) < Keep}
FirstKeep(rows) == {k \in rows : Cardinality(rows \ After(rows, k)) <= Keep}
Compacted(rows) == LastKeep(rows)

TooLongLate(rows) == Cardinality(rows) > CompactAt + 2
TooLong(rows) == Cardinality(rows) > CompactAt

(* _compact_index reads the rows first and replaces the file later; when it  *)
(* cannot read them the save ends here, like one that is cut short (Abort).  *)
CompactRead(p) ==
  /\ op[p].pc = "save_compact"
  /\ op' = [op EXCEPT ![p] =
       IF TooLong(index.rows)
         THEN [Idle EXCEPT !.pc = "save_replace", !.rows = Compacted(index.rows)]
         ELSE Idle]
  /\ UNCHANGED <<now, fileVars, appended, faults>>

(* os.replace of the index, at the end of a compaction and of a prune. *)
ReplaceIndex(p) ==
  /\ op[p].pc \in {"save_replace", "prune_replace"}
  /\ index' = [made |-> TRUE, rows |-> op[p].rows,
                dropped |-> index.dropped \cup op[p].dropped]
  /\ op' = [op EXCEPT ![p] = Idle]
  /\ UNCHANGED <<now, inc, drafts, candidates, appended, faults>>

-----------------------------------------------------------------------------
(* update_incident_status(i, "SUBMITTED", github = issue n): read the file,  *)
(* then write it back with the link, whatever happened to it in between.     *)

LoadForUpdate(p, i, n) ==
  /\ Free(p)
  /\ inc[i].state = "live"
  /\ op' = [op EXCEPT ![p] = [Idle EXCEPT !.id = i, !.issue = n, !.pc = "update_write"]]
  /\ UNCHANGED <<now, fileVars, appended, faults>>

WriteUpdate(p) ==
  /\ op[p].pc = "update_write"
  /\ inc' = [inc EXCEPT ![op[p].id] = Written(op[p].issue, now)]
  /\ op' = [op EXCEPT ![p] = Idle]
  /\ UNCHANGED <<now, drafts, candidates, index, appended, faults>>

-----------------------------------------------------------------------------
(* prune (a dry run changes nothing and is left out). The incident ids are   *)
(* listed once; ids of one day are in random order.                          *)

PruneStart(p) ==
  /\ Free(p)
  /\ op' = [op EXCEPT ![p] = [Idle EXCEPT !.pc = "prune", !.todo = Live]]
  /\ UNCHANGED <<now, fileVars, appended, faults>>

(* Status SUBMITTED comes with a github link and no call takes either away.  *)
LinkedNever(i) == FALSE
Linked(i) == inc[i].issue # Unlinked

(* A file that vanished since it was listed cannot be read: data = {}, and   *)
(* it counts among the removed...                                            *)
PruneLook(p) ==
  /\ op[p].pc = "prune"
  /\ \E i \in op[p].todo :
       LET rest == [op[p] EXCEPT !.todo = @ \ {i}]
       IN op' = [op EXCEPT ![p] =
            IF inc[i].state = "live" /\ (~Old(inc[i].mtime) \/ Linked(i)) THEN rest
            ELSE [rest EXCEPT !.id = i, !.pc = "prune_unlink"]]
  /\ UNCHANGED <<now, fileVars, appended, faults>>

(* ... and so does one that is there, new and linked even, when its stat or  *)
(* its read raises.                                                          *)
PruneUnread(p) ==
  /\ op[p].pc = "prune"
  /\ Fault
  /\ \E i \in op[p].todo :
       /\ inc[i].state = "live"
       /\ op' = [op EXCEPT ![p] = [op[p] EXCEPT !.todo = @ \ {i}, !.id = i, !.unread = TRUE,
                                                !.pc = "prune_unlink"]]
  /\ UNCHANGED <<now, fileVars, appended>>

PruneUnlink(p) ==
  /\ op[p].pc = "prune_unlink"
  /\ inc' = [inc EXCEPT ![op[p].id].state = "deleted"]
  /\ op' = [op EXCEPT ![p] =
       [op[p] EXCEPT !.pc = "prune", !.id = NoId, !.unread = FALSE,
                     !.removed = @ \cup {op[p].id}]]
  /\ UNCHANGED <<now, drafts, candidates, index, appended, faults>>

OldDrafts == {d \in LiveDrafts : Old(drafts[d].mtime)}
OldCandidates == {t \in candidates : Old(t)}

(* Candidates and drafts are deleted by age alone, one file at a time. *)
PruneOther(p) ==
  /\ op[p].pc = "prune"
  /\ op[p].todo = {}
  /\ \/ \E t \in OldCandidates :
          candidates' = candidates \ {t} /\ UNCHANGED drafts
     \/ \E d \in OldDrafts :
          /\ OldCandidates = {}
          /\ drafts' = [drafts EXCEPT ![d].state = "deleted"]
          /\ UNCHANGED candidates
  /\ UNCHANGED <<now, inc, index, op, appended, faults>>

RowsAll(p) == index.rows
RowsLeft(p) == {k \in index.rows : appended[k] \notin op[p].removed}

FilesPruned(p) ==
  op[p].pc = "prune" /\ op[p].todo = {} /\ OldDrafts = {} /\ OldCandidates = {}

PruneIndex(p) ==
  /\ FilesPruned(p)
  /\ op' = [op EXCEPT ![p] =
       IF op[p].removed = {} THEN Idle
       ELSE [Idle EXCEPT !.pc = "prune_replace", !.rows = RowsLeft(p)]]
  /\ UNCHANGED <<now, fileVars, appended, faults>>

(* An index that cannot be read counts as empty, and is replaced all the same. *)
PruneIndexUnread(p) ==
  /\ FilesPruned(p)
  /\ op[p].removed # {}
  /\ Fault
  /\ op' = [op EXCEPT ![p] = [Idle EXCEPT !.pc = "prune_replace", !.dropped = index.rows]]
  /\ UNCHANGED <<now, fileVars, appended>>

-----------------------------------------------------------------------------
(* The other files prune deletes: save_candidate, save_draft, and a user who *)
(* edits a saved draft: its text, or what the digest does not cover, whether *)
(* the user named the repository and which incident it is about (one whose   *)
(* id was given out by then). Edits of the second kind count as faults.      *)

SaveCandidateFile == candidates' = candidates \cup {now}

SaveDraftFile(d, i, selected) ==
  /\ drafts[d].state = "unused"
  /\ drafts' = [drafts EXCEPT ![d] = [state |-> "live", incident |-> i, mtime |-> now,
                                      selected |-> selected, body |-> "previewed"]]

EditText(d) ==
  /\ drafts[d].state = "live"
  /\ drafts[d].body = "previewed"
  /\ drafts' = [drafts EXCEPT ![d].body = "edited", ![d].mtime = now]
  /\ UNCHANGED <<now, inc, candidates, index, op, appended, faults>>

EditRouting(d, i, selected) ==
  /\ drafts[d].state = "live"
  /\ drafts[d].body = "previewed"
  /\ inc[i].state # "unused"
  /\ Fault
  /\ drafts' = [drafts EXCEPT ![d].incident = i, ![d].selected = selected, ![d].mtime = now]
  /\ UNCHANGED <<now, inc, candidates, index, op, appended>>

-----------------------------------------------------------------------------

Tick ==
  /\ now < MaxTime
  /\ now' = now + 1
  /\ UNCHANGED <<fileVars, op, appended, faults>>

(* The process dies, or an OSError leaves the call: nothing it has done to   *)
(* the files is undone.                                                      *)
Abort(p) ==
  /\ ~Free(p)
  /\ Fault
  /\ op' = [op EXCEPT ![p] = Idle]
  /\ UNCHANGED <<now, fileVars, appended>>

StoreInit ==
  /\ now = 0
  /\ inc = [i \in Incidents |-> [state |-> "unused", issue |-> Unlinked, mtime |-> 0]]
  /\ drafts = [d \in Drafts |->
       [state |-> "unused", incident |-> NoId, mtime |-> 0, selected |-> FALSE,
        body |-> "previewed"]]
  /\ candidates = {}
  /\ index = [made |-> FALSE, rows |-> {}, dropped |-> {}]
  /\ op = [p \in Procs |-> Idle]
  /\ appended = <<>>
  /\ faults = 0

(* What a process does next once it is inside a call. *)
Continue(p) ==
  \/ SaveRow(p) \/ CompactRead(p) \/ ReplaceIndex(p)
  \/ WriteUpdate(p)
  \/ PruneLook(p) \/ PruneUnread(p) \/ PruneUnlink(p)
  \/ PruneOther(p) \/ PruneIndex(p) \/ PruneIndexUnread(p)

SaveOther(p, d, i) ==
  /\ Free(p)
  /\ SaveDraftFile(d, i, FALSE)
  /\ SaveCandidateFile
  /\ UNCHANGED <<now, inc, index, op, appended, faults>>

(* The store alone: any process may link any incident to any issue and save  *)
(* a candidate with a draft; Contribution has the commands that do it.       *)
Next ==
  \/ \E p \in Procs, i \in Incidents : SaveFile(p, i)
  \/ \E p \in Procs, i \in Incidents, n \in 1..MaxIssue : LoadForUpdate(p, i, n)
  \/ \E p \in Procs, d \in Drafts, i \in Incidents : SaveOther(p, d, i)
  \/ \E p \in Procs : PruneStart(p)
  \/ \E p \in Procs : Continue(p)
  \/ \E p \in Procs : Abort(p)
  \/ Tick

Spec == StoreInit /\ [][Next]_storeVars

-----------------------------------------------------------------------------
(* Properties.                                                               *)

Bodies == {"previewed", "edited"}
FileType == [state : {"unused", "live", "deleted"}, issue : 0..MaxIssue, mtime : Nat]
DraftType == [state : {"unused", "live", "deleted"}, incident : Incidents \cup {NoId},
              mtime : Nat, selected : BOOLEAN, body : Bodies]
OpType == [pc : {"idle", "save_row", "save_compact", "save_replace", "update_write",
                 "prune", "prune_unlink", "prune_replace"},
           id : Incidents \cup {NoId}, issue : 0..MaxIssue, todo : SUBSET Incidents,
           removed : SUBSET Incidents, rows : SUBSET Nat,
           unread : BOOLEAN, dropped : SUBSET Nat]

(* Types; a call that works on an incident has its id. *)
StoreTypeOK ==
  /\ now \in Nat
  /\ inc \in [Incidents -> FileType]
  /\ drafts \in [Drafts -> DraftType]
  /\ candidates \subseteq Nat
  /\ index \in [made : BOOLEAN, rows : SUBSET DOMAIN appended, dropped : SUBSET Nat]
  /\ op \in [Procs -> OpType]
  /\ \A p \in Procs : op[p].pc \in {"save_row", "update_write", "prune_unlink"} =>
       op[p].id \in Incidents
  /\ \A p \in Procs : op[p].rows \subseteq DOMAIN appended
  /\ appended \in Seq(Incidents)
  /\ faults \in Nat

(* The index never names an incident that was not saved, whoever dies where: *)
(* its file is written before its row, and no rewrite of the index - by a    *)
(* process that read it long ago - invents a row.                            *)
RowsHaveFiles ==
  \A k \in index.rows : inc[appended[k]].state # "unused"

(* As long as no call was cut short, a single process leaves no row of a     *)
(* pruned incident behind: `contribute` and `issues` list what exists.       *)
ListedExists ==
  faults = 0 =>
    \A k \in index.rows :
      \/ inc[appended[k]].state = "live"
      \/ \E p \in Procs : appended[k] \in op[p].removed \/ op[p].pc = "prune_replace"

(* Of the last INDEX_KEEP rows ever appended, a single process lists those   *)
(* whose incident exists, however saves, prunes and aborted calls alternate; *)
(* only a prune that could not read the index loses any of them.             *)
RecentListed ==
  \A k \in DOMAIN appended \ index.dropped :
    Len(appended) - k < Keep /\ inc[appended[k]].state = "live" =>
      k \in index.rows

(* "index compacted at 2000 -> 1000 rows": outside a save the index holds at *)
(* most INDEX_COMPACT_AT rows, and one more for each save cut short.         *)
IndexBounded ==
  (\A p \in Procs : Free(p)) => Cardinality(index.rows) <= CompactAt + faults

(* prune is about to delete an incident that it could not read.              *)
Unread(i) ==
  \E p \in Procs : op[p].pc = "prune_unlink" /\ op[p].id = i /\ op[p].unread

(* "Incidents linked to an upstream report ... are kept": prune deletes a    *)
(* linked incident only when it could not read its file.                     *)
PruneKeepsLinked ==
  [][\A i \in Incidents :
       inc[i].state = "live" /\ inc[i].issue # Unlinked =>
         inc'[i].state = "live" \/ Unread(i)]_storeVars

=============================================================================
