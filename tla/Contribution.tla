---------------------------- MODULE Contribution ----------------------------
(***************************************************************************)
(* `minefield contribute` on top of the incident store                      *)
(* (commands/contribute.py, issues/draft.py, issues/github_client.py,       *)
(* issues/approval.py): an incident becomes a candidate, a draft and, when  *)
(* a human approves it, a GitHub issue to which the incident is linked.     *)
(* wtf and prune run beside it, in this or in another process, the draft    *)
(* files and the configuration may be edited between two commands, and the  *)
(* answer of GitHub may be lost.                                            *)
(*                                                                          *)
(* job[p] is the contribute command process p runs, op[p] (IncidentStore)   *)
(* the store call it is in.                                                 *)
(***************************************************************************)
EXTENDS IncidentStore

CONSTANTS
  Contributors,  (* processes that run wtf and contribute                    *)
  Pruners,       (* processes that run prune                                 *)
  AllowChat      (* allow_submit_from_chat                                   *)

ASSUME CommandsAssumption ==
  /\ Contributors \subseteq Procs
  /\ Pruners \subseteq Procs
  /\ AllowChat \in BOOLEAN

VARIABLES
  job,     (* the contribute command of each process                         *)
  issues,  (* external: the issues on GitHub, in the order they were created *)
  listed,  (* whether repo_allowlist holds the recommended repository        *)
  said     (* history: the links "Linked INC -> repo#n" was printed for, and *)
           (* whether the command had written the link before it printed it  *)

contribVars == <<job, issues, listed, said>>
vars == <<storeVars, contribVars>>

(* How a submission was asked for: --i-approve-submit, a reply that is an    *)
(* approval phrase, any other reply, or an approval that came from a model.  *)
Vias == {"flag", "yes", "chatter", "model"}
Surfaces == {"cli", "chat"}

NoRequest == [via |-> "none", surface |-> "cli", selected |-> FALSE, listed |-> FALSE]
NoJob == [pc |-> "idle", incident |-> NoId, body |-> "previewed", selected |-> FALSE,
          issue |-> Unlinked, request |-> NoRequest]

Ready(p) == job[p].pc = "idle" /\ Free(p)

-----------------------------------------------------------------------------
(* Other commands of the same processes.                                     *)

Wtf(p, i) ==
  /\ Ready(p)
  /\ SaveFile(p, i)
  /\ UNCHANGED contribVars

Prune(p) ==
  /\ Ready(p)
  /\ PruneStart(p)
  /\ UNCHANGED contribVars

StoreStep(p) ==
  /\ Continue(p)
  /\ UNCHANGED contribVars

-----------------------------------------------------------------------------
(* run_contribute.                                                           *)

(* _resolve_incident: an incident whose file exists; without an id it is the *)
(* newest row of the index, and never another one when its file is gone.     *)
Resolve(p, i) ==
  /\ Ready(p)
  /\ inc[i].state = "live"
  /\ job' = [job EXCEPT ![p] = [NoJob EXCEPT !.pc = "resolved", !.incident = i]]
  /\ UNCHANGED <<storeVars, issues, listed, said>>

SaveCandidate(p) ==
  /\ job[p].pc = "resolved"
  /\ SaveCandidateFile
  /\ job' = [job EXCEPT ![p].pc = "candidate"]
  /\ UNCHANGED <<now, inc, drafts, index, op, appended, faults, issues, listed, said>>

(* The routing: the repository the user named, or the recommended one when   *)
(* it is in the allowlist; a repository that a model names is never used.    *)
CanDraft(selected) == selected \/ listed

(* --github: a draft of the incident. *)
Draft(p, d, selected) ==
  /\ job[p].pc = "candidate"
  /\ CanDraft(selected)
  /\ SaveDraftFile(d, job[p].incident, selected)
  /\ job' = [job EXCEPT ![p] = [@ EXCEPT !.pc = "drafted", !.selected = selected]]
  /\ UNCHANGED <<now, inc, candidates, index, op, appended, faults, issues, listed, said>>

(* load_draft: a draft whose title and body no longer have the digest saved  *)
(* with them is refused. Its incident and its repository are taken as they   *)
(* are.                                                                      *)
DigestIgnored(d) == drafts[d].state = "live"
DigestMatches(d) == drafts[d].body = "previewed"

SubmitDraft(p, d) ==
  /\ Ready(p)
  /\ drafts[d].state = "live"
  /\ DigestMatches(d)
  /\ job' = [job EXCEPT ![p] =
       [NoJob EXCEPT !.pc = "drafted", !.incident = drafts[d].incident,
                     !.body = drafts[d].body, !.selected = drafts[d].selected]]
  /\ UNCHANGED <<storeVars, issues, listed, said>>

-----------------------------------------------------------------------------
(* _submit and submit_issue.                                                 *)

ChatOpen(r) == r.surface = "cli" \/ AllowChat
RepoAllowed(r) == r.selected \/ r.listed
AnyReply(r) == r.via # "model"
Approved(r) == r.via \in {"flag", "yes"}

(* Not a dry run, every gate open, a token found: the request is sent. The   *)
(* allowlist is read now, whatever it was when the draft was saved.          *)
Decide(p, via, surface) ==
  LET r == [via |-> via, surface |-> surface, selected |-> job[p].selected,
            listed |-> listed]
  IN  /\ job[p].pc = "drafted"
      /\ ChatOpen(r)
      /\ RepoAllowed(r)
      /\ Approved(r)
      /\ job' = [job EXCEPT ![p] = [@ EXCEPT !.pc = "posting", !.request = r]]
      /\ UNCHANGED <<storeVars, issues, listed, said>>

(* A command that saw an error is over: nothing posts again by itself.      *)
PostAgain(p) == job[p]
GiveUp(p) == NoJob

(* The issue is created; its answer arrives, or the command sees an error.   *)
Post(p) ==
  /\ job[p].pc = "posting"
  /\ Len(issues) < MaxIssue
  /\ issues' = Append(issues, [incident |-> job[p].incident, body |-> job[p].body])
  /\ \/ job' = [job EXCEPT ![p] = [NoJob EXCEPT !.pc = "posted", !.issue = Len(issues'),
                                                !.incident = job[p].incident]]
     \/ job' = [job EXCEPT ![p] = GiveUp(p)]
  /\ UNCHANGED <<storeVars, listed, said>>

LinkLatest(p) ==
  IF index.rows = {} THEN job[p].incident
  ELSE appended[CHOOSE k \in index.rows : After(index.rows, k) = {}]
LinkedIncident(p) == job[p].incident

(* _link_incident: update_incident_status loads the incident... *)
Link(p) ==
  /\ job[p].pc = "posted"
  /\ LoadForUpdate(p, LinkedIncident(p), job[p].issue)
  /\ job' = [job EXCEPT ![p].pc = "linking"]
  /\ UNCHANGED <<issues, listed, said>>

(* ... and returns False if it is gone or cannot be loaded, which            *)
(* _link_incident ignores.                                                   *)
CannotLink(p) == job[p].pc = "posted" /\ inc[job[p].incident].state # "live"
LinkDone(p) == job[p].pc = "linking" /\ Free(p)

ReportBeforeWrite(p) == CannotLink(p) \/ job[p].pc = "linking"
ReportUnsent(p) == CannotLink(p) \/ LinkDone(p) \/ job[p].pc = "posting"
MayReport(p) == CannotLink(p) \/ LinkDone(p)

Report(p) ==
  /\ MayReport(p)
  /\ said' = said \cup {<<job[p].incident, job[p].issue, job[p].pc = "linking">>}
  /\ job' = [job EXCEPT ![p] = NoJob]
  /\ UNCHANGED <<storeVars, issues, listed>>

ReportUnloaded(p) ==
  /\ job[p].pc = "posted"
  /\ inc[job[p].incident].state = "live"
  /\ Fault
  /\ said' = said \cup {<<job[p].incident, job[p].issue, FALSE>>}
  /\ job' = [job EXCEPT ![p] = NoJob]
  /\ UNCHANGED <<now, fileVars, op, appended, issues, listed>>

(* Only a preview was wanted, the routing found no repository, a gate was    *)
(* closed, it was a dry run, or GitHub refused: the command ends.            *)
EndCommand(p) ==
  /\ job[p].pc \in {"candidate", "drafted", "posting"}
  /\ job' = [job EXCEPT ![p] = NoJob]
  /\ UNCHANGED <<storeVars, issues, listed, said>>

-----------------------------------------------------------------------------
(* The environment.                                                          *)

Die(p) ==
  /\ ~Ready(p)
  /\ Fault
  /\ op' = [op EXCEPT ![p] = Idle]
  /\ job' = [job EXCEPT ![p] = NoJob]
  /\ UNCHANGED <<now, fileVars, appended, issues, listed, said>>

(* The user takes the repository out of repo_allowlist. *)
Unlist ==
  /\ listed
  /\ listed' = FALSE
  /\ UNCHANGED <<storeVars, job, issues, said>>

EditOrTick ==
  /\ \/ Tick
     \/ \E d \in Drafts : EditText(d)
     \/ \E d \in Drafts, i \in Incidents, selected \in BOOLEAN : EditRouting(d, i, selected)
  /\ UNCHANGED contribVars

-----------------------------------------------------------------------------

ContribInit ==
  /\ StoreInit
  /\ job = [p \in Procs |-> NoJob]
  /\ issues = <<>>
  /\ listed = TRUE
  /\ said = {}

Commands(p) ==
  \/ \E i \in Incidents : Wtf(p, i) \/ Resolve(p, i)
  \/ SaveCandidate(p)
  \/ \E d \in Drafts, selected \in BOOLEAN : Draft(p, d, selected)
  \/ \E d \in Drafts : SubmitDraft(p, d)
  \/ \E via \in Vias, surface \in Surfaces : Decide(p, via, surface)
  \/ Post(p) \/ Link(p) \/ Report(p) \/ ReportUnloaded(p) \/ EndCommand(p)

ContribNext ==
  \/ \E p \in Contributors : Commands(p)
  \/ \E p \in Pruners : Prune(p)
  \/ \E p \in Procs : StoreStep(p)
  \/ \E p \in Procs : Die(p)
  \/ Unlist
  \/ EditOrTick

ContribSpec == ContribInit /\ [][ContribNext]_vars

-----------------------------------------------------------------------------
(* Properties.                                                               *)

RequestType == [via : Vias \cup {"none"}, surface : Surfaces, selected : BOOLEAN,
                listed : BOOLEAN]
JobType == [pc : {"idle", "resolved", "candidate", "drafted", "posting", "posted", "linking"},
            incident : Incidents \cup {NoId}, body : Bodies, selected : BOOLEAN,
            issue : 0..MaxIssue, request : RequestType]

(* Types; a link that was printed is one of an existing incident and issue.  *)
ContribTypeOK ==
  /\ StoreTypeOK
  /\ job \in [Procs -> JobType]
  /\ issues \in Seq([incident : Incidents, body : Bodies])
  /\ listed \in BOOLEAN
  /\ said \subseteq Incidents \X (DOMAIN issues) \X BOOLEAN

(* Publication is a deliberate human step: whatever was edited, unlisted or   *)
(* pruned since the preview, every issue on GitHub was approved by a human    *)
(* (never by a model, never by chatter), from a surface that may submit, and  *)
(* went to a repository that was listed at that moment, or that the user had  *)
(* named, as the draft says when it is sent: the digest does not cover it.    *)
OnlyApproved ==
  [][Len(issues') > Len(issues) =>
       \E p \in Procs :
         LET r == job[p].request
         IN  /\ job[p].pc = "posting" /\ job'[p].pc # "posting"
             /\ r.via \in {"flag", "yes"}
             /\ r.surface = "cli" \/ AllowChat
             /\ r.selected \/ r.listed]_vars

(* "--submit-draft sends exactly those bytes": no issue has a body that was   *)
(* changed after its preview, though the file may change at any moment.       *)
PostedAsPreviewed ==
  \A n \in DOMAIN issues : issues[n].body = "previewed"

(* An incident is linked to an issue whose draft, as it was sent, is about    *)
(* it, whichever incidents were saved, pruned or linked between the draft and *)
(* the answer.                                                                *)
LinkedToItsIssue ==
  \A i \in Incidents :
    inc[i].issue # Unlinked =>
      inc[i].issue \in DOMAIN issues /\ issues[inc[i].issue].incident = i

(* Once a command wrote the link and printed "Linked INC -> repo#n", the      *)
(* incident's file, as long as it exists, carries a link: no other command    *)
(* writes back what it read before the link. (What is printed although the    *)
(* file could not be loaded is the subject of SaidIsLinked.)                  *)
LinkStays ==
  \A s \in said : s[3] /\ inc[s[1]].state = "live" => inc[s[1]].issue # Unlinked

(* After a successful submission the incident is linked to the issue: what    *)
(* the command prints last.                                                   *)
SaidIsLinked ==
  \A s \in said : inc[s[1]].state = "live" /\ inc[s[1]].issue # Unlinked

(* An approval is the time between the last gate and the answer of GitHub;   *)
(* a link is what the incident's file says.                                  *)
Published == INSTANCE Publication WITH
  Actors     <- Procs,
  NoIncident <- NoId,
  NoIssue    <- Unlinked,
  saved      <- {i \in Incidents : inc[i].state # "unused"},
  kept       <- Live,
  approved   <- [p \in Procs |-> IF job[p].pc = "posting" THEN job[p].incident ELSE NoId],
  posts      <- [n \in DOMAIN issues |-> issues[n].incident],
  link       <- [i \in Incidents |-> inc[i].issue]

(* Whatever is pruned, edited, unlisted, answered late or cut short between  *)
(* two steps, commands of all processes together do to an incident only what *)
(* Publication allows: one issue for an approval, links to its own issues,   *)
(* no file begun again and no link taken back.                               *)
ImplementsPublication == Published!Spec

=============================================================================
