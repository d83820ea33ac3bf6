----------------------------- MODULE Publication -----------------------------
(***************************************************************************)
(* What `contribute` promises, without commands, calls, files or drafts.    *)
(* An incident is saved once. A human approves the publication of a saved   *)
(* incident; an approval is good for one issue, about that incident, or for *)
(* none. An incident may be linked to an issue about it, and from then on   *)
(* always is; linking brings back a file that was removed.                  *)
(***************************************************************************)
EXTENDS Integers, Sequences

CONSTANTS Actors, Incidents, NoIncident, NoIssue

VARIABLES
  saved,     (* incidents that were ever saved                    *)
  kept,      (* incidents that have a file                        *)
  approved,  (* approved[a]: the incident a may publish now       *)
  posts,     (* the incident each issue is about, in their order  *)
  link       (* link[i]: the issue i is linked to                 *)

vars == <<saved, kept, approved, posts, link>>

Init ==
  /\ saved = {}
  /\ kept = {}
  /\ approved = [a \in Actors |-> NoIncident]
  /\ posts = <<>>
  /\ link = [i \in Incidents |-> NoIssue]

Save(i) ==
  /\ i \notin saved
  /\ saved' = saved \cup {i}
  /\ kept' = kept \cup {i}
  /\ UNCHANGED <<approved, posts, link>>

Approve(a, i) ==
  /\ i \in saved
  /\ approved[a] = NoIncident
  /\ approved' = [approved EXCEPT ![a] = i]
  /\ UNCHANGED <<saved, kept, posts, link>>

Withdraw(a) ==
  /\ approved' = [approved EXCEPT ![a] = NoIncident]
  /\ UNCHANGED <<saved, kept, posts, link>>

(* The approval is used up, whether or not an answer arrives. *)
Publish(a) ==
  /\ approved[a] # NoIncident
  /\ posts' = Append(posts, approved[a])
  /\ approved' = [approved EXCEPT ![a] = NoIncident]
  /\ UNCHANGED <<saved, kept, link>>

Attach(n) ==
  /\ link' = [link EXCEPT ![posts[n]] = n]
  /\ kept' = kept \cup {posts[n]}
  /\ UNCHANGED <<saved, approved, posts>>

Remove(i) ==
  /\ kept' = kept \ {i}
  /\ UNCHANGED <<saved, approved, posts, link>>

Next ==
  \/ \E i \in Incidents : Save(i) \/ Remove(i)
  \/ \E a \in Actors, i \in Incidents : Approve(a, i)
  \/ \E a \in Actors : Withdraw(a) \/ Publish(a)
  \/ \E n \in DOMAIN posts : Attach(n)

Spec == Init /\ [][Next]_vars

=============================================================================
