----------------------------- MODULE EvidenceLog -----------------------------
(***************************************************************************)
(* What the flight recorder promises, without threads, locks or files.      *)
(* An event belongs to a directory from the moment it is recorded. Its row  *)
(* is held in memory, then either committed to that directory's shelf or    *)
(* gone. A row that is gone never comes back, a committed row is never      *)
(* committed again, and one commit files rows of one directory only.        *)
(***************************************************************************)
EXTENDS Integers, Sequences

CONSTANT Homes

VARIABLES
  home,   (* home[e]: the directory of event e, in recording order *)
  held,   (* rows in memory, waiting to be written                 *)
  shelf,  (* shelf[h]: the rows that can be read back from h       *)
  gone    (* rows that no reader will find (again)                 *)

vars == <<home, held, shelf, gone>>

Init ==
  /\ home = <<>>
  /\ held = {}
  /\ shelf = [h \in Homes |-> {}]
  /\ gone = {}

(* A new event is held, or (no row, or the recorder is stopped) never written. *)
Accept(h) ==
  LET e == Len(home) + 1
  IN  /\ home' = Append(home, h)
      /\ \/ held' = held \cup {e} /\ gone' = gone
         \/ held' = held /\ gone' = gone \cup {e}
      /\ shelf' = shelf

(* Of the held rows E of h, D reach its shelf and the rest is lost. *)
Commit(h, E, D) ==
  /\ \A e \in E : home[e] = h
  /\ held' = held \ E
  /\ shelf' = [shelf EXCEPT ![h] = @ \cup D]
  /\ gone' = gone \cup (E \ D)
  /\ home' = home

(* The process that held them died. *)
Discard(E) ==
  /\ held' = held \ E
  /\ gone' = gone \cup E
  /\ UNCHANGED <<home, shelf>>

(* Cleanup removes rows from a shelf. *)
Delete(h, E) ==
  /\ shelf' = [shelf EXCEPT ![h] = @ \ E]
  /\ gone' = gone \cup E
  /\ UNCHANGED <<home, held>>

Next ==
  \/ \E h \in Homes : Accept(h)
  \/ \E h \in Homes, E \in SUBSET held : \E D \in SUBSET E : Commit(h, E, D)
  \/ \E E \in SUBSET held : Discard(E)
  \/ \E h \in Homes : \E E \in SUBSET shelf[h] : Delete(h, E)

Spec == Init /\ [][Next]_vars

=============================================================================
