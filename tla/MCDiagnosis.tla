---------------------------- MODULE MCDiagnosis -----------------------------
EXTENDS Diagnosis

CONSTANTS c1, c2, c3, c4, a, s1, s2

(* A server that numbers the calls of each response from the start. *)
OneId   == [c \in Calls |-> a]
OneTool == [c \in Calls |-> "ls"]
(* Calls without ids, three of one tool and one of another. *)
NoIds    == [c \in Calls |-> NoId]
TwoTools == (c1 :> "ls") @@ (c2 :> "ls") @@ (c3 :> "ls") @@ (c4 :> "cat")
Symmetry == Permutations(Sessions) \cup Permutations(Calls)
SameTool == Permutations(Calls \ {c4})

(* wtf is called when the calls have been through their hooks. *)
WtfLast == cmd.pc = "frozen" => now = MaxTime

(* Nothing follows a report. *)
Reported == IF cmd.pc = "done" THEN <<report.rule, report.verdict>> ELSE vars
=============================================================================
