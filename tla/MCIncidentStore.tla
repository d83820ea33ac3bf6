--------------------------- MODULE MCIncidentStore ---------------------------
(* IncidentStore on small instances; the incidents are interchangeable. *)
EXTENDS IncidentStore, TLC

IncidentSymmetry == Permutations(Incidents)

=============================================================================
