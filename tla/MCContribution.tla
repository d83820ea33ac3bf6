--------------------------- MODULE MCContribution ---------------------------
(* Contribution on small instances; no property tells incidents or drafts  *)
(* apart.                                                                    *)
EXTENDS Contribution, TLC

FileSymmetry == Permutations(Incidents) \cup Permutations(Drafts)

=============================================================================
