-------------------------- MODULE MCFlightRecorder --------------------------
(* FlightRecorder on small instances. *)
EXTENDS FlightRecorder, TLC

Symmetry == Permutations(Procs) \cup Permutations(Hooks)

=============================================================================
