----------------------------- MODULE MCIncidents ---------------------------
(* Instances of Incidents for TLC. *)
EXTENDS Incidents, TLC

CONSTANTS h1, h2, c1, c2, c3

MCSymmetry == Permutations(Handler) \cup Permutations(Component)

=============================================================================
