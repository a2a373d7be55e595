------------------------------ MODULE MCOutbox ------------------------------
(* Instances of Outbox for TLC. *)
EXTENDS Outbox, TLC

\* Worker.backoff in ticks: the delay doubles from one tick and is capped at two.
MCBackoff == [n \in 0..MaxAttempts |-> IF n <= 1 THEN {1} ELSE {1, 2}]

MCSymmetry == Permutations(Pod)

=============================================================================
