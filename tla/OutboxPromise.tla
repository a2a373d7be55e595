---------------------------- MODULE OutboxPromise ----------------------------
(***************************************************************************)
(* What the notification outbox promises of a row, without drains, leases, *)
(* clocks or transactions: it is queued when its maintenance change        *)
(* commits, its mail may reach the relay while it is queued, and it leaves *)
(* the queue as sent or failed.                                            *)
(***************************************************************************)
EXTENDS Naturals

CONSTANT MaxId

VARIABLES state, mails

Id == 1..MaxId

Init == /\ state = [r \in Id |-> "none"]
        /\ mails = [r \in Id |-> 0]

Become(S, from, to) ==
  /\ \A r \in S : state[r] = from
  /\ state' = [r \in Id |-> IF r \in S THEN to ELSE state[r]]
  /\ UNCHANGED mails

Queue(r) == Become({r}, "none", "queued")

\* The relay accepts the mail of a queued row (counted up to two).
Relay(r) ==
  /\ state[r] = "queued"
  /\ mails' = [mails EXCEPT ![r] = IF @ = 2 THEN 2 ELSE @ + 1]
  /\ UNCHANGED state

Confirm(r) == mails[r] > 0 /\ Become({r}, "queued", "sent")

GiveUp(S) == Become(S, "queued", "failed")
Redrive(S) == Become(S, "failed", "queued")
Prune(S) == Become(S, "sent", "deleted")

Next == \/ \E r \in Id : Queue(r) \/ Relay(r) \/ Confirm(r)
        \/ \E S \in SUBSET Id : GiveUp(S) \/ Redrive(S) \/ Prune(S)

Spec == Init /\ [][Next]_<<state, mails>>

=============================================================================
