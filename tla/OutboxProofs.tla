---------------------------- MODULE OutboxProofs ----------------------------
(***************************************************************************)
(* Theorems about Outbox, for every number of pods and rows and every      *)
(* timing that satisfies LeaseAssumption.                                  *)
(*                                                                         *)
(* The properties of interest are not inductive: what keeps a stale UPDATE *)
(* by id from hitting a row is that its lease is younger than the time the *)
(* drain may have spent on it (HoldTime), so the recovery transaction,     *)
(* which locks only rows past their lease on some clock (LockRecover),     *)
(* never touches a row in flight.  IInv collects these facts; the lemmas   *)
(* show that each action keeps it.                                         *)
(***************************************************************************)
EXTENDS Outbox, TLAPS

USE DEF vars, rowVars, drainVars, podVars, mailVars, budget

(* A row in flight is within its lease on every clock. *)
LEMMA LeaseLasts ==
  ASSUME TypeOK, HoldTime, HoldRow, NEW d \in Drainer, Holds(d)
  PROVE  age[held[d]] + MaxSkew <= Lease
BY LeaseAssumption DEF TypeOK, HoldTime, HoldRow, Holds, Spent, Limit, Holding, Marking

LEMMA HeldRow ==
  ASSUME IInv, NEW d \in Drainer, pc[d] \in Holding
  PROVE  held[d] \in Id /\ status[held[d]] = "processing"
BY DEF IInv, HoldRow, Holds

(* Types of the helper actions. *)
LEMMA PhaseType ==
  ASSUME TypeOK, NEW d \in Drainer, NEW c \in Control, Phase(d, c)
  PROVE  pc' \in [Drainer -> Control] /\ timer' \in [Drainer -> Nat]
BY DEF TypeOK, Phase

LEMMA NextRowType ==
  ASSUME TypeOK, NEW d \in Drainer, NextRow(d)
  PROVE  /\ pc' \in [Drainer -> Control] /\ timer' \in [Drainer -> Nat]
         /\ held' \in [Drainer -> Id \cup {0}] /\ seen' \in [Drainer -> Nat]
BY PhaseType DEF TypeOK, NextRow, Control

LEMMA WriteType ==
  ASSUME TypeOK, NEW r \in Id, NEW s \in Status, NEW w \in Nat, Write(r, s, w)
  PROVE  status' \in [Id -> Status] /\ wait' \in [Id -> Nat] /\ age' \in [Id -> Nat]
BY DEF TypeOK, Write

-----------------------------------------------------------------------------
(* One lemma per action: the parts of IInv it can disturb, then the rest. *)

LEMMA RecoverSelectKeeps ==
  ASSUME IInv, NEW d \in Drainer, RecoverSelect(d)
  PROVE  IInv'
<1>1. TypeOK'
  BY BoundsAssumption DEF IInv, TypeOK, Control, Holding, Marking, Status,
    RecoverSelect, Stale, Locked
<1>2. LockIdle'
  BY DEF IInv, TypeOK, LockIdle, RecoverSelect, Stale, Locked
<1>3. LockUnique'
  BY DEF IInv, TypeOK, LockUnique, RecoverSelect, Stale, Locked
<1>4. LockClaim'
  BY DEF IInv, TypeOK, LockClaim, RecoverSelect, Stale, Locked
<1>5. LockRecover'
  BY LeaseAssumption DEF IInv, TypeOK, LockRecover, RecoverSelect, Stale, Locked
<1>6. HoldRow'
  BY DEF IInv, TypeOK, HoldRow, Holds, Holding, Marking, RecoverSelect, Stale, Locked
<1>7. HoldTime'
  BY LeaseAssumption DEF IInv, TypeOK, HoldTime, Holds, Holding, Marking, Spent, Limit,
    RecoverSelect, Stale, Locked
<1>8. HoldFacts'
  BY DEF IInv, TypeOK, HoldFacts, RecoverSelect, Stale, Locked
<1>9. DownInv'
  BY DEF IInv, TypeOK, DownInv, RecoverSelect, Stale, Locked
<1>10. AcceptInv'
  BY DEF IInv, TypeOK, AcceptInv, RecoverSelect, Stale, Locked
<1>11. ExclusiveLease'
  BY DEF IInv, TypeOK, ExclusiveLease, Holds, Holding, Marking, RecoverSelect, Stale,
    Locked
<1>12. (FreshInv /\ AttemptsBounded /\ NoUnexplainedDuplicate)'
  BY DEF IInv, RecoverSelect, FreshInv, AttemptsBounded, NoUnexplainedDuplicate
<1> QED BY <1>1, <1>2, <1>3, <1>4, <1>5, <1>6, <1>7, <1>8, <1>9, <1>10, <1>11, <1>12 DEF
  IInv

LEMMA RecoverStaleProcessingKeeps ==
  ASSUME IInv, NEW d \in Drainer, RecoverStaleProcessing(d)
  PROVE  IInv'
<1>1. TypeOK'
  BY BoundsAssumption DEF IInv, TypeOK, Control, Holding, Marking, Status,
    RecoverStaleProcessing
<1>2. LockIdle'
  BY DEF IInv, TypeOK, LockIdle, RecoverStaleProcessing
<1>3. LockUnique'
  BY DEF IInv, TypeOK, LockUnique, RecoverStaleProcessing
<1>4. LockClaim'
  BY DEF IInv, TypeOK, Drainer, LockClaim, LockIdle, LockUnique, HoldRow, Holds,
    Holding, Marking, RecoverStaleProcessing
<1>5. LockRecover'
  BY LeaseAssumption, LeaseLasts DEF IInv, TypeOK, Drainer, LockRecover, LockIdle,
    LockUnique, HoldRow, Holds, Holding, Marking, RecoverStaleProcessing
<1>6. HoldRow'
  <2>1. ASSUME NEW e \in Drainer, Holds(e)' PROVE held'[e] \in Id /\ status'[held'[e]] = "processing"
    <3>1. Holds(e) /\ held'[e] = held[e]
      BY <2>1 DEF RecoverStaleProcessing, Holds, Holding, Marking, IInv, TypeOK
    <3>2. held[e] \in Id /\ status[held[e]] = "processing"  BY <3>1 DEF IInv, HoldRow
    <3>3. age[held[e]] \in Nat /\ age[held[e]] + MaxSkew <= Lease  BY <3>1, <3>2, LeaseLasts DEF IInv, TypeOK
    <3>4. held[e] \notin sel[d]
      BY <3>2, <3>3, LeaseAssumption DEF RecoverStaleProcessing, IInv, LockRecover
    <3> QED BY <3>1, <3>2, <3>4 DEF RecoverStaleProcessing, IInv, TypeOK
  <2> QED BY <2>1 DEF HoldRow
<1>7. HoldTime'
  BY LeaseAssumption, LeaseLasts DEF IInv, TypeOK, Drainer, HoldTime, HoldRow,
    LockClaim, LockRecover, ExclusiveLease, Spent, Limit, Holds, Holding, Marking,
    RecoverStaleProcessing
<1>8. HoldFacts'
  BY DEF IInv, TypeOK, HoldFacts, RecoverStaleProcessing
<1>9. DownInv'
  BY DEF IInv, TypeOK, DownInv, RecoverStaleProcessing
<1>10. FreshInv'
  BY DEF IInv, TypeOK, FreshInv, RecoverStaleProcessing
<1>11. AcceptInv'
  BY LeaseLasts DEF IInv, TypeOK, Drainer, AcceptInv, HoldRow, HoldFacts, LockClaim,
    LockRecover, ExclusiveLease, Holds, Holding, Marking, RecoverStaleProcessing
<1>12. ExclusiveLease'
  BY DEF IInv, TypeOK, ExclusiveLease, Holds, Holding, Marking, RecoverStaleProcessing
<1>13. AttemptsBounded'
  BY BoundsAssumption DEF IInv, TypeOK, AttemptsBounded, RecoverStaleProcessing
<1>14. (NoUnexplainedDuplicate)'
  BY DEF IInv, RecoverStaleProcessing, NoUnexplainedDuplicate
<1> QED BY <1>1, <1>2, <1>3, <1>4, <1>5, <1>6, <1>7, <1>8, <1>9, <1>10, <1>11, <1>12,
  <1>13, <1>14 DEF IInv

LEMMA ClaimSelectKeeps ==
  ASSUME IInv, NEW d \in Drainer, ClaimSelect(d)
  PROVE  IInv'
<1>1. TypeOK'
  <2>1. sel' \in [Drainer -> SUBSET Id]  BY DEF ClaimSelect, IInv, TypeOK
  <2>2. pc' \in [Drainer -> Control]  BY DEF ClaimSelect, IInv, TypeOK, Control
  <2> QED BY <2>1, <2>2 DEF ClaimSelect, IInv, TypeOK
<1>2. LockIdle'
  BY DEF IInv, TypeOK, LockIdle, ClaimSelect, Due, Locked
<1>3. LockUnique'
  BY DEF IInv, TypeOK, LockUnique, ClaimSelect, Due, Locked
<1>4. LockClaim'
  <2>1. ASSUME NEW e \in Drainer, pc'[e] = "claimTx", NEW r \in sel'[e]
        PROVE  status'[r] = "pending" /\ sel'[e] = {r}
    <3>1. CASE e = d  BY <2>1, <3>1 DEF ClaimSelect, Due, IInv, TypeOK, LockIdle
    <3>2. CASE e # d  BY <2>1, <3>2 DEF ClaimSelect, IInv, TypeOK, LockClaim
    <3> QED BY <3>1, <3>2
  <2> QED BY <2>1 DEF LockClaim
<1>5. LockRecover'
  <2>1. \A e \in Drainer : pc'[e] = "recoverTx" => pc[e] = "recoverTx" /\ sel'[e] = sel[e]
    BY DEF ClaimSelect, IInv, TypeOK
  <2> QED BY <2>1 DEF ClaimSelect, IInv, LockRecover
<1>6. HoldRow'
  BY DEF IInv, TypeOK, HoldRow, Holds, Holding, Marking, ClaimSelect, Due, Locked
<1>7. HoldTime'
  BY LeaseAssumption DEF IInv, TypeOK, HoldTime, Holds, Holding, Marking, Spent, Limit,
    ClaimSelect, Due, Locked
<1>8. HoldFacts'
  BY DEF IInv, TypeOK, HoldFacts, ClaimSelect, Due, Locked
<1>9. DownInv'
  BY DEF IInv, TypeOK, DownInv, ClaimSelect, Due, Locked
<1>10. AcceptInv'
  BY DEF IInv, TypeOK, AcceptInv, ClaimSelect, Due, Locked
<1>11. ExclusiveLease'
  BY DEF IInv, TypeOK, ExclusiveLease, Holds, Holding, Marking, ClaimSelect, Due, Locked
<1>12. (FreshInv /\ AttemptsBounded /\ NoUnexplainedDuplicate)'
  BY DEF IInv, ClaimSelect, FreshInv, AttemptsBounded, NoUnexplainedDuplicate
<1> QED BY <1>1, <1>2, <1>3, <1>4, <1>5, <1>6, <1>7, <1>8, <1>9, <1>10, <1>11, <1>12 DEF
  IInv

LEMMA DrainedKeeps ==
  ASSUME IInv, NEW d \in Drainer, Drained(d)
  PROVE  IInv'
<1>1. TypeOK'
  BY BoundsAssumption DEF IInv, TypeOK, Control, Holding, Marking, Status, Drained,
    Return
<1>2. LockIdle'
  BY DEF IInv, TypeOK, LockIdle, Drained, Return
<1>3. LockUnique'
  BY DEF IInv, TypeOK, LockUnique, Drained, Return
<1>4. LockClaim'
  BY DEF IInv, TypeOK, LockClaim, Drained, Return
<1>5. LockRecover'
  BY LeaseAssumption DEF IInv, TypeOK, LockRecover, Drained, Return
<1>6. HoldRow'
  BY DEF IInv, TypeOK, HoldRow, Holds, Holding, Marking, Drained, Return
<1>7. HoldTime'
  BY LeaseAssumption DEF IInv, TypeOK, HoldTime, Holds, Holding, Marking, Spent, Limit,
    Drained, Return
<1>8. HoldFacts'
  BY DEF IInv, TypeOK, HoldFacts, Drained, Return
<1>9. DownInv'
  BY DEF IInv, TypeOK, DownInv, Drained, Return
<1>10. AcceptInv'
  BY DEF IInv, TypeOK, AcceptInv, Drained, Return
<1>11. ExclusiveLease'
  BY DEF IInv, TypeOK, ExclusiveLease, Holds, Holding, Marking, Drained, Return
<1>12. (FreshInv /\ AttemptsBounded /\ NoUnexplainedDuplicate)'
  BY DEF IInv, Drained, FreshInv, AttemptsBounded, NoUnexplainedDuplicate, Return
<1> QED BY <1>1, <1>2, <1>3, <1>4, <1>5, <1>6, <1>7, <1>8, <1>9, <1>10, <1>11, <1>12 DEF
  IInv

LEMMA ClaimPendingKeeps ==
  ASSUME IInv, NEW d \in Drainer, ClaimPending(d)
  PROVE  IInv'
<1>1. TypeOK'
  BY BoundsAssumption DEF IInv, TypeOK, Control, Holding, Marking, Status, ClaimPending,
    Phase
<1>2. LockIdle'
  BY DEF IInv, TypeOK, LockIdle, ClaimPending, Phase
<1>3. LockUnique'
  BY DEF IInv, TypeOK, LockUnique, ClaimPending, Phase
<1>4. LockClaim'
  BY DEF IInv, TypeOK, Drainer, LockClaim, LockIdle, LockUnique, HoldRow, Holds,
    Holding, Marking, ClaimPending, Phase
<1>5. LockRecover'
  BY LeaseAssumption DEF IInv, TypeOK, Drainer, LockRecover, LockIdle, LockUnique,
    HoldRow, Holds, Holding, Marking, ClaimPending, Phase
<1>6. HoldRow'
  BY DEF IInv, TypeOK, HoldRow, Holds, Holding, Marking, ClaimPending, Phase
<1>7. HoldTime'
  BY LeaseAssumption DEF IInv, TypeOK, HoldTime, Holds, Holding, Marking, Spent, Limit,
    ClaimPending, Phase
<1>8. HoldFacts'
  BY DEF IInv, TypeOK, Drainer, HoldFacts, HoldRow, LockClaim, LockRecover,
    ExclusiveLease, Holds, Holding, Marking, ClaimPending, Phase
<1>9. DownInv'
  BY DEF IInv, TypeOK, DownInv, ClaimPending, Phase
<1>10. FreshInv'
  BY DEF IInv, TypeOK, FreshInv, ClaimPending, Phase
<1>11. AcceptInv'
  BY DEF IInv, TypeOK, Drainer, AcceptInv, HoldRow, HoldFacts, LockClaim, LockRecover,
    ExclusiveLease, Holds, Holding, Marking, ClaimPending, Phase
<1>12. ExclusiveLease'
  BY DEF IInv, TypeOK, Drainer, ExclusiveLease, LockClaim, HoldRow, Holds, Holding,
    Marking, ClaimPending, Phase
<1>13. AttemptsBounded'
  BY BoundsAssumption DEF IInv, TypeOK, Drainer, AttemptsBounded, LockClaim,
    LockRecover, HoldRow, HoldFacts, FreshInv, Holds, Holding, Marking, ClaimPending,
    Phase
<1>14. (NoUnexplainedDuplicate)'
  BY DEF IInv, ClaimPending, NoUnexplainedDuplicate, Phase
<1> QED BY <1>1, <1>2, <1>3, <1>4, <1>5, <1>6, <1>7, <1>8, <1>9, <1>10, <1>11, <1>12,
  <1>13, <1>14 DEF IInv

LEMMA DeliverKeeps ==
  ASSUME IInv, NEW d \in Drainer, Deliver(d)
  PROVE  IInv'
<1>1. TypeOK'
  <2>1. CASE Phase(d, "send")
    BY <2>1, PhaseType DEF Deliver, IInv, TypeOK, Control, Holding, Return
  <2>2. CASE ~Phase(d, "send")
    BY <2>2 DEF Deliver, Return, IInv, TypeOK, Control
  <2> QED BY <2>1, <2>2
<1>2. LockIdle'
  BY DEF IInv, TypeOK, LockIdle, Deliver, Phase, Return
<1>3. LockUnique'
  <2>1. sel' = sel
    BY DEF Deliver, Return, IInv, TypeOK, LockIdle
  <2> QED BY <2>1 DEF Deliver, Phase, Return, IInv, TypeOK, LockUnique
<1>4. LockClaim'
  <2>1. sel' = sel
    BY DEF Deliver, Return, IInv, TypeOK, LockIdle
  <2> QED BY <2>1 DEF Deliver, Phase, Return, IInv, TypeOK, LockClaim
<1>5. LockRecover'
  BY LeaseAssumption DEF IInv, TypeOK, LockRecover, Deliver, Phase, Return
<1>6. HoldRow'
  BY DEF IInv, TypeOK, HoldRow, Holds, Holding, Marking, Deliver, Phase, Return
<1>7. HoldTime'
  BY LeaseAssumption DEF IInv, TypeOK, Drainer, HoldTime, HoldRow, LockClaim,
    LockRecover, ExclusiveLease, Spent, Limit, Holds, Holding, Marking, Deliver, Phase,
    Return
<1>8. HoldFacts'
  BY DEF IInv, TypeOK, HoldFacts, Deliver, Phase, Return
<1>9. DownInv'
  BY DEF IInv, TypeOK, DownInv, Deliver, Phase, Return
<1>10. AcceptInv'
  BY DEF IInv, TypeOK, AcceptInv, Deliver, Phase, Return
<1>11. ExclusiveLease'
  BY DEF IInv, TypeOK, ExclusiveLease, Holds, Holding, Marking, Deliver, Phase, Return
<1>12. (FreshInv /\ AttemptsBounded /\ NoUnexplainedDuplicate)'
  BY DEF IInv, Deliver, FreshInv, AttemptsBounded, NoUnexplainedDuplicate, Phase, Return
<1> QED BY <1>1, <1>2, <1>3, <1>4, <1>5, <1>6, <1>7, <1>8, <1>9, <1>10, <1>11, <1>12 DEF
  IInv

LEMMA SendGuardedKeeps ==
  ASSUME IInv, NEW d \in Drainer, SendGuarded(d)
  PROVE  IInv'
<1>1. TypeOK'
  <2>1. held[d] \in Id  BY HeldRow DEF SendGuarded, Holding
  <2>2. {"markSent", "markFailed", "markTerminal"} \subseteq Control
    BY DEF Control, Holding, Marking
  <2>3. pc' \in [Drainer -> Control] /\ timer' \in [Drainer -> Nat]
    BY <2>2, PhaseType DEF SendGuarded, IInv
  <2>4. accepted' \in [Id -> 0..2] /\ excused' \subseteq Id
    BY <2>1 DEF SendGuarded, IInv, TypeOK
  <2> QED BY <2>3, <2>4 DEF SendGuarded, IInv, TypeOK
<1>2. LockIdle'
  BY DEF IInv, TypeOK, LockIdle, SendGuarded, Phase
<1>3. LockClaim'
  <2>1. \A e \in Drainer : pc'[e] = "claimTx" => pc[e] = "claimTx"
    BY DEF SendGuarded, Phase, IInv, TypeOK
  <2> QED BY <2>1 DEF SendGuarded, IInv, LockClaim
<1>4. LockRecover'
  BY LeaseAssumption DEF IInv, TypeOK, LockRecover, SendGuarded, Phase
<1>5. HoldRow'
  BY DEF IInv, TypeOK, HoldRow, Holds, Holding, Marking, SendGuarded, Phase
<1>6. HoldTime'
  BY LeaseAssumption DEF IInv, TypeOK, Drainer, HoldTime, HoldRow, LockClaim,
    LockRecover, ExclusiveLease, Spent, Limit, Holds, Holding, Marking, SendGuarded,
    Phase
<1>7. HoldFacts'
  BY DEF IInv, TypeOK, Drainer, HoldFacts, HoldRow, LockClaim, LockRecover,
    ExclusiveLease, Holds, Holding, Marking, SendGuarded, Phase
<1>8. DownInv'
  BY DEF IInv, TypeOK, DownInv, SendGuarded, Phase
<1>9. AcceptInv'
  BY DEF IInv, TypeOK, AcceptInv, SendGuarded, Phase
<1>10. ExclusiveLease'
  BY DEF IInv, TypeOK, ExclusiveLease, Holds, Holding, Marking, SendGuarded, Phase
<1>11. NoUnexplainedDuplicate'
  <2>1. held[d] \in Id /\ status[held[d]] = "processing"  BY HeldRow DEF SendGuarded, Holding
  <2>2. accepted[held[d]] > 0 => held[d] \in excused
    BY <2>1 DEF SendGuarded, IInv, AcceptInv, ExclusiveLease, Holds, Holding, Marking
  <2>3. accepted[held[d]] \in 0..2  BY <2>1 DEF IInv, TypeOK
  <2>4. ASSUME NEW r \in Id, accepted'[r] > 1 PROVE r \in excused'
    BY <2>1, <2>2, <2>3, <2>4 DEF SendGuarded, IInv, TypeOK, NoUnexplainedDuplicate
  <2> QED BY <2>4 DEF NoUnexplainedDuplicate
<1>12. (LockUnique /\ FreshInv /\ AttemptsBounded)'
  BY DEF IInv, SendGuarded, LockUnique, FreshInv, AttemptsBounded, Phase
<1> QED BY <1>1, <1>2, <1>3, <1>4, <1>5, <1>6, <1>7, <1>8, <1>9, <1>10, <1>11, <1>12 DEF
  IInv

LEMMA MarkSentKeeps ==
  ASSUME IInv, NEW d \in Drainer, MarkSent(d)
  PROVE  IInv'
<1>1. TypeOK'
  <2>1. pc[d] \in Holding  BY DEF MarkSent, Holding, Marking
  <2>2. held[d] \in Id  BY <2>1, HeldRow
  <2>3. status' \in [Id -> Status] /\ wait' \in [Id -> Nat] /\ age' \in [Id -> Nat]
    BY <2>2, WriteType DEF MarkSent, IInv, TypeOK, Status
  <2> QED BY <2>3, NextRowType DEF MarkSent, IInv, TypeOK
<1>2. LockIdle'
  BY DEF IInv, TypeOK, LockIdle, MarkSent, Write, NextRow, Phase, Locked, Exists
<1>3. LockClaim'
  BY DEF IInv, TypeOK, LockClaim, MarkSent, Write, NextRow, Phase, Locked, Exists
<1>4. LockRecover'
  BY LeaseAssumption DEF IInv, TypeOK, LockRecover, MarkSent, Write, NextRow, Phase,
    Locked, Exists
<1>5. HoldRow'
  BY DEF IInv, TypeOK, Drainer, HoldRow, LockClaim, LockRecover, ExclusiveLease, Holds,
    Holding, Marking, MarkSent, Write, NextRow, Phase, Locked, Exists
<1>6. HoldTime'
  BY LeaseAssumption DEF IInv, TypeOK, Drainer, HoldTime, HoldRow, LockClaim,
    LockRecover, ExclusiveLease, Spent, Limit, Holds, Holding, Marking, MarkSent, Write,
    NextRow, Phase, Locked, Exists
<1>7. HoldFacts'
  BY DEF IInv, TypeOK, HoldFacts, MarkSent, Write, NextRow, Phase, Locked, Exists
<1>8. DownInv'
  BY DEF IInv, TypeOK, DownInv, MarkSent, Write, NextRow, Phase, Locked, Exists
<1>9. FreshInv'
  BY DEF IInv, TypeOK, FreshInv, MarkSent, Write, NextRow, Phase, Locked, Exists
<1>10. AcceptInv'
  BY DEF IInv, TypeOK, Drainer, AcceptInv, HoldRow, HoldFacts, LockClaim, LockRecover,
    ExclusiveLease, Holds, Holding, Marking, MarkSent, Write, NextRow, Phase, Locked,
    Exists
<1>11. ExclusiveLease'
  BY DEF IInv, TypeOK, ExclusiveLease, Holds, Holding, Marking, MarkSent, Write,
    NextRow, Phase, Locked, Exists
<1>12. AttemptsBounded'
  BY BoundsAssumption DEF IInv, TypeOK, AttemptsBounded, MarkSent, Write, NextRow,
    Phase, Locked, Exists
<1>13. (LockUnique /\ NoUnexplainedDuplicate)'
  BY DEF IInv, MarkSent, LockUnique, NoUnexplainedDuplicate, Write, NextRow, Phase
<1> QED BY <1>1, <1>2, <1>3, <1>4, <1>5, <1>6, <1>7, <1>8, <1>9, <1>10, <1>11, <1>12,
  <1>13 DEF IInv

LEMMA MarkFailedReadKeeps ==
  ASSUME IInv, NEW d \in Drainer, MarkFailedRead(d)
  PROVE  IInv'
<1>1. TypeOK'
  <2>1. CASE NextRow(d)
    BY <2>1, NextRowType DEF MarkFailedRead, IInv, TypeOK
  <2>2. CASE ~NextRow(d)
    <3>1. pc[d] \in Holding  BY DEF MarkFailedRead, Holding, Marking
    <3>2. held[d] \in Id  BY <3>1, HeldRow
    <3> QED BY <2>2, <3>2 DEF MarkFailedRead, IInv, TypeOK, Control, Holding, Marking
  <2> QED BY <2>1, <2>2
<1>2. LockIdle'
  BY DEF IInv, TypeOK, LockIdle, MarkFailedRead, NextRow, Phase, Exists
<1>3. LockClaim'
  BY DEF IInv, TypeOK, LockClaim, MarkFailedRead, NextRow, Phase, Exists
<1>4. LockRecover'
  BY LeaseAssumption DEF IInv, TypeOK, LockRecover, MarkFailedRead, NextRow, Phase,
    Exists
<1>5. HoldRow'
  BY DEF IInv, TypeOK, HoldRow, Holds, Holding, Marking, MarkFailedRead, NextRow, Phase,
    Exists
<1>6. HoldTime'
  BY LeaseAssumption DEF IInv, TypeOK, HoldTime, Holds, Holding, Marking, Spent, Limit,
    MarkFailedRead, NextRow, Phase, Exists
<1>7. HoldFacts'
  BY DEF IInv, TypeOK, HoldFacts, MarkFailedRead, NextRow, Phase, Exists
<1>8. DownInv'
  BY DEF IInv, TypeOK, DownInv, MarkFailedRead, NextRow, Phase, Exists
<1>9. AcceptInv'
  BY DEF IInv, TypeOK, AcceptInv, MarkFailedRead, NextRow, Phase, Exists
<1>10. ExclusiveLease'
  BY DEF IInv, TypeOK, ExclusiveLease, Holds, Holding, Marking, MarkFailedRead, NextRow,
    Phase, Exists
<1>11. (LockUnique /\ FreshInv /\ AttemptsBounded /\ NoUnexplainedDuplicate)'
  BY DEF IInv, MarkFailedRead, LockUnique, FreshInv, AttemptsBounded,
    NoUnexplainedDuplicate, NextRow, Phase
<1> QED BY <1>1, <1>2, <1>3, <1>4, <1>5, <1>6, <1>7, <1>8, <1>9, <1>10, <1>11 DEF IInv

LEMMA MarkFailedKeeps ==
  ASSUME IInv, NEW d \in Drainer, MarkFailed(d)
  PROVE  IInv'
<1>1. TypeOK'
  <2>1. pc[d] \in Holding  BY DEF MarkFailed, Holding, Marking
  <2>2. held[d] \in Id  BY <2>1, HeldRow
  <2>3. \A n \in Nat : n < MaxAttempts => n \in 0..MaxAttempts  BY BoundsAssumption
  <2>4. seen[d] < MaxAttempts => BackoffDelay[seen[d]] \subseteq Nat
    BY <2>3, BackoffAssumption DEF IInv, TypeOK
  <2>5. status' \in [Id -> Status] /\ wait' \in [Id -> Nat] /\ age' \in [Id -> Nat]
    BY <2>2, <2>4, WriteType DEF MarkFailed, IInv, TypeOK, Status
  <2> QED BY <2>5, NextRowType DEF MarkFailed, IInv, TypeOK
<1>2. LockIdle'
  BY DEF IInv, TypeOK, LockIdle, MarkFailed, Write, NextRow, Phase, Locked, Exists
<1>3. LockClaim'
  BY DEF IInv, TypeOK, LockClaim, MarkFailed, Write, NextRow, Phase, Locked, Exists
<1>4. LockRecover'
  BY LeaseAssumption DEF IInv, TypeOK, LockRecover, MarkFailed, Write, NextRow, Phase,
    Locked, Exists
<1>5. HoldRow'
  BY DEF IInv, TypeOK, Drainer, HoldRow, LockClaim, LockRecover, ExclusiveLease, Holds,
    Holding, Marking, MarkFailed, Write, NextRow, Phase, Locked, Exists
<1>6. HoldTime'
  BY LeaseAssumption DEF IInv, TypeOK, Drainer, HoldTime, HoldRow, LockClaim,
    LockRecover, ExclusiveLease, Spent, Limit, Holds, Holding, Marking, MarkFailed,
    Write, NextRow, Phase, Locked, Exists
<1>7. HoldFacts'
  BY DEF IInv, TypeOK, HoldFacts, MarkFailed, Write, NextRow, Phase, Locked, Exists
<1>8. DownInv'
  BY DEF IInv, TypeOK, DownInv, MarkFailed, Write, NextRow, Phase, Locked, Exists
<1>9. FreshInv'
  BY DEF IInv, TypeOK, FreshInv, MarkFailed, Write, NextRow, Phase, Locked, Exists
<1>10. AcceptInv'
  BY DEF IInv, TypeOK, Drainer, AcceptInv, HoldRow, HoldFacts, LockClaim, LockRecover,
    ExclusiveLease, Holds, Holding, Marking, MarkFailed, Write, NextRow, Phase, Locked,
    Exists
<1>11. ExclusiveLease'
  BY DEF IInv, TypeOK, ExclusiveLease, Holds, Holding, Marking, MarkFailed, Write,
    NextRow, Phase, Locked, Exists
<1>12. AttemptsBounded'
  BY BoundsAssumption DEF IInv, TypeOK, Drainer, AttemptsBounded, LockClaim,
    LockRecover, HoldRow, HoldFacts, FreshInv, Holds, Holding, Marking, MarkFailed,
    Write, NextRow, Phase, Locked, Exists
<1>13. (LockUnique /\ NoUnexplainedDuplicate)'
  BY DEF IInv, MarkFailed, LockUnique, NoUnexplainedDuplicate, Write, NextRow, Phase
<1> QED BY <1>1, <1>2, <1>3, <1>4, <1>5, <1>6, <1>7, <1>8, <1>9, <1>10, <1>11, <1>12,
  <1>13 DEF IInv

LEMMA MarkFailedTerminalKeeps ==
  ASSUME IInv, NEW d \in Drainer, MarkFailedTerminal(d)
  PROVE  IInv'
<1>1. TypeOK'
  <2>1. pc[d] \in Holding  BY DEF MarkFailedTerminal, Holding, Marking
  <2>2. held[d] \in Id  BY <2>1, HeldRow
  <2>3. status' \in [Id -> Status] /\ wait' \in [Id -> Nat] /\ age' \in [Id -> Nat]
    BY <2>2, WriteType DEF MarkFailedTerminal, IInv, TypeOK, Status
  <2> QED BY <2>3, NextRowType DEF MarkFailedTerminal, IInv, TypeOK
<1>2. LockIdle'
  BY DEF IInv, TypeOK, LockIdle, MarkFailedTerminal, Write, NextRow, Phase, Locked,
    Exists
<1>3. LockClaim'
  BY DEF IInv, TypeOK, LockClaim, MarkFailedTerminal, Write, NextRow, Phase, Locked,
    Exists
<1>4. LockRecover'
  BY LeaseAssumption DEF IInv, TypeOK, LockRecover, MarkFailedTerminal, Write, NextRow,
    Phase, Locked, Exists
<1>5. HoldRow'
  BY DEF IInv, TypeOK, Drainer, HoldRow, LockClaim, LockRecover, ExclusiveLease, Holds,
    Holding, Marking, MarkFailedTerminal, Write, NextRow, Phase, Locked, Exists
<1>6. HoldTime'
  BY LeaseAssumption DEF IInv, TypeOK, Drainer, HoldTime, HoldRow, LockClaim,
    LockRecover, ExclusiveLease, Spent, Limit, Holds, Holding, Marking,
    MarkFailedTerminal, Write, NextRow, Phase, Locked, Exists
<1>7. HoldFacts'
  BY DEF IInv, TypeOK, HoldFacts, MarkFailedTerminal, Write, NextRow, Phase, Locked,
    Exists
<1>8. DownInv'
  BY DEF IInv, TypeOK, DownInv, MarkFailedTerminal, Write, NextRow, Phase, Locked,
    Exists
<1>9. FreshInv'
  BY DEF IInv, TypeOK, FreshInv, MarkFailedTerminal, Write, NextRow, Phase, Locked,
    Exists
<1>10. AcceptInv'
  BY DEF IInv, TypeOK, Drainer, AcceptInv, HoldRow, HoldFacts, LockClaim, LockRecover,
    ExclusiveLease, Holds, Holding, Marking, MarkFailedTerminal, Write, NextRow, Phase,
    Locked, Exists
<1>11. ExclusiveLease'
  BY DEF IInv, TypeOK, ExclusiveLease, Holds, Holding, Marking, MarkFailedTerminal,
    Write, NextRow, Phase, Locked, Exists
<1>12. AttemptsBounded'
  BY BoundsAssumption DEF IInv, TypeOK, AttemptsBounded, MarkFailedTerminal, Write,
    NextRow, Phase, Locked, Exists
<1>13. (LockUnique /\ NoUnexplainedDuplicate)'
  BY DEF IInv, MarkFailedTerminal, LockUnique, NoUnexplainedDuplicate, Write, NextRow,
    Phase
<1> QED BY <1>1, <1>2, <1>3, <1>4, <1>5, <1>6, <1>7, <1>8, <1>9, <1>10, <1>11, <1>12,
  <1>13 DEF IInv

LEMMA MarkErrorKeeps ==
  ASSUME IInv, NEW d \in Drainer, MarkError(d)
  PROVE  IInv'
<1>1. TypeOK'
  <2>1. held[d] \in Id  BY HeldRow DEF MarkError, Holding
  <2>2. faults' \in 0..MaxFaults  BY BoundsAssumption DEF MarkError, Fault, IInv, TypeOK
  <2> QED BY <2>1, <2>2, NextRowType DEF MarkError, IInv, TypeOK
<1>2. LockIdle'
  BY DEF IInv, TypeOK, Drainer, LockIdle, Holds, Holding, Marking, MarkError, NextRow,
    Phase, Fault
<1>3. LockClaim'
  BY DEF IInv, TypeOK, LockClaim, MarkError, NextRow, Phase, Fault
<1>4. LockRecover'
  BY LeaseAssumption DEF IInv, TypeOK, LockRecover, MarkError, NextRow, Phase, Fault
<1>5. HoldRow'
  BY DEF IInv, TypeOK, HoldRow, Holds, Holding, Marking, MarkError, NextRow, Phase,
    Fault
<1>6. HoldTime'
  BY LeaseAssumption DEF IInv, TypeOK, HoldTime, Holds, Holding, Marking, Spent, Limit,
    MarkError, NextRow, Phase, Fault
<1>7. HoldFacts'
  BY DEF IInv, TypeOK, HoldFacts, MarkError, NextRow, Phase, Fault
<1>8. DownInv'
  BY DEF IInv, TypeOK, Drainer, DownInv, Holds, Holding, Marking, MarkError, NextRow,
    Phase, Fault
<1>9. AcceptInv'
  BY DEF IInv, TypeOK, AcceptInv, MarkError, NextRow, Phase, Fault
<1>10. ExclusiveLease'
  BY DEF IInv, TypeOK, ExclusiveLease, Holds, Holding, Marking, MarkError, NextRow,
    Phase, Fault
<1>11. NoUnexplainedDuplicate'
  BY DEF IInv, TypeOK, NoUnexplainedDuplicate, MarkError, NextRow, Phase, Fault
<1>12. (LockUnique /\ FreshInv /\ AttemptsBounded)'
  BY DEF IInv, MarkError, LockUnique, FreshInv, AttemptsBounded, NextRow, Phase
<1> QED BY <1>1, <1>2, <1>3, <1>4, <1>5, <1>6, <1>7, <1>8, <1>9, <1>10, <1>11, <1>12 DEF
  IInv

LEMMA DrainErrorKeeps ==
  ASSUME IInv, NEW d \in Drainer, DrainError(d)
  PROVE  IInv'
<1>1. TypeOK'
  BY BoundsAssumption DEF IInv, TypeOK, Control, Holding, Marking, Status, DrainError,
    Return, Fault
<1>2. LockIdle'
  BY DEF IInv, TypeOK, LockIdle, DrainError, Return, Fault
<1>3. LockUnique'
  BY DEF IInv, TypeOK, LockUnique, DrainError, Return, Fault
<1>4. LockClaim'
  BY DEF IInv, TypeOK, LockClaim, DrainError, Return, Fault
<1>5. LockRecover'
  BY LeaseAssumption DEF IInv, TypeOK, LockRecover, DrainError, Return, Fault
<1>6. HoldRow'
  BY DEF IInv, TypeOK, HoldRow, Holds, Holding, Marking, DrainError, Return, Fault
<1>7. HoldTime'
  BY LeaseAssumption DEF IInv, TypeOK, HoldTime, Holds, Holding, Marking, Spent, Limit,
    DrainError, Return, Fault
<1>8. HoldFacts'
  BY DEF IInv, TypeOK, HoldFacts, DrainError, Return, Fault
<1>9. DownInv'
  BY DEF IInv, TypeOK, DownInv, DrainError, Return, Fault
<1>10. AcceptInv'
  BY DEF IInv, TypeOK, AcceptInv, DrainError, Return, Fault
<1>11. ExclusiveLease'
  BY DEF IInv, TypeOK, ExclusiveLease, Holds, Holding, Marking, DrainError, Return,
    Fault
<1>12. (FreshInv /\ AttemptsBounded /\ NoUnexplainedDuplicate)'
  BY DEF IInv, DrainError, FreshInv, AttemptsBounded, NoUnexplainedDuplicate, Return
<1> QED BY <1>1, <1>2, <1>3, <1>4, <1>5, <1>6, <1>7, <1>8, <1>9, <1>10, <1>11, <1>12 DEF
  IInv

LEMMA EnqueueKeeps ==
  ASSUME IInv, NEW p \in Pod, Enqueue(p)
  PROVE  IInv'
<1>1. TypeOK'
  BY BoundsAssumption DEF IInv, TypeOK, Control, Holding, Marking, Status, Enqueue,
    Drainer
<1>2. LockClaim'
  BY DEF IInv, TypeOK, LockClaim, Enqueue, Drainer
<1>3. LockRecover'
  BY LeaseAssumption DEF IInv, TypeOK, LockRecover, Enqueue, Drainer
<1>4. HoldRow'
  BY DEF IInv, TypeOK, HoldRow, Holds, Holding, Marking, Enqueue, Drainer
<1>5. FreshInv'
  BY DEF IInv, TypeOK, FreshInv, Enqueue, Drainer
<1>6. AcceptInv'
  BY DEF IInv, TypeOK, AcceptInv, Enqueue, Drainer
<1>7. AttemptsBounded'
  BY BoundsAssumption DEF IInv, TypeOK, Drainer, AttemptsBounded, LockClaim,
    LockRecover, HoldRow, HoldFacts, FreshInv, Holds, Holding, Marking, Enqueue
<1>8. (LockIdle /\ LockUnique /\ HoldTime /\ HoldFacts /\ DownInv /\ ExclusiveLease /\
  NoUnexplainedDuplicate)'
  BY DEF IInv, Enqueue, LockIdle, LockUnique, HoldTime, HoldFacts, DownInv,
    ExclusiveLease, NoUnexplainedDuplicate, Holds, Holding, Marking, Spent, Limit
<1> QED BY <1>1, <1>2, <1>3, <1>4, <1>5, <1>6, <1>7, <1>8 DEF IInv

LEMMA NotifyKeeps ==
  ASSUME IInv, NEW p \in Pod, Notify(p)
  PROVE  IInv'
<1>1. TypeOK'
  BY BoundsAssumption DEF IInv, TypeOK, Control, Holding, Marking, Status, Notify,
    Drainer
<1>2. (LockIdle /\ LockUnique /\ LockClaim /\ LockRecover /\ HoldRow /\ HoldTime /\
  HoldFacts /\ DownInv /\ FreshInv /\ AcceptInv /\ ExclusiveLease /\ AttemptsBounded /\
  NoUnexplainedDuplicate)'
  BY DEF IInv, Notify, LockIdle, LockUnique, LockClaim, LockRecover, HoldRow, HoldTime,
    HoldFacts, DownInv, FreshInv, AcceptInv, ExclusiveLease, AttemptsBounded,
    NoUnexplainedDuplicate, Holds, Holding, Marking, Spent, Limit
<1> QED BY <1>1, <1>2 DEF IInv

LEMMA WakeWorkerKeeps ==
  ASSUME IInv, NEW p \in Pod, WakeWorker(p)
  PROVE  IInv'
<1>1. TypeOK'
  BY BoundsAssumption DEF IInv, TypeOK, Control, Holding, Marking, Status, WakeWorker,
    Drainer
<1>2. LockIdle'
  BY DEF IInv, TypeOK, LockIdle, WakeWorker, Drainer
<1>3. LockClaim'
  BY DEF IInv, TypeOK, LockClaim, WakeWorker, Drainer
<1>4. LockRecover'
  BY LeaseAssumption DEF IInv, TypeOK, LockRecover, WakeWorker, Drainer
<1>5. HoldRow'
  BY DEF IInv, TypeOK, HoldRow, Holds, Holding, Marking, WakeWorker, Drainer
<1>6. HoldTime'
  BY LeaseAssumption DEF IInv, TypeOK, HoldTime, Holds, Holding, Marking, Spent, Limit,
    WakeWorker, Drainer
<1>7. HoldFacts'
  BY DEF IInv, TypeOK, HoldFacts, WakeWorker, Drainer
<1>8. DownInv'
  BY DEF IInv, TypeOK, DownInv, WakeWorker, Drainer
<1>9. AcceptInv'
  <2>1. pc[<<p, "run">>] = "idle"  BY DEF WakeWorker, IInv, DownInv, Drainer
  <2>2. \A d \in Drainer : pc[d] = "markSent" => pc'[d] = "markSent"
    BY <2>1 DEF WakeWorker, IInv, TypeOK
  <2> QED BY <2>2 DEF WakeWorker, IInv, AcceptInv
<1>10. ExclusiveLease'
  BY DEF IInv, TypeOK, ExclusiveLease, Holds, Holding, Marking, WakeWorker, Drainer
<1>11. (LockUnique /\ FreshInv /\ AttemptsBounded /\ NoUnexplainedDuplicate)'
  BY DEF IInv, WakeWorker, LockUnique, FreshInv, AttemptsBounded, NoUnexplainedDuplicate
<1> QED BY <1>1, <1>2, <1>3, <1>4, <1>5, <1>6, <1>7, <1>8, <1>9, <1>10, <1>11 DEF IInv

LEMMA StartSweepKeeps ==
  ASSUME IInv, NEW p \in Pod, StartSweep(p)
  PROVE  IInv'
<1>1. TypeOK'
  BY BoundsAssumption DEF IInv, TypeOK, Control, Holding, Marking, Status, StartSweep,
    Drainer
<1>2. LockIdle'
  BY DEF IInv, TypeOK, LockIdle, StartSweep, Drainer
<1>3. LockClaim'
  BY DEF IInv, TypeOK, LockClaim, StartSweep, Drainer
<1>4. LockRecover'
  BY LeaseAssumption DEF IInv, TypeOK, LockRecover, StartSweep, Drainer
<1>5. HoldRow'
  BY DEF IInv, TypeOK, HoldRow, Holds, Holding, Marking, StartSweep, Drainer
<1>6. HoldTime'
  BY LeaseAssumption DEF IInv, TypeOK, HoldTime, Holds, Holding, Marking, Spent, Limit,
    StartSweep, Drainer
<1>7. HoldFacts'
  BY DEF IInv, TypeOK, HoldFacts, StartSweep, Drainer
<1>8. DownInv'
  BY DEF IInv, TypeOK, DownInv, StartSweep, Drainer
<1>9. AcceptInv'
  <2>1. pc[<<p, "sweep">>] = "idle"  BY DEF StartSweep, IInv, DownInv, Drainer
  <2>2. \A d \in Drainer : pc[d] = "markSent" => pc'[d] = "markSent"
    BY <2>1 DEF StartSweep, IInv, TypeOK
  <2> QED BY <2>2 DEF StartSweep, IInv, AcceptInv
<1>10. ExclusiveLease'
  BY DEF IInv, TypeOK, ExclusiveLease, Holds, Holding, Marking, StartSweep, Drainer
<1>11. (LockUnique /\ FreshInv /\ AttemptsBounded /\ NoUnexplainedDuplicate)'
  BY DEF IInv, StartSweep, LockUnique, FreshInv, AttemptsBounded, NoUnexplainedDuplicate
<1> QED BY <1>1, <1>2, <1>3, <1>4, <1>5, <1>6, <1>7, <1>8, <1>9, <1>10, <1>11 DEF IInv

LEMMA LoseSweepLockKeeps ==
  ASSUME IInv, NEW p \in Pod, LoseSweepLock(p)
  PROVE  IInv'
<1>1. TypeOK'
  BY BoundsAssumption DEF IInv, TypeOK, Control, Holding, Marking, Status,
    LoseSweepLock, Fault, Drainer
<1>2. (LockIdle /\ LockUnique /\ LockClaim /\ LockRecover /\ HoldRow /\ HoldTime /\
  HoldFacts /\ DownInv /\ FreshInv /\ AcceptInv /\ ExclusiveLease /\ AttemptsBounded /\
  NoUnexplainedDuplicate)'
  BY DEF IInv, LoseSweepLock, LockIdle, LockUnique, LockClaim, LockRecover, HoldRow,
    HoldTime, HoldFacts, DownInv, FreshInv, AcceptInv, ExclusiveLease, AttemptsBounded,
    NoUnexplainedDuplicate, Holds, Holding, Marking, Spent, Limit
<1> QED BY <1>1, <1>2 DEF IInv

LEMMA StopKeeps ==
  ASSUME IInv, NEW p \in Pod, Stop(p)
  PROVE  IInv'
<1>1. TypeOK'
  BY BoundsAssumption DEF IInv, TypeOK, Control, Holding, Marking, Status, Stop, Fault,
    Drainer
<1>2. DownInv'
  BY DEF IInv, TypeOK, DownInv, Stop, Fault, Drainer
<1>3. (LockIdle /\ LockUnique /\ LockClaim /\ LockRecover /\ HoldRow /\ HoldTime /\
  HoldFacts /\ FreshInv /\ AcceptInv /\ ExclusiveLease /\ AttemptsBounded /\
  NoUnexplainedDuplicate)'
  BY DEF IInv, Stop, LockIdle, LockUnique, LockClaim, LockRecover, HoldRow, HoldTime,
    HoldFacts, FreshInv, AcceptInv, ExclusiveLease, AttemptsBounded,
    NoUnexplainedDuplicate, Holds, Holding, Marking, Spent, Limit
<1> QED BY <1>1, <1>2, <1>3 DEF IInv

LEMMA ExitKeeps ==
  ASSUME IInv, NEW p \in Pod, Exit(p)
  PROVE  IInv'
<1>1. TypeOK'
  BY BoundsAssumption DEF IInv, TypeOK, Control, Holding, Marking, Status, Exit, Fault,
    Drainer
<1>2. LockIdle'
  BY DEF IInv, TypeOK, LockIdle, Exit, Fault, Drainer
<1>3. LockUnique'
  BY DEF IInv, TypeOK, LockUnique, Exit, Fault, Drainer
<1>4. LockClaim'
  BY DEF IInv, TypeOK, LockClaim, Exit, Fault, Drainer
<1>5. LockRecover'
  BY LeaseAssumption DEF IInv, TypeOK, LockRecover, Exit, Fault, Drainer
<1>6. HoldRow'
  BY DEF IInv, TypeOK, HoldRow, Holds, Holding, Marking, Exit, Fault, Drainer
<1>7. HoldTime'
  BY LeaseAssumption DEF IInv, TypeOK, HoldTime, Holds, Holding, Marking, Spent, Limit,
    Exit, Fault, Drainer
<1>8. HoldFacts'
  BY DEF IInv, TypeOK, HoldFacts, Exit, Fault, Drainer
<1>9. DownInv'
  BY DEF IInv, TypeOK, DownInv, Exit, Fault, Drainer
<1>10. AcceptInv'
  <2>1. ASSUME NEW r \in Id, accepted'[r] > 0, r \notin excused', status'[r] \notin {"sent", "deleted"}
        PROVE  \E d \in Drainer : pc'[d] = "markSent" /\ held'[d] = r
    <3>1. accepted[r] > 0 /\ r \notin excused /\ status[r] \notin {"sent", "deleted"}
      BY <2>1 DEF Exit
    <3>2. PICK d \in Drainer : pc[d] = "markSent" /\ held[d] = r  BY <3>1 DEF IInv, AcceptInv
    <3>3. d \notin {<<p, "run">>, <<p, "sweep">>}  BY <2>1, <3>2 DEF Exit
    <3>4. pc'[d] = "markSent" /\ held'[d] = r  BY <3>2, <3>3 DEF Exit
    <3> QED BY <3>4
  <2> QED BY <2>1 DEF AcceptInv
<1>11. ExclusiveLease'
  BY DEF IInv, TypeOK, ExclusiveLease, Holds, Holding, Marking, Exit, Fault, Drainer
<1>12. NoUnexplainedDuplicate'
  BY DEF IInv, TypeOK, NoUnexplainedDuplicate, Exit, Fault, Drainer
<1>13. (FreshInv /\ AttemptsBounded)'
  BY DEF IInv, Exit, FreshInv, AttemptsBounded
<1> QED BY <1>1, <1>2, <1>3, <1>4, <1>5, <1>6, <1>7, <1>8, <1>9, <1>10, <1>11, <1>12,
  <1>13 DEF IInv

LEMMA RestartKeeps ==
  ASSUME IInv, NEW p \in Pod, Restart(p)
  PROVE  IInv'
<1>1. TypeOK'
  BY BoundsAssumption DEF IInv, TypeOK, Control, Holding, Marking, Status, Restart,
    Drainer
<1>2. LockIdle'
  <2>1. pc[<<p, "run">>] = "idle"  BY DEF Restart, IInv, DownInv, Drainer
  <2> QED BY <2>1 DEF Restart, IInv, TypeOK, LockIdle
<1>3. LockClaim'
  BY DEF IInv, TypeOK, LockClaim, Restart, Drainer
<1>4. LockRecover'
  BY LeaseAssumption DEF IInv, TypeOK, LockRecover, Restart, Drainer
<1>5. HoldRow'
  BY DEF IInv, TypeOK, HoldRow, Holds, Holding, Marking, Restart, Drainer
<1>6. HoldTime'
  BY LeaseAssumption DEF IInv, TypeOK, HoldTime, Holds, Holding, Marking, Spent, Limit,
    Restart, Drainer
<1>7. HoldFacts'
  BY DEF IInv, TypeOK, HoldFacts, Restart, Drainer
<1>8. DownInv'
  BY DEF IInv, TypeOK, DownInv, Restart, Drainer
<1>9. AcceptInv'
  <2>1. pc[<<p, "run">>] = "idle"  BY DEF Restart, IInv, DownInv, Drainer
  <2>2. \A d \in Drainer : pc[d] = "markSent" => pc'[d] = "markSent"
    BY <2>1 DEF Restart, IInv, TypeOK
  <2> QED BY <2>2 DEF Restart, IInv, AcceptInv
<1>10. ExclusiveLease'
  BY DEF IInv, TypeOK, ExclusiveLease, Holds, Holding, Marking, Restart, Drainer
<1>11. (LockUnique /\ FreshInv /\ AttemptsBounded /\ NoUnexplainedDuplicate)'
  BY DEF IInv, Restart, LockUnique, FreshInv, AttemptsBounded, NoUnexplainedDuplicate
<1> QED BY <1>1, <1>2, <1>3, <1>4, <1>5, <1>6, <1>7, <1>8, <1>9, <1>10, <1>11 DEF IInv

LEMMA RedriveFailedKeeps ==
  ASSUME IInv, NEW p \in Pod, NEW S \in SUBSET Id, RedriveFailed(p, S)
  PROVE  IInv'
<1>1. TypeOK'
  BY BoundsAssumption DEF IInv, TypeOK, Control, Holding, Marking, Status, RedriveFailed
<1>2. LockClaim'
  BY DEF IInv, TypeOK, LockClaim, RedriveFailed
<1>3. LockRecover'
  BY LeaseAssumption DEF IInv, TypeOK, LockRecover, RedriveFailed
<1>4. HoldRow'
  BY DEF IInv, TypeOK, HoldRow, Holds, Holding, Marking, RedriveFailed
<1>5. HoldFacts'
  BY DEF IInv, TypeOK, Drainer, HoldFacts, HoldRow, LockClaim, LockRecover,
    ExclusiveLease, Holds, Holding, Marking, RedriveFailed
<1>6. FreshInv'
  BY DEF IInv, TypeOK, FreshInv, RedriveFailed
<1>7. AcceptInv'
  BY DEF IInv, TypeOK, AcceptInv, RedriveFailed
<1>8. AttemptsBounded'
  BY BoundsAssumption DEF IInv, TypeOK, AttemptsBounded, RedriveFailed
<1>9. (LockIdle /\ LockUnique /\ HoldTime /\ DownInv /\ ExclusiveLease /\
  NoUnexplainedDuplicate)'
  BY DEF IInv, RedriveFailed, LockIdle, LockUnique, HoldTime, DownInv, ExclusiveLease,
    NoUnexplainedDuplicate, Holds, Holding, Marking, Spent, Limit
<1> QED BY <1>1, <1>2, <1>3, <1>4, <1>5, <1>6, <1>7, <1>8, <1>9 DEF IInv

LEMMA DeleteSentBeforeKeeps ==
  ASSUME IInv, DeleteSentBefore
  PROVE  IInv'
<1>1. TypeOK'
  BY BoundsAssumption DEF IInv, TypeOK, Control, Holding, Marking, Status,
    DeleteSentBefore, FirstRows
<1>2. LockClaim'
  BY DEF IInv, TypeOK, LockClaim, DeleteSentBefore, FirstRows
<1>3. LockRecover'
  BY LeaseAssumption DEF IInv, TypeOK, LockRecover, DeleteSentBefore, FirstRows
<1>4. HoldRow'
  BY DEF IInv, TypeOK, HoldRow, Holds, Holding, Marking, DeleteSentBefore, FirstRows
<1>5. HoldTime'
  BY LeaseAssumption DEF IInv, TypeOK, Drainer, HoldTime, HoldRow, LockClaim,
    LockRecover, ExclusiveLease, Spent, Limit, Holds, Holding, Marking,
    DeleteSentBefore, FirstRows
<1>6. FreshInv'
  BY DEF IInv, TypeOK, FreshInv, DeleteSentBefore, FirstRows
<1>7. AcceptInv'
  BY DEF IInv, TypeOK, AcceptInv, DeleteSentBefore, FirstRows
<1>8. AttemptsBounded'
  BY BoundsAssumption DEF IInv, TypeOK, AttemptsBounded, DeleteSentBefore, FirstRows
<1>9. (LockIdle /\ LockUnique /\ HoldFacts /\ DownInv /\ ExclusiveLease /\
  NoUnexplainedDuplicate)'
  BY DEF IInv, DeleteSentBefore, LockIdle, LockUnique, HoldFacts, DownInv,
    ExclusiveLease, NoUnexplainedDuplicate, Holds, Holding, Marking
<1> QED BY <1>1, <1>2, <1>3, <1>4, <1>5, <1>6, <1>7, <1>8, <1>9 DEF IInv

LEMMA TickKeeps ==
  ASSUME IInv, Tick
  PROVE  IInv'
<1>1. TypeOK'
  BY BoundsAssumption DEF IInv, TypeOK, Control, Holding, Marking, Status, Tick, Horizon
<1>2. LockRecover'
  BY LeaseAssumption DEF IInv, TypeOK, LockRecover, Tick, Horizon
<1>3. HoldTime'
  BY LeaseAssumption DEF IInv, TypeOK, Drainer, HoldTime, HoldRow, LockClaim,
    LockRecover, ExclusiveLease, Spent, Limit, Holds, Holding, Marking, Tick, Horizon
<1>4. (LockIdle /\ LockUnique /\ LockClaim /\ HoldRow /\ HoldFacts /\ DownInv /\
  FreshInv /\ AcceptInv /\ ExclusiveLease /\ AttemptsBounded /\ NoUnexplainedDuplicate)'
  BY DEF IInv, Tick, LockIdle, LockUnique, LockClaim, HoldRow, HoldFacts, DownInv,
    FreshInv, AcceptInv, ExclusiveLease, AttemptsBounded, NoUnexplainedDuplicate, Holds,
    Holding, Marking
<1> QED BY <1>1, <1>2, <1>3, <1>4 DEF IInv

-----------------------------------------------------------------------------

LEMMA InitIInv == Init => IInv
<1> SUFFICES ASSUME Init PROVE IInv  OBVIOUS
<1>1. TypeOK  BY BoundsAssumption DEF Init, TypeOK, Control, Status, Drainer
<1>2. \A d \in Drainer : pc[d] \notin Holding \cup {"recoverTx", "claimTx"} /\ sel[d] = {}
  BY DEF Init, Holding, Marking
<1>3. LockIdle /\ LockUnique /\ LockClaim /\ LockRecover
  BY <1>2 DEF LockIdle, LockUnique, LockClaim, LockRecover
<1>4. HoldRow /\ HoldTime /\ HoldFacts /\ ExclusiveLease
  BY <1>2 DEF HoldRow, HoldTime, HoldFacts, ExclusiveLease, Holds, Holding, Marking
<1>5. DownInv  BY DEF Init, DownInv, Drainer
<1>6. FreshInv /\ AcceptInv /\ AttemptsBounded /\ NoUnexplainedDuplicate
  BY BoundsAssumption DEF Init, FreshInv, AcceptInv, AttemptsBounded, NoUnexplainedDuplicate
<1> QED BY <1>1, <1>3, <1>4, <1>5, <1>6 DEF IInv

LEMMA StutterKeeps == IInv /\ UNCHANGED vars => IInv'
<1> SUFFICES ASSUME IInv, UNCHANGED vars PROVE IInv'  OBVIOUS
<1>1. TypeOK'  BY DEF IInv, TypeOK
<1>2. (LockIdle /\ LockUnique /\ LockClaim /\ LockRecover)'
  BY DEF IInv, LockIdle, LockUnique, LockClaim, LockRecover
<1>3. (HoldRow /\ HoldTime /\ HoldFacts /\ DownInv)'
  BY DEF IInv, HoldRow, HoldTime, HoldFacts, DownInv, Holds
<1>4. (FreshInv /\ AcceptInv /\ ExclusiveLease /\ AttemptsBounded /\ NoUnexplainedDuplicate)'
  BY DEF IInv, FreshInv, AcceptInv, ExclusiveLease, AttemptsBounded, NoUnexplainedDuplicate, Holds
<1> QED BY <1>1, <1>2, <1>3, <1>4 DEF IInv

LEMMA NextKeeps == IInv /\ [Next]_vars => IInv'
<1> SUFFICES ASSUME IInv, [Next]_vars PROVE IInv'  OBVIOUS
<1>1. CASE UNCHANGED vars  BY <1>1, StutterKeeps
<1>2. ASSUME NEW d \in Drainer, Step(d) \/ MarkError(d) \/ DrainError(d) PROVE IInv'
  BY <1>2, RecoverSelectKeeps, RecoverStaleProcessingKeeps, ClaimSelectKeeps, DrainedKeeps,
     ClaimPendingKeeps, DeliverKeeps, SendGuardedKeeps, MarkSentKeeps, MarkFailedReadKeeps,
     MarkFailedKeeps, MarkFailedTerminalKeeps, MarkErrorKeeps, DrainErrorKeeps DEF Step
<1>3. ASSUME NEW p \in Pod,
             \/ Enqueue(p) \/ Notify(p) \/ WakeWorker(p) \/ StartSweep(p)
             \/ LoseSweepLock(p) \/ Stop(p) \/ Exit(p) \/ Restart(p)
             \/ \E S \in SUBSET Id : RedriveFailed(p, S)
      PROVE  IInv'
  BY <1>3, EnqueueKeeps, NotifyKeeps, WakeWorkerKeeps, StartSweepKeeps, LoseSweepLockKeeps,
     StopKeeps, ExitKeeps, RestartKeeps, RedriveFailedKeeps
<1>4. CASE DeleteSentBefore  BY <1>4, DeleteSentBeforeKeeps
<1>5. CASE Tick  BY <1>5, TickKeeps
<1> QED BY <1>1, <1>2, <1>3, <1>4, <1>5 DEF Next

(* The inductive invariant holds in every reachable state. *)
THEOREM InvariantHolds == Spec => []IInv
BY InitIInv, NextKeeps, PTL DEF Spec

(* Every variable keeps its type (the columns of notification_outbox, the    *)
(* control state of a drain, the pod's channel and locks).                   *)
THEOREM TypeCorrect == Spec => []TypeOK
<1>1. IInv => TypeOK  BY DEF IInv
<1> QED BY <1>1, InvariantHolds, PTL

(* Two drains never work on the same row, for any number of pods: this is    *)
(* what the unguarded MarkSent and MarkFailed of notification.go rely on.    *)
THEOREM LeaseIsExclusive == Spec => []ExclusiveLease
<1>1. IInv => ExclusiveLease  BY DEF IInv
<1> QED BY <1>1, InvariantHolds, PTL

(* No row is attempted more than MaxAttempts times between two redrives.     *)
THEOREM AttemptsStayBounded == Spec => []AttemptsBounded
<1>1. IInv => AttemptsBounded  BY DEF IInv
<1> QED BY <1>1, InvariantHolds, PTL

(* The relay sees a second copy only when the first acceptance was never     *)
(* learnt of.                                                                *)
THEOREM DuplicatesExplained == Spec => []NoUnexplainedDuplicate
<1>1. IInv => NoUnexplainedDuplicate  BY DEF IInv
<1> QED BY <1>1, InvariantHolds, PTL

(* No step takes a row out of "sent" except the retention task: no late mark *)
(* and no recovery resurrects a delivered row.                               *)
THEOREM SentRowsStaySent == Spec => SentIsFinal
<1> DEFINE Final == \A r \in Id : status[r] = "sent" => status'[r] \in {"sent", "deleted"}
<1>1. ASSUME IInv, [Next]_vars PROVE Final
  <2>1. ASSUME NEW d \in Drainer, MarkSent(d) \/ MarkFailed(d) \/ MarkFailedTerminal(d) PROVE Final
    <3>1. held[d] \in Id /\ status[held[d]] = "processing"
      BY <1>1, <2>1, HeldRow DEF MarkSent, MarkFailed, MarkFailedTerminal, Holding, Marking
    <3> QED BY <1>1, <2>1, <3>1 DEF MarkSent, MarkFailed, MarkFailedTerminal, Write, IInv, TypeOK
  <2>2. ASSUME NEW d \in Drainer, RecoverStaleProcessing(d) PROVE Final
    BY <1>1, <2>2 DEF RecoverStaleProcessing, IInv, TypeOK, LockRecover
  <2>3. ASSUME NEW d \in Drainer, ClaimPending(d) PROVE Final
    BY <1>1, <2>3 DEF ClaimPending, IInv, TypeOK, LockClaim
  <2>4. ASSUME NEW d \in Drainer, Step(d) \/ MarkError(d) \/ DrainError(d) PROVE Final
    BY <1>1, <2>1, <2>2, <2>3, <2>4
       DEF Step, RecoverSelect, ClaimSelect, Drained, Deliver, SendGuarded, MarkFailedRead,
           MarkError, DrainError
  <2>5. ASSUME NEW p \in Pod,
               \/ Enqueue(p) \/ Notify(p) \/ WakeWorker(p) \/ StartSweep(p)
               \/ LoseSweepLock(p) \/ Stop(p) \/ Exit(p) \/ Restart(p)
               \/ \E S \in SUBSET Id : RedriveFailed(p, S)
        PROVE  Final
    BY <1>1, <2>5 DEF Enqueue, Notify, WakeWorker, StartSweep, LoseSweepLock, Stop, Exit, Restart,
                      RedriveFailed, IInv, TypeOK
  <2>6. CASE DeleteSentBefore \/ Tick \/ UNCHANGED vars
    BY <1>1, <2>6 DEF DeleteSentBefore, Tick, IInv, TypeOK
  <2> QED BY <1>1, <2>4, <2>5, <2>6 DEF Next
<1>2. IInv /\ [Next]_vars => [Final]_vars
  BY <1>1
<1> QED BY <1>2, InvariantHolds, PTL DEF Spec, SentIsFinal

-----------------------------------------------------------------------------
(* Wake-ups *)

Waiting == faults = 0 /\ \E r \in Id : status[r] = "pending" /\ attempts[r] = 0
Active(d) == pc[d] \notin {"idle", "drained"}
Covered == (\E p \in Pod : owed[p] \/ signal[p]) \/ \E d \in Drainer : Active(d)

LEMMA WakeupIs == WakeupCovered <=> (Waiting => Covered)
BY DEF WakeupCovered, Waiting, Covered, Active

(* Pods are stopped by faults, which are counted. *)
LEMMA UpKept ==
  ASSUME IInv, WakeInv, [Next]_vars, faults' = 0
  PROVE  /\ faults = 0 /\ UNCHANGED up
         /\ \A d \in Drainer : ~DrainError(d) /\ ~MarkError(d)
         /\ \A p \in Pod : ~Exit(p) /\ ~Restart(p)
<1>0. faults \in Nat /\ up \in [Pod -> {"up", "stopping", "down"}]
  BY BoundsAssumption DEF IInv, TypeOK
<1>1. ~Fault
  BY <1>0 DEF Fault
<1>2. faults = 0
  BY <1>0, <1>1 DEF Next, Step, RecoverSelect, RecoverStaleProcessing, ClaimSelect, Drained, ClaimPending,
    Deliver, SendGuarded, MarkSent, MarkFailedRead, MarkFailed, MarkFailedTerminal, MarkError, DrainError,
    Enqueue, Notify, WakeWorker, StartSweep, LoseSweepLock, Stop, Exit, Restart, RedriveFailed,
    DeleteSentBefore, Tick, budget
<1>3. \A p \in Pod : up[p] = "up"
  BY <1>2 DEF WakeInv
<1>4. \A d \in Drainer : up[d[1]] = "up"
  BY <1>3 DEF Drainer
<1>5. /\ \A d \in Drainer : ~DrainError(d) /\ ~MarkError(d)
      /\ \A p \in Pod : ~Exit(p) /\ ~Restart(p)
  BY <1>1, <1>3, <1>4 DEF DrainError, MarkError, Exit, Restart
<1>6. UNCHANGED up
  BY <1>1, <1>5 DEF Next, Step, RecoverSelect, RecoverStaleProcessing, ClaimSelect, Drained, ClaimPending,
    Deliver, SendGuarded, MarkSent, MarkFailedRead, MarkFailed, MarkFailedTerminal,
    Enqueue, Notify, WakeWorker, StartSweep, LoseSweepLock, Stop, RedriveFailed,
    DeleteSentBefore, Tick, podVars
<1> QED BY <1>2, <1>5, <1>6

\* The part of WakeInv about one row.
RowDue(r) ==
  /\ status[r] = "processing" => attempts[r] > 0
  /\ status[r] \in {"none", "pending"} /\ attempts[r] = 0 => wait[r] = 0

(* A row never attempted stays due. *)
LEMMA DueKept ==
  ASSUME IInv, WakeInv, [Next]_vars, NEW r \in Id
  PROVE  RowDue(r)'
<1>0. TypeOK /\ RowDue(r) /\ attempts[r] \in Nat /\ wait[r] \in Nat
  BY DEF IInv, WakeInv, RowDue, TypeOK
<1>1. CASE UNCHANGED rowVars
  BY <1>0, <1>1 DEF RowDue, rowVars
<1>2. ASSUME NEW d \in Drainer, RecoverStaleProcessing(d) PROVE RowDue(r)'
  BY <1>0, <1>2 DEF RowDue, RecoverStaleProcessing
<1>3. ASSUME NEW d \in Drainer, ClaimPending(d) PROVE RowDue(r)'
  <2>1. PICK q \in sel[d] : /\ status' = [status EXCEPT ![q] = "processing"]
                            /\ attempts' = [attempts EXCEPT ![q] = @ + 1]
    BY <1>3 DEF ClaimPending
  <2>2. UNCHANGED wait
    BY <1>3 DEF ClaimPending
  <2>3. CASE r = q
    BY <1>0, <2>1, <2>3 DEF RowDue, TypeOK
  <2>4. CASE r # q
    BY <1>0, <2>1, <2>2, <2>4 DEF RowDue, TypeOK
  <2> QED BY <2>3, <2>4
<1>4. ASSUME NEW d \in Drainer, MarkSent(d) \/ MarkFailed(d) \/ MarkFailedTerminal(d) PROVE RowDue(r)'
  <2>1. held[d] \in Id /\ status[held[d]] = "processing" /\ UNCHANGED attempts
    BY <1>4, HeldRow DEF MarkSent, MarkFailed, MarkFailedTerminal, Holding, Marking
  <2>2. \E s \in {"sent", "failed", "pending"} : \E w : Write(held[d], s, w)
    BY <1>4 DEF MarkSent, MarkFailed, MarkFailedTerminal
  <2>3. PICK s \in {"sent", "failed", "pending"} : \E w : Write(held[d], s, w)
    BY <2>2
  <2>4. CASE r = held[d]
    <3>1. attempts[r] > 0 /\ status'[r] # "processing"
      BY <1>0, <2>1, <2>3, <2>4 DEF RowDue, Write, TypeOK, Exists
    <3> QED BY <1>0, <2>1, <3>1 DEF RowDue
  <2>5. CASE r # held[d]
    BY <1>0, <2>1, <2>3, <2>5 DEF RowDue, Write, TypeOK
  <2> QED BY <2>4, <2>5
<1>5. ASSUME NEW p \in Pod, Enqueue(p) PROVE RowDue(r)'
  <2>1. PICK q \in Id : status[q] = "none" /\ status' = [status EXCEPT ![q] = "pending"]
    BY <1>5 DEF Enqueue
  <2>2. UNCHANGED <<attempts, wait>>
    BY <1>5 DEF Enqueue
  <2> QED BY <1>0, <2>1, <2>2 DEF RowDue, TypeOK
<1>6. ASSUME NEW p \in Pod, NEW S \in SUBSET Id, RedriveFailed(p, S) PROVE RowDue(r)'
  BY <1>0, <1>6 DEF RowDue, RedriveFailed
<1>7. CASE DeleteSentBefore
  BY <1>0, <1>7 DEF RowDue, DeleteSentBefore
<1>8. CASE Tick
  BY <1>0, <1>8 DEF RowDue, Tick
<1>9. \/ UNCHANGED rowVars \/ DeleteSentBefore \/ Tick
      \/ \E d \in Drainer : \/ RecoverStaleProcessing(d) \/ ClaimPending(d)
                            \/ MarkSent(d) \/ MarkFailed(d) \/ MarkFailedTerminal(d)
      \/ \E p \in Pod : Enqueue(p) \/ \E S \in SUBSET Id : RedriveFailed(p, S)
  BY DEF Next, Step, RecoverSelect, ClaimSelect, Drained, Deliver, SendGuarded, MarkFailedRead,
    MarkError, DrainError, Notify, WakeWorker, StartSweep, LoseSweepLock, Stop, Exit, Restart
<1> QED BY <1>1, <1>2, <1>3, <1>4, <1>5, <1>6, <1>7, <1>8, <1>9

(* A step that leaves a drain active, or a call owed, or a signal. *)
LEMMA StillActive ==
  ASSUME NEW d \in Drainer, pc'[d] \notin {"idle", "drained"}
  PROVE  Covered'
BY DEF Covered, Active

LEMMA StillCovered ==
  ASSUME Waiting => Covered, UNCHANGED <<owed, signal>>,
         \A e \in Drainer : pc[e] \notin {"idle", "drained"} => pc'[e] \notin {"idle", "drained"},
         Waiting' => Waiting
  PROVE  Waiting' => Covered'
BY DEF Covered, Active

(* The last look for a row: one never attempted is due, so if this drain does not *)
(* see it another one has it locked and is active.                                *)
LEMMA LastLook ==
  ASSUME IInv, WakeInv, NEW d \in Drainer, ClaimSelect(d)
  PROVE  Waiting' => Covered'
<1> SUFFICES ASSUME Waiting' PROVE Covered'
  OBVIOUS
<1>0. TypeOK /\ UNCHANGED <<status, attempts, faults>> /\ pc[d] = "claim"
  BY DEF IInv, ClaimSelect
<1>1. PICK r \in Id : status[r] = "pending" /\ attempts[r] = 0
  BY <1>0 DEF Waiting
<1>2. Due(r)
  BY <1>1 DEF WakeInv, Due
<1>3. CASE pc' = [pc EXCEPT ![d] = "claimTx"]
  <2>1. pc'[d] = "claimTx"
    BY <1>0, <1>3 DEF TypeOK
  <2> QED BY <2>1, StillActive
<1>4. CASE pc' # [pc EXCEPT ![d] = "claimTx"]
  <2>1. {q \in Id : Due(q) /\ ~Locked(q)} = {} /\ pc' = [pc EXCEPT ![d] = "drained"]
    BY <1>4 DEF ClaimSelect
  <2>2. PICK e \in Drainer : r \in sel[e]
    BY <1>2, <2>1 DEF Locked
  <2>3. pc[e] \in {"recoverTx", "claimTx"}
    BY <2>2 DEF IInv, LockIdle
  <2>4. pc'[e] = pc[e]
    BY <1>0, <2>1, <2>3 DEF TypeOK
  <2> QED BY <2>3, <2>4, StillActive
<1> QED BY <1>3, <1>4

(* The steps of a drain other than that leave it active. *)
LEMMA DrainCovered ==
  ASSUME IInv, WakeInv, NEW d \in Drainer, Step(d), faults' = 0, UNCHANGED up, \A p \in Pod : up[p] = "up"
  PROVE  Waiting' => Covered'
<1>0. TypeOK /\ (Waiting => Covered) /\ UNCHANGED <<owed, signal, faults>> /\ up[d[1]] = "up"
  <2>1. TypeOK /\ (Waiting => Covered)
    BY WakeupIs DEF IInv, WakeInv
  <2>2. UNCHANGED <<owed, signal, faults>>
    BY DEF Step, RecoverSelect, RecoverStaleProcessing, ClaimSelect, Drained, ClaimPending, Deliver,
      SendGuarded, MarkSent, MarkFailedRead, MarkFailed, MarkFailedTerminal
  <2> QED BY <2>1, <2>2 DEF Drainer
<1>1. CASE ClaimSelect(d)
  BY <1>1, LastLook
<1>2. CASE Drained(d)
  <2>1. UNCHANGED <<status, attempts>> /\ pc[d] = "drained" /\ pc' = [pc EXCEPT ![d] = "idle"]
    BY <1>2 DEF Drained, Return
  <2>2. \A e \in Drainer : pc[e] \notin {"idle", "drained"} => pc'[e] \notin {"idle", "drained"}
    BY <1>0, <2>1 DEF TypeOK
  <2>3. Waiting' => Waiting
    BY <1>0, <2>1 DEF Waiting
  <2> QED BY <1>0, <2>2, <2>3, StillCovered
<1>3. CASE RecoverSelect(d) \/ RecoverStaleProcessing(d) \/ MarkFailedRead(d)
  <2>1. pc'[d] \in {"recoverTx", "claim", "markRetry"}
    BY <1>0, <1>3 DEF RecoverSelect, RecoverStaleProcessing, MarkFailedRead, NextRow, Phase, TypeOK
  <2> QED BY <2>1, StillActive
<1>4. CASE ClaimPending(d) \/ SendGuarded(d)
  <2>1. pc'[d] \in {"check", "markSent", "markFailed", "markTerminal"}
    BY <1>0, <1>4 DEF ClaimPending, SendGuarded, Phase, TypeOK
  <2> QED BY <2>1, StillActive
<1>5. CASE MarkSent(d) \/ MarkFailed(d) \/ MarkFailedTerminal(d)
  <2>1. pc'[d] = "claim"
    BY <1>0, <1>5 DEF MarkSent, MarkFailed, MarkFailedTerminal, NextRow, Phase, TypeOK
  <2> QED BY <2>1, StillActive
<1>6. CASE Deliver(d)
  <2>1. pc'[d] = "send"
    BY <1>0, <1>6 DEF Deliver, Phase, TypeOK
  <2> QED BY <2>1, StillActive
<1> QED BY <1>1, <1>2, <1>3, <1>4, <1>5, <1>6 DEF Step

LEMMA PodCovered ==
  ASSUME IInv, WakeInv, NEW p \in Pod,
         \/ Enqueue(p) \/ Notify(p) \/ WakeWorker(p) \/ StartSweep(p)
         \/ LoseSweepLock(p) \/ Stop(p) \/ \E S \in SUBSET Id : RedriveFailed(p, S)
  PROVE  Waiting' => Covered'
<1>0. TypeOK /\ (Waiting => Covered) /\ faults \in Nat
  BY WakeupIs, BoundsAssumption DEF IInv, WakeInv, TypeOK
<1>1. CASE Enqueue(p) \/ Notify(p) \/ \E S \in SUBSET Id : RedriveFailed(p, S)
  <2>1. owed'[p] \/ signal'[p]
    BY <1>0, <1>1 DEF Enqueue, Notify, RedriveFailed, TypeOK
  <2> QED BY <2>1 DEF Covered
<1>2. CASE WakeWorker(p) \/ StartSweep(p)
  <2>1. <<p, "run">> \in Drainer /\ <<p, "sweep">> \in Drainer
    BY DEF Drainer
  <2>2. pc'[<<p, "run">>] = "recover" \/ pc'[<<p, "sweep">>] = "recover"
    BY <1>0, <1>2, <2>1 DEF WakeWorker, StartSweep, TypeOK
  <2> QED BY <2>1, <2>2, StillActive
<1>3. CASE LoseSweepLock(p) \/ Stop(p)
  <2>1. faults' # 0
    BY <1>0, <1>3 DEF LoseSweepLock, Stop, Fault
  <2> QED BY <2>1 DEF Waiting
<1> QED BY <1>1, <1>2, <1>3

LEMMA WakeKept == IInv /\ WakeInv /\ [Next]_vars => WakeInv'
<1> SUFFICES ASSUME IInv, WakeInv, [Next]_vars PROVE WakeInv'
  OBVIOUS
<1>1. faults' = 0 => \A p \in Pod : up'[p] = "up"
  BY UpKept DEF WakeInv
<1>2. \A r \in Id : RowDue(r)'
  BY DueKept
<1>3. Waiting' => Covered'
  <2> SUFFICES ASSUME faults' = 0 PROVE Waiting' => Covered'
    BY DEF Waiting
  <2>1. /\ faults = 0 /\ UNCHANGED up /\ \A p \in Pod : up[p] = "up"
        /\ \A d \in Drainer : ~DrainError(d) /\ ~MarkError(d)
        /\ \A p \in Pod : ~Exit(p) /\ ~Restart(p)
    BY UpKept DEF WakeInv
  <2>2. ASSUME NEW d \in Drainer, Step(d) PROVE Waiting' => Covered'
    BY <2>1, <2>2, DrainCovered
  <2>3. CASE DeleteSentBefore \/ Tick \/ UNCHANGED vars
    <3>1. UNCHANGED <<owed, signal, pc, attempts, faults>>
      BY <2>3 DEF DeleteSentBefore, Tick
    <3>2. \A r \in Id : status'[r] = "pending" => status[r] = "pending"
      BY <2>3 DEF DeleteSentBefore, Tick
    <3>3. Waiting' => Waiting
      BY <3>1, <3>2 DEF Waiting
    <3>4. Waiting => Covered
      BY WakeupIs DEF WakeInv
    <3> QED BY <3>1, <3>3, <3>4, StillCovered
  <2> QED BY <2>1, <2>2, <2>3, PodCovered DEF Next
<1>4. WakeupCovered'
  BY <1>3 DEF WakeupCovered, Waiting, Covered, Active
<1> QED BY <1>1, <1>2, <1>4 DEF WakeInv, RowDue

(* As long as nothing fails, a row nobody has attempted yet is covered by an owed *)
(* Notify, a signal or an active drain, for any number of pods: the one-element   *)
(* channel of Worker.Notify loses no wake-up.                                     *)
THEOREM WakeupsKept == Spec => []WakeupCovered
<1>1. Init => WakeInv
  <2> SUFFICES ASSUME Init PROVE WakeInv
    OBVIOUS
  <2>1. \A r \in Id : status[r] = "none" /\ wait[r] = 0
    BY DEF Init
  <2>2. \A p \in Pod : up[p] = "up"
    BY DEF Init
  <2> QED BY <2>1, <2>2 DEF WakeInv, WakeupCovered
<1>2. WakeInv => WakeupCovered
  BY DEF WakeInv
<1> QED BY <1>1, <1>2, WakeKept, InvariantHolds, PTL DEF Spec

-----------------------------------------------------------------------------
(* The promise *)

\* What a row is to the promise.
Seen(s) == IF s \in {"pending", "processing"} THEN "queued" ELSE s

\* The rows of S, seen as from, are now seen as to, the others as before.
Becomes(S, from, to) ==
  /\ \A r \in S : Seen(status[r]) = from
  /\ \A r \in Id : Seen(status'[r]) = IF r \in S THEN to ELSE Seen(status[r])
  /\ UNCHANGED accepted

\* A step of the promise, or a stutter.
PromiseStep ==
  [Promise!Next]_<<[r \in Id |-> IF status[r] \in {"pending", "processing"}
                                 THEN "queued" ELSE status[r]], accepted>>

(* The changes of sets of rows are the steps of the promise. *)
LEMMA StepsOfPromise ==
  ASSUME NEW S \in SUBSET Id
  PROVE  /\ Becomes(S, "queued", "failed") => Promise!GiveUp(S)
         /\ Becomes(S, "failed", "queued") => Promise!Redrive(S)
         /\ Becomes(S, "sent", "deleted") => Promise!Prune(S)
         /\ \A r \in Id : S = {r} /\ Becomes(S, "none", "queued") => Promise!Queue(r)
         /\ \A r \in Id : S = {r} /\ Becomes(S, "queued", "sent") /\ accepted[r] > 0 => Promise!Confirm(r)
BY DEF Becomes, Seen, Promise!GiveUp, Promise!Redrive, Promise!Prune, Promise!Queue, Promise!Confirm,
  Promise!Become, Promise!Id, Id

(* The steps of the promise that concern many rows. *)
LEMMA ManyRows ==
  ASSUME NEW S \in SUBSET Id,
         \/ Becomes(S, "queued", "failed")
         \/ Becomes(S, "failed", "queued")
         \/ Becomes(S, "sent", "deleted")
  PROVE  PromiseStep
<1>1. Promise!GiveUp(S) \/ Promise!Redrive(S) \/ Promise!Prune(S)
  BY StepsOfPromise
<1>2. S \in SUBSET Promise!Id
  BY DEF Promise!Id, Id
<1>3. Promise!Next
  BY <1>1, <1>2 DEF Promise!Next
<1> QED BY <1>3 DEF PromiseStep

(* The steps of the promise that concern one row. *)
LEMMA OneRow ==
  ASSUME NEW r \in Id,
         \/ Becomes({r}, "none", "queued")
         \/ Becomes({r}, "queued", "sent") /\ accepted[r] > 0
         \/ Promise!Relay(r)
  PROVE  PromiseStep
<1>1. Promise!Queue(r) \/ Promise!Confirm(r) \/ Promise!Relay(r)
  BY StepsOfPromise
<1>2. r \in Promise!Id
  BY DEF Promise!Id, Id
<1>3. Promise!Next
  BY <1>1, <1>2 DEF Promise!Next
<1> QED BY <1>3 DEF PromiseStep

(* A step that shows no row differently is a stutter. *)
LEMMA NothingShown ==
  ASSUME \A r \in Id : Seen(status'[r]) = Seen(status[r]), UNCHANGED accepted
  PROVE  PromiseStep
BY DEF PromiseStep, Seen

(* An UPDATE by id of the row a drain is sending concerns that row alone, which is *)
(* still queued.                                                                   *)
LEMMA WriteBecomes ==
  ASSUME IInv, NEW d \in Drainer, pc[d] \in Marking,
         NEW s \in {"sent", "failed", "pending"}, NEW w, Write(held[d], s, w), UNCHANGED accepted
  PROVE  /\ s # "pending" => Becomes({held[d]}, "queued", s)
         /\ s = "pending" => PromiseStep
<1>1. held[d] \in Id /\ status[held[d]] = "processing" /\ status \in [Id -> Status]
  BY HeldRow DEF Holding, IInv, TypeOK
<1>2. status' = [status EXCEPT ![held[d]] = s]
  BY <1>1 DEF Write, Exists
<1>3. CASE s # "pending"
  BY <1>1, <1>2, <1>3 DEF Becomes, Seen
<1>4. CASE s = "pending"
  <2>1. \A r \in Id : Seen(status'[r]) = Seen(status[r])
    BY <1>1, <1>2, <1>4 DEF Seen
  <2> QED BY <1>4, <2>1, NothingShown
<1> QED BY <1>3, <1>4

(* Recovery gives up the stale rows without attempts left; the others stay queued. *)
LEMMA RecoveryGivesUp ==
  ASSUME IInv, NEW d \in Drainer, RecoverStaleProcessing(d)
  PROVE  PromiseStep
<1> DEFINE S == {r \in sel[d] : attempts[r] >= MaxAttempts}
<1>1. sel[d] \subseteq Id /\ \A r \in sel[d] : status[r] = "processing"
  BY DEF RecoverStaleProcessing, IInv, TypeOK, LockRecover
<1>2. S \in SUBSET Id
  BY <1>1
<1>3. \A r \in S : Seen(status[r]) = "queued"
  BY <1>1 DEF Seen
<1>4. \A r \in Id : Seen(status'[r]) = IF r \in S THEN "failed" ELSE Seen(status[r])
  BY <1>1 DEF RecoverStaleProcessing, Seen
<1>5. UNCHANGED accepted
  BY DEF RecoverStaleProcessing
<1> HIDE DEF S
<1>6. Becomes(S, "queued", "failed")
  BY <1>3, <1>4, <1>5 DEF Becomes
<1> QED BY <1>2, <1>6, ManyRows

(* A batch of the retention task deletes rows that were sent. *)
LEMMA RetentionPrunes ==
  ASSUME IInv, DeleteSentBefore
  PROVE  PromiseStep
<1> DEFINE old == {r \in Id : status[r] = "sent" /\ age[r] > RetentionAge}
           S == FirstRows(old, RetentionBatch)
<1>1. S \subseteq old
  BY DEF FirstRows
<1>2. S \in SUBSET Id /\ \A r \in S : Seen(status[r]) = "sent"
  BY <1>1 DEF Seen
<1>3. status' = [r \in Id |-> IF r \in S THEN "deleted" ELSE status[r]] /\ UNCHANGED accepted
  BY DEF DeleteSentBefore
<1> HIDE DEF S, old
<1>4. Becomes(S, "sent", "deleted")
  BY <1>2, <1>3 DEF Becomes, Seen
<1> QED BY <1>2, <1>4, ManyRows

(* The relay accepts the mail of a row that is still queued. *)
LEMMA SendRelays ==
  ASSUME IInv, NEW d \in Drainer, SendGuarded(d)
  PROVE  PromiseStep
<1>1. held[d] \in Id /\ status[held[d]] = "processing" /\ UNCHANGED status
  BY HeldRow DEF SendGuarded, Holding
<1>2. CASE UNCHANGED accepted
  BY <1>1, <1>2, NothingShown
<1>3. CASE accepted' = [accepted EXCEPT ![held[d]] = IF @ = 2 THEN 2 ELSE @ + 1]
  <2>1. Promise!Relay(held[d])
    BY <1>1, <1>3 DEF Promise!Relay
  <2> QED BY <1>1, <2>1, OneRow
<1> QED BY <1>2, <1>3 DEF SendGuarded

(* Each step of the drains, pods and administrators is one of the promise. *)
LEMMA EveryStepPromised ==
  ASSUME IInv, [Next]_vars
  PROVE  PromiseStep
<1>1. CASE UNCHANGED <<status, accepted>>
  BY <1>1, NothingShown
<1>2. ASSUME NEW p \in Pod, Enqueue(p) PROVE PromiseStep
  <2>1. PICK r \in Id : status[r] = "none" /\ status' = [status EXCEPT ![r] = "pending"]
    BY <1>2 DEF Enqueue
  <2>2. UNCHANGED accepted /\ status \in [Id -> Status]
    BY <1>2 DEF Enqueue, IInv, TypeOK
  <2>3. Becomes({r}, "none", "queued")
    BY <2>1, <2>2 DEF Becomes, Seen
  <2> QED BY <2>3, OneRow
<1>3. ASSUME NEW p \in Pod, NEW S \in SUBSET Id, RedriveFailed(p, S) PROVE PromiseStep
  <2>1. Becomes(S, "failed", "queued")
    BY <1>3 DEF RedriveFailed, Becomes, Seen
  <2> QED BY <2>1, ManyRows
<1>4. ASSUME NEW d \in Drainer, ClaimPending(d) PROVE PromiseStep
  <2>1. PICK q \in sel[d] : status' = [status EXCEPT ![q] = "processing"]
    BY <1>4 DEF ClaimPending
  <2>2. q \in Id /\ status[q] = "pending" /\ status \in [Id -> Status] /\ UNCHANGED accepted
    BY <1>4 DEF ClaimPending, IInv, TypeOK, LockClaim
  <2>3. \A r \in Id : Seen(status'[r]) = Seen(status[r])
    BY <2>1, <2>2 DEF Seen
  <2> QED BY <2>2, <2>3, NothingShown
<1>5. ASSUME NEW d \in Drainer, MarkSent(d) PROVE PromiseStep
  <2>1. pc[d] = "markSent" /\ Write(held[d], "sent", wait[held[d]]) /\ UNCHANGED accepted
    BY <1>5 DEF MarkSent
  <2>2. held[d] \in Id /\ accepted[held[d]] > 0
    BY <2>1, HeldRow DEF IInv, HoldFacts, Holding, Marking
  <2>3. Becomes({held[d]}, "queued", "sent")
    BY <2>1, WriteBecomes DEF Marking
  <2> QED BY <2>2, <2>3, OneRow
<1>6. ASSUME NEW d \in Drainer, MarkFailed(d) \/ MarkFailedTerminal(d) PROVE PromiseStep
  <2>1. pc[d] \in Marking /\ UNCHANGED accepted
    BY <1>6 DEF MarkFailed, MarkFailedTerminal, Marking
  <2>2. PICK s \in {"failed", "pending"} : \E w : Write(held[d], s, w)
    BY <1>6 DEF MarkFailed, MarkFailedTerminal
  <2>3. held[d] \in Id
    BY <2>1, HeldRow DEF Holding
  <2>4. CASE s = "failed"
    <3>1. Becomes({held[d]}, "queued", "failed")
      BY <2>1, <2>2, <2>4, WriteBecomes
    <3> QED BY <2>3, <3>1, ManyRows
  <2>5. CASE s = "pending"
    BY <2>1, <2>2, <2>5, WriteBecomes
  <2> QED BY <2>4, <2>5
<1>7. \/ UNCHANGED <<status, accepted>> \/ DeleteSentBefore
      \/ \E d \in Drainer : \/ RecoverStaleProcessing(d) \/ ClaimPending(d) \/ SendGuarded(d)
                            \/ MarkSent(d) \/ MarkFailed(d) \/ MarkFailedTerminal(d)
      \/ \E p \in Pod : Enqueue(p) \/ \E S \in SUBSET Id : RedriveFailed(p, S)
  BY DEF Next, Step, RecoverSelect, ClaimSelect, Drained, Deliver, MarkFailedRead, Tick,
    MarkError, DrainError, Notify, WakeWorker, StartSweep, LoseSweepLock, Stop, Exit, Restart
<1> QED BY <1>1, <1>2, <1>3, <1>4, <1>5, <1>6, <1>7, RecoveryGivesUp, RetentionPrunes, SendRelays

(* The drains implement the promise, with any number of pods and rows and under    *)
(* crashes, stops, lost answers and database errors: a row leaves the queue only   *)
(* as sent, after the relay accepted its mail, or as failed; it comes back only by *)
(* a redrive, and disappears only after it was sent.                               *)
THEOREM PromiseImplemented == Spec => ImplementsPromise
<1>1. Init => Promise!Init
  BY DEF Init, Promise!Init, Promise!Id, Id
<1>2. IInv /\ [Next]_vars => PromiseStep
  BY EveryStepPromised
<1> QED BY <1>1, <1>2, InvariantHolds, PTL DEF Spec, ImplementsPromise, Promise!Spec, PromiseStep

=============================================================================
