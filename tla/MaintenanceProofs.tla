------------------------- MODULE MaintenanceProofs -------------------------
(***************************************************************************)
(* Theorems about Maintenance, for any number of users, checkers and       *)
(* recipients.                                                             *)
(*                                                                         *)
(* Permission and validation are decided on a copy; what carries them over *)
(* to the write is that versions only grow, so a copy with the version of  *)
(* the row is the row (Copied), and that a transaction past its UPDATE has *)
(* found the version it asked for and holds the row (TxVersion, OneTx).  A *)
(* checker asks for the version of its copy (Prepared); a user may ask for *)
(* a newer one, and what is claimed of it then does not rest on its copy.  *)
(***************************************************************************)
EXTENDS Maintenance, SequenceTheorems, TLAPS

USE DEF vars

Signed(role) == [status : MaintenanceStatus, by : {role}]

LEMMA RoleType == \A p \in Proc : RoleOf(p) \in Role
BY DEF RoleOf, Role

LEMMA CheckerRole == \A k \in Checker : RoleOf(k) = "checker" /\ k \in Proc /\ k \notin Creator
BY ProcAssumption DEF RoleOf, User, Proc

LEMMA UserProc == \A u \in User : u \in Proc
BY DEF Proc

LEMMA SignedType ==
  ASSUME NEW role \in Role, NEW w \in Seq(Signed(role))
  PROVE  w \in Seq(Entry)
<1>1. Signed(role) \subseteq Entry
  BY DEF Signed, Entry
<1> QED BY <1>1, SeqMonotonic

(* What the checker computes is a status of a maintenance, ... *)
LEMMA CurrentStatusType == \A e, t : CurrentStatus(e, t) \in MaintenanceStatus
BY DEF CurrentStatus, MaintenanceStatus

(* ... and the rows it backfills are its own. *)
LEMMA MissedType ==
  ASSUME NEW e, NEW s \in MaintenanceStatus
  PROVE  Missed(e, s) \in Seq(Signed("checker"))
<1>1. [status |-> s, by |-> "checker"] \in Signed("checker")
  BY DEF Signed
<1>2. <<[status |-> s, by |-> "checker"]>> \in Seq(Signed("checker"))
  BY <1>1
<1>3. <<>> \in Seq(Signed("checker"))
  OBVIOUS
<1> QED BY <1>2, <1>3 DEF Missed

LEMMA BackfillType ==
  ASSUME NEW e, NEW s \in MaintenanceStatus
  PROVE  Backfill(e, s) \in Seq(Signed("checker"))
<1>1. /\ Missed(e, "planned") \in Seq(Signed("checker"))
      /\ Missed(e, "in_progress") \in Seq(Signed("checker"))
      /\ Missed(e, "completed") \in Seq(Signed("checker"))
  BY MissedType DEF MaintenanceStatus
<1> QED BY <1>1 DEF Backfill

LEMMA RecipientsType == \A s : Recipients(s) \subseteq Recipient
BY DEF Recipients, Recipient

LEMMA EventType ==
  ASSUME NEW v \in Nat, NEW s \in MaintenanceStatus, NEW o \in User \cup {""}, NEW a \in Nat,
         NEW b \in Nat, NEW h \in Seq(Entry)
  PROVE  LET e == [version |-> v, status |-> s, owner |-> o, start |-> a, end |-> b, hist |-> h]
         IN  e \in Event /\ e.version = v
BY DEF Event

LEMMA HistoryType == \A a, b \in Seq(Entry) : a \o b \in Seq(Entry)
BY ConcatProperties

(* The last entry of a history that has grown is the last one added. *)
LEMMA LastOfConcat ==
  ASSUME NEW a \in Seq(Entry), NEW b \in Seq(Entry), Len(a \o b) > Len(a)
  PROVE  Len(b) \in 1..Len(b) /\ (a \o b)[Len(a \o b)] = b[Len(b)]
<1>1. Len(a) \in Nat /\ Len(b) \in Nat
  BY LenProperties
<1>2. /\ Len(a \o b) = Len(a) + Len(b)
      /\ \A i \in 1 .. Len(a) + Len(b) :
           (a \o b)[i] = IF i <= Len(a) THEN a[i] ELSE b[i - Len(a)]
  BY ConcatProperties
<1>3. Len(b) > 0
  BY <1>1, <1>2
<1> QED BY <1>1, <1>2, <1>3

(* The recipient and the key a publisher is at. *)
LEMMA NextRecipientType ==
  ASSUME NEW p \in Proc, todo[p] # {}
  PROVE  NextRecipient(p) \in todo[p]
BY DEF NextRecipient

LEMMA NextKeyType ==
  ASSUME TypeOK, Prepared, NEW p \in Proc, Writing(p), todo[p] # {}
  PROVE  NextKey(p) \in Key
<1>1. NextRecipient(p) \in Recipient
  BY NextRecipientType DEF TypeOK
<1>2. snap[p].status \in MaintenanceStatus \cup {""} /\ want[p].status \in MaintenanceStatus
  BY DEF TypeOK, Prepared, Event
<1> QED BY <1>1, <1>2 DEF NextKey, DedupKey, Key

LEMMA NextKeySame ==
  ASSUME NEW p \in Proc, todo'[p] = todo[p], snap'[p] = snap[p], want'[p] = want[p]
  PROVE  NextKey(p)' = NextKey(p)
BY Zenon DEF NextKey, NextRecipient, DedupKey

(* No lost update, from the parts of the invariant. *)
LEMMA CopyIsRow ==
  ASSUME IInv, NEW p \in Proc, InTx(p), ~Ahead(p)
  PROVE  snap[p] = ev
<1>1. Writing(p)
  BY DEF InTx, Writing
<1>2. want[p].version = ev.version /\ ~(want[p].version > snap[p].version)
  BY <1>1 DEF IInv, TxVersion, Ahead
<1>3. snap[p].version <= ev.version /\ (snap[p].version = ev.version => snap[p] = ev)
  BY <1>1 DEF IInv, Copied
<1>4. snap[p].version \in Nat /\ ev.version \in Nat
  BY DEF IInv, TypeOK, Event
<1> QED BY <1>2, <1>3, <1>4

(* A checker is never ahead. *)
LEMMA CheckerCopy ==
  ASSUME IInv, NEW k \in Checker, InTx(k)
  PROVE  snap[k] = ev
<1>1. Writing(k) /\ k \in Proc
  BY CheckerRole DEF InTx, Writing
<1>2. want[k].version = snap[k].version /\ snap[k].version \in Nat
  BY <1>1 DEF IInv, Prepared, TypeOK, Event
<1>3. ~Ahead(k)
  BY <1>2 DEF Ahead
<1> QED BY <1>1, <1>3, CopyIsRow

(* A step that starts no write and alters none keeps what the writes carry. *)
LEMMA PreparedKept ==
  ASSUME IInv,
         \A q \in Proc : Writing(q)' => Writing(q) /\ snap'[q] = snap[q] /\ want'[q] = want[q]
  PROVE  Prepared'
<1> SUFFICES ASSUME NEW q \in Proc, Writing(q)'
             PROVE  /\ want'[q].status \in MaintenanceStatus
                    /\ q \in Checker => want'[q].version = snap'[q].version
                    /\ want'[q].add \in Seq([status : MaintenanceStatus, by : {RoleOf(q)}])
                    /\ q \in Creator => /\ snap'[q].owner = q /\ snap'[q].status = "pending_review"
                                        /\ want'[q].status \in {"pending_review", "cancelled"}
  BY DEF Prepared, RoleOf
<1>1. Writing(q) /\ snap'[q] = snap[q] /\ want'[q] = want[q]
  OBVIOUS
<1> QED BY <1>1, Zenon DEF IInv, Prepared

-----------------------------------------------------------------------------
(* The end of a request or round: nothing of the writer is left. *)

LEMMA DoneKeeps ==
  ASSUME IInv, NEW p \in Proc, Done(p), UNCHANGED <<ev, keys>>,
         pruned' \subseteq Key, now' \in 0..MaxTime, patches' \in 0..MaxPatches,
         aborts' \in 0..MaxAborts
  PROVE  IInv'
<1>1. TypeOK'
  <2>1. NoEvent \in Event /\ NoWrite \in WriteSet
    BY DEF NoEvent, NoWrite, Event, WriteSet
  <2> QED BY <2>1 DEF IInv, TypeOK, Done
<1>2. Started'
  BY DEF IInv, TypeOK, Started, Done
<1>3. Copied'
  BY DEF IInv, TypeOK, Copied, Writing, Done
<1>4. Prepared'
  <2>1. \A q \in Proc : Writing(q)' => Writing(q) /\ snap'[q] = snap[q] /\ want'[q] = want[q]
    BY DEF IInv, TypeOK, Writing, Done
  <2> QED BY <2>1, PreparedKept
<1>5. OneTx' /\ TxVersion'
  BY DEF IInv, TypeOK, OneTx, TxVersion, InTx, Done
<1>6. InsertFresh'
  <2> SUFFICES ASSUME NEW q \in Proc, pc'[q] = "insert"
               PROVE  todo'[q] # {} /\ NextKey(q)' \notin keys'
    BY DEF InsertFresh
  <2>1. q # p /\ pc[q] = "insert"
    BY DEF IInv, TypeOK, Done
  <2>2. todo'[q] = todo[q] /\ snap'[q] = snap[q] /\ want'[q] = want[q]
    BY <2>1 DEF IInv, TypeOK, Done
  <2>3. NextKey(q)' = NextKey(q)
    BY <2>2, NextKeySame
  <2> QED BY <2>1, <2>2, <2>3 DEF IInv, InsertFresh
<1>7. NeverPoisoned'
  BY DEF IInv, TypeOK, NeverPoisoned, Done
<1> QED BY <1>1, <1>2, <1>3, <1>4, <1>5, <1>6, <1>7 DEF IInv

(* The fresh key of every writer whose memory a step leaves alone stays fresh. *)
LEMMA FreshKept ==
  ASSUME IInv, NEW q \in Proc, pc[q] = "insert", keys' \subseteq keys,
         todo'[q] = todo[q], snap'[q] = snap[q], want'[q] = want[q]
  PROVE  todo'[q] # {} /\ NextKey(q)' \notin keys'
<1>1. NextKey(q)' = NextKey(q)
  BY NextKeySame
<1> QED BY <1>1 DEF IInv, InsertFresh

-----------------------------------------------------------------------------
(* One lemma per action: the parts of IInv it can disturb, then the rest. *)

LEMMA CreateEventKeeps ==
  ASSUME IInv, NEW u \in User, CreateEvent(u)
  PROVE  IInv'
<1>1. \A p \in Proc : pc[p] = "idle"
  <2>1. ev.version = 0
    BY DEF CreateEvent
  <2>2. ~(ev.version > 0)
    BY <2>1
  <2> QED BY <2>2 DEF IInv, Started
<1>2. ev' \in Event
  <2>1. PICK w \in Windows :
          ev' = [version |-> 2, status |-> CreateStatus(u), owner |-> u, start |-> w[1], end |-> w[2],
                 hist |-> <<[status |-> CreateStatus(u), by |-> RoleOf(u)]>>]
    BY DEF CreateEvent
  <2>2. w[1] \in Nat /\ w[2] \in Nat
    BY ProcAssumption
  <2>3. CreateStatus(u) \in MaintenanceStatus
    BY DEF CreateStatus, MaintenanceStatus
  <2>4. [status |-> CreateStatus(u), by |-> RoleOf(u)] \in Entry
    BY <2>3, RoleType, UserProc DEF Entry
  <2>5. <<[status |-> CreateStatus(u), by |-> RoleOf(u)]>> \in Seq(Entry)
    BY <2>4
  <2> QED BY <2>1, <2>2, <2>3, <2>5 DEF Event
<1>3. keys' \subseteq Key
  <2>1. CreateStatus(u) \in MaintenanceStatus
    BY DEF CreateStatus, MaintenanceStatus
  <2>2. \A r \in Recipients(CreateStatus(u)) : DedupKey("", CreateStatus(u), r) \in Key
    BY <2>1, RecipientsType DEF DedupKey, Key
  <2> QED BY <2>2 DEF CreateEvent
<1>4. TypeOK'
  BY <1>2, <1>3 DEF IInv, TypeOK, CreateEvent
<1>5. UNCHANGED pc
  BY DEF CreateEvent
<1>6. Started' /\ Copied' /\ Prepared' /\ OneTx' /\ TxVersion' /\ InsertFresh' /\ NeverPoisoned'
  BY <1>1, <1>5 DEF Started, Copied, Prepared, OneTx, TxVersion, InsertFresh, NeverPoisoned,
    Writing, InTx
<1> QED BY <1>4, <1>6 DEF IInv

LEMMA PatchIncidentKeeps ==
  ASSUME IInv, NEW u \in User, PatchIncident(u)
  PROVE  IInv'
<1> USE UserProc
<1>1. PICK s \in PatchStatus, w \in PatchWindows \cup {<<ev.start, ev.end>>}, v \in ClientVersions :
        /\ AllowPatch(u, ev, s)
        /\ want' = [want EXCEPT ![u] = [version |-> v, status |-> s, start |-> w[1], end |-> w[2],
                                        add |-> <<[status |-> s, by |-> RoleOf(u)]>>]]
  BY DEF PatchIncident
<1>2. s \in MaintenanceStatus /\ w[1] \in Nat /\ w[2] \in Nat /\ v \in Int
  <2>1. ev.start \in Nat /\ ev.end \in Nat /\ ev.version \in Nat
    BY DEF IInv, TypeOK, Event
  <2>2. CASE w \in PatchWindows
    BY <2>1, <2>2, ProcAssumption
  <2>3. CASE w = <<ev.start, ev.end>>
    BY <2>1, <2>3, ProcAssumption
  <2> QED BY <2>2, <2>3
<1>3. [status |-> s, by |-> RoleOf(u)] \in Signed(RoleOf(u))
  BY <1>2 DEF Signed
<1>4. <<[status |-> s, by |-> RoleOf(u)]>> \in Seq(Signed(RoleOf(u)))
  BY <1>3
<1>5. <<[status |-> s, by |-> RoleOf(u)]>> \in Seq(Entry)
  BY <1>4, RoleType, SignedType
<1>6. want' \in [Proc -> WriteSet]
  BY <1>1, <1>2, <1>5 DEF IInv, TypeOK, WriteSet
<1>7. TypeOK'
  BY <1>6, ProcAssumption DEF IInv, TypeOK, PatchIncident
<1>8. Started'
  BY DEF IInv, TypeOK, Started, PatchIncident
<1>9. Copied'
  <2> SUFFICES ASSUME NEW q \in Proc, Writing(q)'
               PROVE  /\ snap'[q].version <= ev'.version /\ snap'[q].owner = ev'.owner
                      /\ snap'[q].version = ev'.version => snap'[q] = ev'
    BY DEF Copied
  <2>1. ev' = ev /\ ev.version \in Nat
    BY DEF PatchIncident, IInv, TypeOK, Event
  <2>2. CASE q = u
    <3>1. snap'[q] = ev
      BY <2>2 DEF IInv, TypeOK, PatchIncident
    <3> QED BY <2>1, <3>1
  <2>3. CASE q # u
    <3>1. Writing(q) /\ snap'[q] = snap[q]
      BY <2>3 DEF IInv, TypeOK, PatchIncident, Writing
    <3> QED BY <2>1, <3>1 DEF IInv, Copied
  <2> QED BY <2>2, <2>3
<1>10. Prepared'
  <2> SUFFICES ASSUME NEW q \in Proc, Writing(q)'
               PROVE  /\ want'[q].status \in MaintenanceStatus
                      /\ q \in Checker => want'[q].version = snap'[q].version
                      /\ want'[q].add \in Seq(Signed(RoleOf(q)))
                      /\ q \in Creator => /\ snap'[q].owner = q /\ snap'[q].status = "pending_review"
                                          /\ want'[q].status \in {"pending_review", "cancelled"}
    BY DEF Prepared, Signed, RoleOf
  <2>1. CASE q = u
    <3>1. snap'[q] = ev /\ want'[q].version = v /\ want'[q].status = s
          /\ want'[q].add = <<[status |-> s, by |-> RoleOf(u)]>>
      BY <1>1, <2>1 DEF IInv, TypeOK, PatchIncident
    <3>2. /\ u \notin Checker
          /\ u \in Creator => /\ ev.owner = u /\ ev.status = "pending_review"
                              /\ s \in {"pending_review", "cancelled"}
      BY <1>1, ProcAssumption DEF AllowPatch
    <3> QED BY <1>2, <1>4, <2>1, <3>1, <3>2
  <2>2. CASE q # u
    <3>1. Writing(q) /\ snap'[q] = snap[q] /\ want'[q] = want[q]
      BY <1>1, <2>2 DEF IInv, TypeOK, PatchIncident, Writing
    <3> QED BY <3>1 DEF IInv, Prepared, Signed
  <2> QED BY <2>1, <2>2
<1>11. OneTx' /\ TxVersion'
  BY <1>1 DEF IInv, TypeOK, OneTx, TxVersion, InTx, PatchIncident
<1>12. InsertFresh'
  <2> SUFFICES ASSUME NEW q \in Proc, pc'[q] = "insert"
               PROVE  todo'[q] # {} /\ NextKey(q)' \notin keys'
    BY DEF InsertFresh
  <2>1. q # u /\ pc[q] = "insert"
    BY DEF IInv, TypeOK, PatchIncident
  <2>2. todo'[q] = todo[q] /\ snap'[q] = snap[q] /\ want'[q] = want[q] /\ keys' = keys
    BY <1>1, <2>1 DEF IInv, TypeOK, PatchIncident
  <2> QED BY <2>1, <2>2, FreshKept
<1>13. NeverPoisoned'
  BY DEF IInv, TypeOK, NeverPoisoned, PatchIncident
<1> QED BY <1>7, <1>8, <1>9, <1>10, <1>11, <1>12, <1>13 DEF IInv

LEMMA CheckMaintenanceKeeps ==
  ASSUME IInv, NEW k \in Checker, CheckMaintenance(k)
  PROVE  IInv'
<1> USE CheckerRole
<1>1. TypeOK'
  BY DEF IInv, TypeOK, CheckMaintenance
<1>2. Started'
  BY DEF IInv, TypeOK, Started, CheckMaintenance
<1>3. Copied' /\ Prepared'
  <2>1. \A q \in Proc : Writing(q)' => Writing(q) /\ snap'[q] = snap[q] /\ want'[q] = want[q]
    BY DEF IInv, TypeOK, Writing, CheckMaintenance
  <2> QED BY <2>1, PreparedKept DEF IInv, Copied, CheckMaintenance
<1>4. OneTx' /\ TxVersion' /\ NeverPoisoned'
  BY DEF IInv, TypeOK, OneTx, TxVersion, NeverPoisoned, InTx, CheckMaintenance
<1>5. InsertFresh'
  <2> SUFFICES ASSUME NEW q \in Proc, pc'[q] = "insert"
               PROVE  todo'[q] # {} /\ NextKey(q)' \notin keys'
    BY DEF InsertFresh
  <2>1. pc[q] = "insert" /\ todo'[q] = todo[q] /\ snap'[q] = snap[q] /\ want'[q] = want[q]
        /\ keys' = keys
    BY DEF IInv, TypeOK, CheckMaintenance
  <2> QED BY <2>1, FreshKept
<1> QED BY <1>1, <1>2, <1>3, <1>4, <1>5 DEF IInv

LEMMA ProcessMaintenanceKeeps ==
  ASSUME IInv, NEW k \in Checker, ProcessMaintenance(k)
  PROVE  IInv'
<1> USE CheckerRole
<1> DEFINE s == CurrentStatus(ev, now)
<1>1. CASE Done(k)
  <2>1. UNCHANGED <<ev, keys, pruned, now, patches, aborts>>
    BY DEF ProcessMaintenance
  <2> QED BY <1>1, <2>1, DoneKeeps DEF IInv, TypeOK
<1>2. CASE /\ snap' = [snap EXCEPT ![k] = ev]
           /\ want' = [want EXCEPT ![k] = [version |-> ev.version, status |-> s, start |-> ev.start,
                                           end |-> ev.end, add |-> Backfill(ev, s)]]
           /\ pc' = [pc EXCEPT ![k] = "update"]
           /\ UNCHANGED <<todo, ins>>
  <2>1. pc[k] = "refetch" /\ UNCHANGED <<ev, keys, pruned, now, patches, aborts>>
    BY DEF ProcessMaintenance
  <2>2. s \in MaintenanceStatus /\ Backfill(ev, s) \in Seq(Signed("checker"))
    BY CurrentStatusType, BackfillType
  <2>3. Backfill(ev, s) \in Seq(Entry)
    BY <2>2, SignedType DEF Role
  <2>4. ev.version \in Nat /\ ev.start \in Nat /\ ev.end \in Nat
    BY DEF IInv, TypeOK, Event
  <2> HIDE DEF s
  <2>5. want' \in [Proc -> WriteSet]
    <3>1. [version |-> ev.version, status |-> s, start |-> ev.start, end |-> ev.end,
           add |-> Backfill(ev, s)] \in WriteSet
      <4>1. ev.version \in Int
        BY <2>4
      <4> QED BY <2>2, <2>3, <2>4, <4>1 DEF WriteSet
    <3> QED BY <1>2, <3>1 DEF IInv, TypeOK
  <2>6. TypeOK'
    BY <1>2, <2>1, <2>5 DEF IInv, TypeOK
  <2>7. Started'
    BY <1>2, <2>1 DEF IInv, TypeOK, Started
  <2>8. \A q \in Proc : q # k => snap'[q] = snap[q] /\ want'[q] = want[q] /\ pc'[q] = pc[q]
    BY <1>2 DEF IInv, TypeOK
  <2>9. snap'[k] = ev /\ want'[k].version = ev.version /\ want'[k].status = s
        /\ want'[k].add = Backfill(ev, s) /\ pc'[k] = "update"
    BY <1>2 DEF IInv, TypeOK
  <2>10. Copied'
    <3> SUFFICES ASSUME NEW q \in Proc, Writing(q)'
                 PROVE  /\ snap'[q].version <= ev'.version /\ snap'[q].owner = ev'.owner
                        /\ snap'[q].version = ev'.version => snap'[q] = ev'
      BY DEF Copied
    <3>1. CASE q = k
      BY <2>1, <2>4, <2>9, <3>1
    <3>2. CASE q # k
      BY <2>1, <2>8, <3>2 DEF IInv, Copied, Writing
    <3> QED BY <3>1, <3>2
  <2>11. Prepared'
    <3> SUFFICES ASSUME NEW q \in Proc, Writing(q)'
                 PROVE  /\ want'[q].status \in MaintenanceStatus
                        /\ q \in Checker => want'[q].version = snap'[q].version
                        /\ want'[q].add \in Seq(Signed(RoleOf(q)))
                        /\ q \in Creator => /\ snap'[q].owner = q /\ snap'[q].status = "pending_review"
                                            /\ want'[q].status \in {"pending_review", "cancelled"}
      BY DEF Prepared, Signed, RoleOf
    <3>1. CASE q = k
      BY <2>2, <2>4, <2>9, <3>1
    <3>2. CASE q # k
      BY <2>8, <3>2 DEF IInv, Prepared, Writing, Signed
    <3> QED BY <3>1, <3>2
  <2>12. OneTx' /\ TxVersion' /\ NeverPoisoned'
    BY <2>1, <2>8, <2>9 DEF IInv, OneTx, TxVersion, NeverPoisoned, InTx
  <2>13. InsertFresh'
    <3> SUFFICES ASSUME NEW q \in Proc, pc'[q] = "insert"
                 PROVE  todo'[q] # {} /\ NextKey(q)' \notin keys'
      BY DEF InsertFresh
    <3>1. q # k
      BY <2>9
    <3> QED BY <1>2, <2>1, <2>8, <3>1, FreshKept
  <2> QED BY <2>6, <2>7, <2>10, <2>11, <2>12, <2>13 DEF IInv
<1> QED BY <1>1, <1>2 DEF ProcessMaintenance

LEMMA ModifyIncidentKeeps ==
  ASSUME IInv, NEW p \in Proc, ModifyIncident(p)
  PROVE  IInv'
<1>1. CASE Done(p)
  <2>1. UNCHANGED <<ev, keys, pruned, now, patches, aborts>>
    BY DEF ModifyIncident
  <2> QED BY <1>1, <2>1, DoneKeeps DEF IInv, TypeOK
<1>2. CASE /\ ev.version = want[p].version
           /\ pc' = [pc EXCEPT ![p] = "publish"]
           /\ todo' = [todo EXCEPT ![p] = IF want[p].status = snap[p].status THEN {}
                                          ELSE Recipients(want[p].status)]
           /\ UNCHANGED <<snap, want, ins>>
  <2>1. /\ pc[p] = "update" /\ \A q \in Proc : ~InTx(q)
        /\ UNCHANGED <<ev, keys, pruned, now, patches, aborts>>
    BY DEF ModifyIncident
  <2>2. TypeOK'
    BY <1>2, <2>1, RecipientsType DEF IInv, TypeOK
  <2>3. Started'
    BY <1>2, <2>1 DEF IInv, TypeOK, Started
  <2>4. Copied' /\ Prepared'
    <3>1. \A q \in Proc : Writing(q)' => Writing(q) /\ snap'[q] = snap[q] /\ want'[q] = want[q]
      BY <1>2, <2>1 DEF IInv, TypeOK, Writing
    <3> QED BY <2>1, <3>1, PreparedKept DEF IInv, Copied
  <2>5. OneTx' /\ TxVersion' /\ NeverPoisoned'
    BY <1>2, <2>1 DEF IInv, TypeOK, OneTx, TxVersion, NeverPoisoned, InTx
  <2>6. InsertFresh'
    BY <1>2, <2>1 DEF IInv, TypeOK, InsertFresh, InTx
  <2> QED BY <2>2, <2>3, <2>4, <2>5, <2>6 DEF IInv
<1> QED BY <1>1, <1>2 DEF ModifyIncident

LEMMA RowExistsKeeps ==
  ASSUME IInv, NEW p \in Proc, RowExists(p)
  PROVE  IInv'
<1>1. TypeOK'
  BY DEF IInv, TypeOK, RowExists
<1>2. Started'
  BY DEF IInv, TypeOK, Started, RowExists
<1>3. Copied' /\ Prepared'
  <2>1. \A q \in Proc : Writing(q)' => Writing(q) /\ snap'[q] = snap[q] /\ want'[q] = want[q]
    BY DEF IInv, TypeOK, Writing, RowExists
  <2> QED BY <2>1, PreparedKept DEF IInv, Copied, RowExists
<1>4. OneTx' /\ TxVersion' /\ NeverPoisoned'
  BY DEF IInv, TypeOK, OneTx, TxVersion, NeverPoisoned, InTx, RowExists
<1>5. InsertFresh'
  <2> SUFFICES ASSUME NEW q \in Proc, pc'[q] = "insert"
               PROVE  todo'[q] # {} /\ NextKey(q)' \notin keys'
    BY DEF InsertFresh
  <2>1. q = p
    BY DEF IInv, TypeOK, OneTx, InTx, RowExists
  <2>2. todo'[q] = todo[q] /\ snap'[q] = snap[q] /\ want'[q] = want[q] /\ keys' = keys
        /\ todo[q] # {} /\ NextKey(q) \notin keys
    BY <2>1 DEF IInv, TypeOK, RowExists
  <2>3. NextKey(q)' = NextKey(q)
    BY <2>2, NextKeySame
  <2> QED BY <2>2, <2>3
<1> QED BY <1>1, <1>2, <1>3, <1>4, <1>5 DEF IInv

LEMMA EnqueueKeeps ==
  ASSUME IInv, NEW p \in Proc, Enqueue(p)
  PROVE  IInv'
<1>1. pc[p] = "insert" /\ todo[p] # {} /\ NextKey(p) \notin keys
  BY DEF Enqueue, IInv, InsertFresh
<1>2. NextKey(p) \in Key
  BY <1>1, NextKeyType DEF IInv, Writing
<1>3. /\ pc' = [pc EXCEPT ![p] = "publish"]
      /\ todo' = [todo EXCEPT ![p] = @ \ {NextRecipient(p)}]
      /\ ins' = [ins EXCEPT ![p] = @ \cup {NextKey(p)}]
      /\ UNCHANGED <<ev, keys, pruned, now, snap, want, patches, aborts>>
  BY <1>1 DEF Enqueue
<1>4. TypeOK'
  BY <1>2, <1>3 DEF IInv, TypeOK
<1>5. Started'
  BY <1>1, <1>3 DEF IInv, TypeOK, Started
<1>6. Copied' /\ Prepared'
  <2>1. \A q \in Proc : Writing(q)' => Writing(q) /\ snap'[q] = snap[q] /\ want'[q] = want[q]
    BY <1>1, <1>3 DEF IInv, TypeOK, Writing
  <2> QED BY <1>3, <2>1, PreparedKept DEF IInv, Copied
<1>7. OneTx' /\ TxVersion' /\ NeverPoisoned'
  BY <1>1, <1>3 DEF IInv, TypeOK, OneTx, TxVersion, NeverPoisoned, InTx
<1>8. InsertFresh'
  BY <1>1, <1>3 DEF IInv, TypeOK, OneTx, InTx, InsertFresh
<1> QED BY <1>4, <1>5, <1>6, <1>7, <1>8 DEF IInv

(* The commit: the version grows, so every copy that is not the writer's is older. *)
LEMMA CommitKeeps ==
  ASSUME IInv, NEW p \in Proc, Commit(p)
  PROVE  IInv'
<1>1. pc[p] = "publish" /\ Done(p) /\ UNCHANGED <<pruned, now, patches, aborts>>
  BY DEF Commit
<1>2. want[p].version = ev.version
  BY <1>1 DEF IInv, TxVersion, InTx
<1>3. want[p] \in WriteSet /\ want[p].status \in MaintenanceStatus /\ ev \in Event
  BY <1>1 DEF IInv, TypeOK, Prepared, Writing
<1>4. ev' \in Event /\ ev'.version = ev.version + 1 /\ ev'.owner = ev.owner
  <2>1. /\ ev.version \in Nat /\ ev.owner \in User \cup {""} /\ ev.hist \in Seq(Entry)
        /\ want[p].start \in Nat /\ want[p].end \in Nat /\ want[p].add \in Seq(Entry)
    BY <1>3 DEF Event, WriteSet
  <2>2. ev.hist \o want[p].add \in Seq(Entry)
    BY <2>1, HistoryType
  <2>3. ev' = [version |-> ev.version + 1, status |-> want[p].status, owner |-> ev.owner,
               start |-> want[p].start, end |-> want[p].end, hist |-> ev.hist \o want[p].add]
    BY <1>2, <1>3 DEF Commit, Event
  <2>4. \A n \in Nat : n + 1 \in Nat
    OBVIOUS
  <2>5. ev'.owner = ev.owner
    BY <2>3
  <2> QED BY <1>3, <2>1, <2>2, <2>3, <2>4, <2>5, EventType
<1>5. keys' \subseteq Key
  BY DEF Commit, IInv, TypeOK
<1>6. TypeOK'
  <2>1. NoEvent \in Event /\ NoWrite \in WriteSet
    BY DEF NoEvent, NoWrite, Event, WriteSet
  <2> QED BY <1>1, <1>4, <1>5, <2>1 DEF IInv, TypeOK, Done
<1>7. \A q \in Proc : q # p => /\ pc'[q] = pc[q] /\ snap'[q] = snap[q] /\ want'[q] = want[q]
                               /\ ~InTx(q)
  BY <1>1 DEF IInv, TypeOK, Done, OneTx, InTx
<1>8. pc'[p] = "idle" /\ ev.version \in Nat
  BY <1>1 DEF IInv, TypeOK, Done, Event
<1>9. Started'
  BY <1>4, <1>7, <1>8 DEF IInv, Started
<1>10. Copied'
  <2> SUFFICES ASSUME NEW q \in Proc, Writing(q)'
               PROVE  snap'[q].version < ev'.version /\ snap'[q].owner = ev'.owner
    <3>1. ev'.version \in Nat /\ \A q \in Proc : snap'[q].version \in Nat
      BY <1>6 DEF TypeOK, Event
    <3>2. \A a, b \in Nat : a < b => a <= b /\ a # b
      OBVIOUS
    <3> QED BY <3>1, <3>2 DEF Copied
  <2>1. q # p /\ Writing(q)
    BY <1>7, <1>8 DEF Writing
  <2>2. snap[q].version \in Nat /\ snap[q].version <= ev.version /\ snap[q].owner = ev.owner
    BY <2>1 DEF IInv, TypeOK, Event, Copied
  <2> QED BY <1>4, <1>7, <1>8, <2>1, <2>2
<1>11. Prepared'
  <2>1. \A q \in Proc : Writing(q)' => Writing(q) /\ snap'[q] = snap[q] /\ want'[q] = want[q]
    BY <1>7, <1>8 DEF Writing
  <2> QED BY <2>1, PreparedKept
<1>12. OneTx' /\ TxVersion' /\ NeverPoisoned' /\ InsertFresh'
  BY <1>7, <1>8 DEF OneTx, TxVersion, NeverPoisoned, InsertFresh, InTx
<1> QED BY <1>6, <1>9, <1>10, <1>11, <1>12 DEF IInv

LEMMA AbortKeeps ==
  ASSUME IInv, NEW p \in Proc, Abort(p)
  PROVE  IInv'
BY DoneKeeps, ProcAssumption DEF Abort, IInv, TypeOK

LEMMA PruneKeeps ==
  ASSUME IInv, NEW k \in keys, Prune(k)
  PROVE  IInv'
<1>1. TypeOK'
  BY DEF IInv, TypeOK, Prune
<1>2. Started' /\ Copied' /\ Prepared' /\ OneTx' /\ TxVersion' /\ NeverPoisoned'
  BY DEF IInv, Started, Copied, Prepared, OneTx, TxVersion, NeverPoisoned, Writing, InTx, RoleOf,
    Prune
<1>3. InsertFresh'
  <2> SUFFICES ASSUME NEW q \in Proc, pc'[q] = "insert"
               PROVE  todo'[q] # {} /\ NextKey(q)' \notin keys'
    BY DEF InsertFresh
  <2> QED BY FreshKept DEF Prune
<1> QED BY <1>1, <1>2, <1>3 DEF IInv

LEMMA TickKeeps ==
  ASSUME IInv, Tick
  PROVE  IInv'
<1>1. TypeOK'
  BY ProcAssumption DEF IInv, TypeOK, Tick
<1>2. Started' /\ Copied' /\ Prepared' /\ OneTx' /\ TxVersion' /\ NeverPoisoned'
  BY DEF IInv, Started, Copied, Prepared, OneTx, TxVersion, NeverPoisoned, Writing, InTx, RoleOf,
    Tick
<1>3. InsertFresh'
  BY FreshKept DEF InsertFresh, Tick
<1> QED BY <1>1, <1>2, <1>3 DEF IInv

LEMMA StutterKeeps == IInv /\ UNCHANGED vars => IInv'
<1> SUFFICES ASSUME IInv, UNCHANGED vars PROVE IInv'
  OBVIOUS
<1>1. TypeOK'
  BY DEF IInv, TypeOK
<1>2. Started' /\ Copied' /\ Prepared' /\ OneTx' /\ TxVersion' /\ NeverPoisoned'
  BY DEF IInv, Started, Copied, Prepared, OneTx, TxVersion, NeverPoisoned, Writing, InTx, RoleOf
<1>3. InsertFresh'
  BY FreshKept DEF InsertFresh
<1> QED BY <1>1, <1>2, <1>3 DEF IInv

LEMMA InitHolds == Init => IInv
<1> SUFFICES ASSUME Init PROVE IInv
  OBVIOUS
<1>1. NoEvent \in Event /\ NoWrite \in WriteSet
  BY DEF NoEvent, NoWrite, Event, WriteSet
<1>2. TypeOK
  BY <1>1, ProcAssumption DEF Init, TypeOK
<1>3. Started /\ Copied /\ Prepared /\ OneTx /\ TxVersion /\ InsertFresh /\ NeverPoisoned
  BY DEF Init, Started, Copied, Prepared, OneTx, TxVersion, InsertFresh, NeverPoisoned, Writing, InTx
<1> QED BY <1>2, <1>3 DEF IInv

LEMMA NextKeeps == IInv /\ [Next]_vars => IInv'
<1> SUFFICES ASSUME IInv, [Next]_vars PROVE IInv'
  OBVIOUS
<1>1. CASE UNCHANGED vars
  BY <1>1, StutterKeeps
<1>2. ASSUME NEW u \in User, CreateEvent(u) \/ PatchIncident(u)
      PROVE  IInv'
  BY <1>2, CreateEventKeeps, PatchIncidentKeeps
<1>3. ASSUME NEW k \in Checker, CheckMaintenance(k) \/ ProcessMaintenance(k)
      PROVE  IInv'
  BY <1>3, CheckMaintenanceKeeps, ProcessMaintenanceKeeps
<1>4. ASSUME NEW p \in Proc, Transact(p) \/ Abort(p)
      PROVE  IInv'
  BY <1>4, ModifyIncidentKeeps, RowExistsKeeps, EnqueueKeeps, CommitKeeps, AbortKeeps DEF Transact
<1>5. ASSUME NEW k \in keys, Prune(k)
      PROVE  IInv'
  BY <1>5, PruneKeeps
<1>6. CASE Tick
  BY <1>6, TickKeeps
<1> QED BY <1>1, <1>2, <1>3, <1>4, <1>5, <1>6 DEF Next

(* Only two actions write the event, and what a commit adds is signed by its writer. *)
LEMMA CreatorStep ==
  ASSUME IInv, [Next]_vars, ev.version > 0, Len(ev'.hist) > Len(ev.hist),
         ev'.hist[Len(ev'.hist)].by = "creator"
  PROVE  /\ ev.owner \in Creator /\ ev'.status \in {"pending_review", "cancelled"}
         /\ NobodyAhead => ev.status = "pending_review"
<1>1. PICK p \in Proc : Commit(p)
  <2>1. \A u \in User : ~CreateEvent(u)
    <3>1. ev.version # 0
      <4>1. \A n : n = 0 => ~(n > 0)
        OBVIOUS
      <4> QED BY <4>1
    <3> QED BY <3>1 DEF CreateEvent
  <2>2. ev' # ev
    <3>1. Len(ev.hist) \in Nat
      BY LenProperties DEF IInv, TypeOK, Event
    <3>2. \A n \in Nat : ~(n > n)
      OBVIOUS
    <3> QED BY <3>1, <3>2
  <2> QED BY <2>1, <2>2 DEF Next, Transact, PatchIncident, CheckMaintenance, ProcessMaintenance,
    ModifyIncident, RowExists, Enqueue, Abort, Prune, Tick
<1>2. InTx(p) /\ Writing(p) /\ snap[p].owner = ev.owner
  BY <1>1 DEF InTx, Commit, Writing, IInv, Copied
<1>3. want[p].add \in Seq(Signed(RoleOf(p))) /\ ev.hist \in Seq(Entry) /\ ev \in Event
  BY <1>2 DEF IInv, TypeOK, Prepared, Event, Signed
<1>4. ev'.hist = ev.hist \o want[p].add /\ ev'.status = want[p].status
  BY <1>1, <1>3 DEF Commit, Event
<1>5. ev'.hist[Len(ev'.hist)] \in Signed(RoleOf(p))
  <2>1. want[p].add \in Seq(Entry)
    BY <1>3, RoleType, SignedType
  <2>2. /\ Len(want[p].add) \in 1..Len(want[p].add)
        /\ ev'.hist[Len(ev'.hist)] = want[p].add[Len(want[p].add)]
    BY <1>3, <1>4, <2>1, LastOfConcat
  <2> QED BY <1>3, <2>2, ElementOfSeq
<1>6. p \in Creator
  <2>1. RoleOf(p) = "creator"
    BY <1>5 DEF Signed
  <2> QED BY <2>1 DEF RoleOf
<1>7. /\ snap[p].owner = p /\ snap[p].status = "pending_review"
      /\ want[p].status \in {"pending_review", "cancelled"}
  BY <1>2, <1>6 DEF IInv, Prepared
<1>8. NobodyAhead => snap[p] = ev
  BY <1>2, CopyIsRow DEF NobodyAhead
<1> QED BY <1>2, <1>4, <1>6, <1>7, <1>8

-----------------------------------------------------------------------------
(* What is backfilled is backfilled once. *)

(* Where an element of a concatenation comes from. *)
LEMMA ConcatElement ==
  ASSUME NEW S, NEW a \in Seq(S), NEW b \in Seq(S), NEW i \in DOMAIN (a \o b)
  PROVE  \/ i \in DOMAIN a /\ (a \o b)[i] = a[i]
         \/ /\ i \notin DOMAIN a /\ i - Len(a) \in DOMAIN b /\ (a \o b)[i] = b[i - Len(a)]
            /\ i \in Nat /\ Len(a) \in Nat
<1> DEFINE w == a \o b
<1>1. /\ w \in Seq(S) /\ Len(w) = Len(a) + Len(b)
      /\ \A j \in 1..Len(a) + Len(b) : w[j] = IF j <= Len(a) THEN a[j] ELSE b[j - Len(a)]
  BY ConcatProperties
<1>2. /\ Len(a) \in Nat /\ Len(b) \in Nat /\ DOMAIN a = 1..Len(a) /\ DOMAIN b = 1..Len(b)
      /\ i \in 1..Len(a) + Len(b)
  BY <1>1, LenProperties
<1> HIDE DEF w
<1>3. CASE i <= Len(a)
  BY <1>1, <1>2, <1>3 DEF w
<1>4. CASE ~(i <= Len(a))
  <2>1. i - Len(a) \in 1..Len(b) /\ i \notin 1..Len(a)
    BY <1>2, <1>4
  <2> QED BY <1>1, <1>2, <1>4, <2>1 DEF w
<1> QED BY <1>3, <1>4

\* Rows of the checker for statuses of A that the history of e lacks.
Rows(q, e, A) ==
  q \in Seq(Signed("checker")) /\ Owed(q, e) /\ \A i \in DOMAIN q : q[i].status \in A

(* One missed status ... *)
LEMMA MissedOwed ==
  ASSUME NEW e, NEW s \in MaintenanceStatus
  PROVE  Rows(Missed(e, s), e, {s})
<1> DEFINE r == [status |-> s, by |-> "checker"]
<1>1. Missed(e, s) \in Seq(Signed("checker"))
  BY MissedType
<1>2. CASE s \in History(e)
  <2>1. Missed(e, s) = <<>> /\ DOMAIN Missed(e, s) = {}
    BY <1>2 DEF Missed
  <2> QED BY <1>1, <2>1 DEF Rows, Owed
<1>3. CASE s \notin History(e)
  <2>1. Missed(e, s) = <<r>>
    BY <1>3 DEF Missed
  <2>2. DOMAIN Missed(e, s) = {1} /\ Missed(e, s)[1] = r /\ r.status = s
    BY <2>1
  <2> QED BY <1>1, <1>3, <2>2 DEF Rows, Owed
<1> QED BY <1>2, <1>3

(* ... and those of different statuses, one after the other. *)
LEMMA JoinOwed ==
  ASSUME NEW e, NEW A, NEW B, NEW C, NEW a, NEW b, Rows(a, e, A), Rows(b, e, B),
         A \cap B = {}, C = A \cup B
  PROVE  Rows(a \o b, e, C)
<1> DEFINE w == a \o b
<1>1. a \in Seq(Signed("checker")) /\ b \in Seq(Signed("checker"))
  BY DEF Rows
<1>2. w \in Seq(Signed("checker"))
  BY <1>1, ConcatProperties
<1>3. \A i \in DOMAIN w : \/ i \in DOMAIN a /\ w[i] = a[i]
                          \/ /\ i \notin DOMAIN a /\ i - Len(a) \in DOMAIN b /\ w[i] = b[i - Len(a)]
                             /\ i \in Nat /\ Len(a) \in Nat
  BY <1>1, ConcatElement
<1> HIDE DEF w
<1>4. \A i \in DOMAIN w : w[i].status \in C /\ w[i].status \notin History(e)
  BY <1>3 DEF Rows, Owed
<1>5. ASSUME NEW i \in DOMAIN w, NEW j \in DOMAIN w, w[i] = w[j] PROVE i = j
  <2>1. CASE i \in DOMAIN a /\ w[i] = a[i] /\ j \in DOMAIN a /\ w[j] = a[j]
    BY <1>5, <2>1 DEF Rows, Owed
  <2>2. CASE i \in DOMAIN a /\ w[i] = a[i] /\ j - Len(a) \in DOMAIN b /\ w[j] = b[j - Len(a)]
    BY <1>5, <2>2 DEF Rows
  <2>3. CASE j \in DOMAIN a /\ w[j] = a[j] /\ i - Len(a) \in DOMAIN b /\ w[i] = b[i - Len(a)]
    BY <1>5, <2>3 DEF Rows
  <2>4. CASE /\ i - Len(a) \in DOMAIN b /\ w[i] = b[i - Len(a)] /\ i \in Nat /\ Len(a) \in Nat
             /\ j - Len(a) \in DOMAIN b /\ w[j] = b[j - Len(a)] /\ j \in Nat
    <3>1. i - Len(a) = j - Len(a)
      BY <1>5, <2>4 DEF Rows, Owed
    <3> QED BY <2>4, <3>1
  <2> QED BY <1>3, <2>1, <2>2, <2>3, <2>4
<1> QED BY <1>2, <1>4, <1>5 DEF Rows, Owed, w

LEMMA BackfillOwed ==
  ASSUME NEW e, NEW s
  PROVE  Owed(Backfill(e, s), e)
<1> DEFINE a == Missed(e, "planned")  b == Missed(e, "in_progress")  c == Missed(e, "completed")
<1>1. Rows(a, e, {"planned"}) /\ Rows(b, e, {"in_progress"}) /\ Rows(c, e, {"completed"})
  BY MissedOwed DEF MaintenanceStatus
<1>2. Rows(a \o b, e, {"planned", "in_progress"})
  <2> DEFINE A == {"planned"}  B == {"in_progress"}  C == {"planned", "in_progress"}
  <2>1. A \cap B = {} /\ C = A \cup B /\ Rows(a, e, A) /\ Rows(b, e, B)
    BY <1>1
  <2> HIDE DEF A, B, C, a, b
  <2>2. Rows(a \o b, e, C)
    BY <2>1, JoinOwed
  <2> QED BY <2>2 DEF C
<1>3. Rows((a \o b) \o c, e, {"planned", "in_progress", "completed"})
  <2> DEFINE A == {"planned", "in_progress"}  B == {"completed"}  ab == a \o b
             C == {"planned", "in_progress", "completed"}
  <2>1. A \cap B = {} /\ C = A \cup B /\ Rows(ab, e, A) /\ Rows(c, e, B)
    BY <1>1, <1>2
  <2> HIDE DEF A, B, C, ab, c
  <2>2. Rows(ab \o c, e, C)
    BY <2>1, JoinOwed
  <2> QED BY <2>2 DEF C, ab
<1>4. Owed(<<>>, e)
  BY DEF Owed
<1>5. Owed(a, e) /\ Owed(a \o b, e) /\ Owed((a \o b) \o c, e)
  BY <1>1, <1>2, <1>3 DEF Rows
<1> HIDE DEF a, b, c
<1>6. Backfill(e, s) \in {<<>>, a, a \o b, (a \o b) \o c}
  BY DEF Backfill, a, b, c
<1> QED BY <1>4, <1>5, <1>6

(* A step leaves every writer as it was, ends its work or prepares its write. *)
LEMMA Memory ==
  ASSUME IInv, [Next]_vars, NEW q \in Proc, Writing(q)'
  PROVE  \/ Writing(q) /\ snap'[q] = snap[q] /\ want'[q] = want[q]
         \/ q \in User
         \/ snap'[q] = ev /\ want'[q].add = Backfill(ev, want'[q].status)
<1>0. TypeOK
  BY DEF IInv
<1>1. ASSUME NEW p \in Proc, Done(p) PROVE Writing(q) /\ snap'[q] = snap[q] /\ want'[q] = want[q]
  BY <1>0, <1>1 DEF TypeOK, Done, Writing
<1>2. ASSUME NEW u \in User, CreateEvent(u) \/ PatchIncident(u)
      PROVE  q \in User \/ (Writing(q) /\ snap'[q] = snap[q] /\ want'[q] = want[q])
  BY <1>0, <1>2, UserProc DEF TypeOK, CreateEvent, PatchIncident, Writing
<1>3. ASSUME NEW k \in Checker, CheckMaintenance(k)
      PROVE  Writing(q) /\ snap'[q] = snap[q] /\ want'[q] = want[q]
  BY <1>0, <1>3, CheckerRole DEF TypeOK, CheckMaintenance, Writing
<1>4. ASSUME NEW k \in Checker, ProcessMaintenance(k), ~Done(k)
      PROVE  \/ Writing(q) /\ snap'[q] = snap[q] /\ want'[q] = want[q]
             \/ snap'[q] = ev /\ want'[q].add = Backfill(ev, want'[q].status)
  <2> DEFINE s == CurrentStatus(ev, now)
  <2>1. /\ snap' = [snap EXCEPT ![k] = ev] /\ pc' = [pc EXCEPT ![k] = "update"]
        /\ want' = [want EXCEPT ![k] = [version |-> ev.version, status |-> s, start |-> ev.start,
                                        end |-> ev.end, add |-> Backfill(ev, s)]]
    BY <1>4 DEF ProcessMaintenance
  <2> HIDE DEF s
  <2> QED BY <1>0, <2>1, CheckerRole DEF TypeOK, Writing
<1>5. ASSUME NEW p \in Proc, RowExists(p) \/ Enqueue(p) \/ (ModifyIncident(p) /\ ~Done(p))
      PROVE  Writing(q) /\ snap'[q] = snap[q] /\ want'[q] = want[q]
  BY <1>0, <1>5 DEF TypeOK, RowExists, Enqueue, ModifyIncident, Writing
<1>6. ASSUME (\E k \in keys : Prune(k)) \/ Tick \/ UNCHANGED vars
      PROVE  Writing(q) /\ snap'[q] = snap[q] /\ want'[q] = want[q]
  BY <1>6 DEF Prune, Tick, Writing
<1>7. ASSUME NEW p \in Proc, Commit(p) \/ Abort(p) PROVE Done(p)
  BY <1>7 DEF Commit, Abort
<1> QED BY <1>1, <1>2, <1>3, <1>4, <1>5, <1>6, <1>7, CheckerRole DEF Next, Transact

(* The event as createEvent leaves it. *)
LEMMA Created ==
  ASSUME NEW u, CreateEvent(u)
  PROVE  /\ ev'.version # 0 /\ ev'.status = CreateStatus(u)
         /\ ev'.hist = <<[status |-> CreateStatus(u), by |-> RoleOf(u)]>>
<1>1. PICK w \in Windows :
        ev' = [version |-> 2, status |-> CreateStatus(u), owner |-> u, start |-> w[1], end |-> w[2],
               hist |-> <<[status |-> CreateStatus(u), by |-> RoleOf(u)]>>]
  BY DEF CreateEvent
<1>2. ev'.version = 2
  BY <1>1
<1> QED BY <1>1, <1>2

(* Only the creation and a commit write the event. *)
LEMMA EventSteps ==
  ASSUME [Next]_vars
  PROVE  \/ ev' = ev
         \/ \E u \in User : CreateEvent(u)
         \/ \E p \in Proc : Commit(p)
BY DEF Next, Transact, PatchIncident, CheckMaintenance, ProcessMaintenance, ModifyIncident, RowExists,
  Enqueue, Abort, Prune, Tick

LEMMA HistoryKept == IInv /\ HistoryInv /\ [Next]_vars => HistoryInv'
<1> SUFFICES ASSUME IInv, HistoryInv, [Next]_vars PROVE HistoryInv'
  OBVIOUS
<1>1. Backfilled'
  <2> SUFFICES ASSUME NEW k \in Checker, Writing(k)' PROVE Owed(want'[k].add, snap'[k])
    BY DEF Backfilled, Owed, History
  <2>1. k \in Proc /\ k \notin User
    BY CheckerRole, ProcAssumption
  <2>2. CASE Writing(k) /\ snap'[k] = snap[k] /\ want'[k] = want[k]
    BY <2>2 DEF HistoryInv, Backfilled
  <2>3. CASE snap'[k] = ev /\ want'[k].add = Backfill(ev, want'[k].status)
    BY <2>3, BackfillOwed
  <2> QED BY <2>1, <2>2, <2>3, Memory
<1>2. BackfillOnce'
  <2>1. CASE ev' = ev
    BY <2>1 DEF HistoryInv, BackfillOnce
  <2>2. ASSUME NEW u \in User, CreateEvent(u) PROVE BackfillOnce'
    <3>1. ev'.hist = <<[status |-> CreateStatus(u), by |-> RoleOf(u)]>>
      BY <2>2, Created
    <3>2. DOMAIN ev'.hist = {1}
      BY <3>1
    <3> QED BY <3>2 DEF BackfillOnce
  <2>3. ASSUME NEW p \in Proc, Commit(p) PROVE BackfillOnce'
    <3> DEFINE h == ev.hist  a == want[p].add  w == h \o a
    <3>1. Writing(p) /\ (p \in Checker => snap[p] = ev)
      BY <2>3, CheckerCopy DEF InTx, Commit, Writing
    <3>2. /\ a \in Seq(Signed(RoleOf(p))) /\ h \in Seq(Entry) /\ ev \in Event
      BY <3>1 DEF IInv, TypeOK, Prepared, Event, Signed
    <3>3. ev'.hist = w
      BY <2>3, <3>2 DEF Commit, Event
    <3>4. a \in Seq(Entry)
      BY <3>2, RoleType, SignedType
    <3>5. \A i \in DOMAIN w : \/ i \in DOMAIN h /\ w[i] = h[i]
                              \/ /\ i \notin DOMAIN h /\ i - Len(h) \in DOMAIN a /\ w[i] = a[i - Len(h)]
                                 /\ i \in Nat /\ Len(h) \in Nat
      BY <3>2, <3>4, ConcatElement
    <3>6. \A i \in DOMAIN a : a[i].by = RoleOf(p)
      <4>1. \A i \in DOMAIN a : a[i] \in Signed(RoleOf(p))
        <5> HIDE DEF a
        <5> QED BY <3>2, ElementOfSeq, LenProperties
      <4> QED BY <4>1 DEF Signed
    <3>7. p \in Checker \/ RoleOf(p) # "checker"
      BY DEF RoleOf, Proc, User
    <3>8. p \in Checker => Owed(a, ev)
      BY <3>1 DEF HistoryInv, Backfilled
    <3>9. \A i \in DOMAIN h : h[i].status \in History(ev)
      BY DEF History
    <3> HIDE DEF w, a, h
    <3>10. ASSUME NEW i \in DOMAIN w, NEW j \in DOMAIN w, w[i] = w[j], w[i].by = "checker"
           PROVE  i = j
      <4>1. CASE i \in DOMAIN h /\ w[i] = h[i] /\ j \in DOMAIN h /\ w[j] = h[j]
        BY <3>10, <4>1 DEF HistoryInv, BackfillOnce, h
      <4>2. CASE i \in DOMAIN h /\ w[i] = h[i] /\ j - Len(h) \in DOMAIN a /\ w[j] = a[j - Len(h)]
        BY <3>6, <3>7, <3>8, <3>9, <3>10, <4>2 DEF Owed
      <4>3. CASE j \in DOMAIN h /\ w[j] = h[j] /\ i - Len(h) \in DOMAIN a /\ w[i] = a[i - Len(h)]
        BY <3>6, <3>7, <3>8, <3>9, <3>10, <4>3 DEF Owed
      <4>4. CASE /\ i - Len(h) \in DOMAIN a /\ w[i] = a[i - Len(h)] /\ i \in Nat /\ Len(h) \in Nat
                 /\ j - Len(h) \in DOMAIN a /\ w[j] = a[j - Len(h)] /\ j \in Nat
        <5>1. p \in Checker
          BY <3>6, <3>7, <3>10, <4>4
        <5>2. i - Len(h) = j - Len(h)
          BY <3>8, <3>10, <4>4, <5>1 DEF Owed
        <5> QED BY <4>4, <5>2
      <4> QED BY <3>5, <4>1, <4>2, <4>3, <4>4
    <3> QED BY <3>3, <3>10 DEF BackfillOnce
  <2> QED BY <2>1, <2>2, <2>3, EventSteps
<1> QED BY <1>1, <1>2 DEF HistoryInv

-----------------------------------------------------------------------------
(* Outbox rows and transitions. *)

\* Published for one transaction.
PublishedBy(p) ==
  /\ want[p].status = snap[p].status => todo[p] = {} /\ ins[p] = {}
  /\ want[p].status # snap[p].status =>
       \A r \in Recipients(want[p].status) \ todo[p] :
         DedupKey(snap[p].status, want[p].status, r) \in keys \cup ins[p] \cup pruned
  /\ \A x \in ins[p] : \E r \in Recipient : x = DedupKey(snap[p].status, want[p].status, r)

(* A transaction that a step does not advance loses no row but to retention. *)
LEMMA PublishedKept ==
  ASSUME NEW q \in Proc, PublishedBy(q), snap'[q] = snap[q], want'[q] = want[q],
         todo'[q] = todo[q], ins'[q] = ins[q], keys \cup pruned \subseteq keys' \cup pruned'
  PROVE  PublishedBy(q)'
BY DEF PublishedBy, Recipients, DedupKey

LEMMA DoneOutside ==
  ASSUME IInv, RowsInv, NEW p \in Proc, Done(p), keys \cup pruned \subseteq keys' \cup pruned',
         ev'.version = 0 => ev'.status = ""
  PROVE  RowsInv'
<1>1. TypeOK
  BY DEF IInv
<1>2. Outside'
  BY <1>1 DEF RowsInv, Outside, InTx, Done, TypeOK
<1>3. ASSUME NEW q \in Proc, InTx(q)' PROVE PublishedBy(q)'
  <2>1. /\ InTx(q) /\ snap'[q] = snap[q] /\ want'[q] = want[q] /\ todo'[q] = todo[q]
        /\ ins'[q] = ins[q]
    BY <1>1, <1>3 DEF TypeOK, Done, InTx
  <2>2. PublishedBy(q)
    BY <2>1 DEF RowsInv, Published, PublishedBy
  <2> QED BY <2>1, <2>2, PublishedKept
<1> QED BY <1>2, <1>3 DEF RowsInv, Published, PublishedBy

LEMMA CommitRows ==
  ASSUME IInv, RowsInv, NEW p \in Proc, Commit(p)
  PROVE  RowsInv'
<1>1. Done(p) /\ keys \cup pruned \subseteq keys' \cup pruned'
  BY DEF Commit
<1>2. ev \in Event /\ ev'.version = want[p].version + 1 /\ want[p].version \in Nat
  BY DEF Commit, IInv, TypeOK, Event, TxVersion, InTx
<1>3. ev'.version # 0
  BY <1>2
<1> QED BY <1>1, <1>3, DoneOutside

LEMMA ModifyIncidentRows ==
  ASSUME IInv, RowsInv, NEW p \in Proc, ModifyIncident(p)
  PROVE  RowsInv'
<1>0. TypeOK /\ UNCHANGED <<ev, keys, pruned>>
  BY DEF IInv, ModifyIncident
<1>1. CASE Done(p)
  BY <1>0, <1>1, DoneOutside DEF RowsInv, Outside
<1>2. CASE ~Done(p)
  <2>1. /\ pc[p] = "update" /\ pc' = [pc EXCEPT ![p] = "publish"] /\ UNCHANGED <<snap, want, ins>>
        /\ todo' = [todo EXCEPT ![p] = IF want[p].status = snap[p].status THEN {}
                                       ELSE Recipients(want[p].status)]
    BY <1>2 DEF ModifyIncident
  <2>2. ins[p] = {}
    BY <2>1 DEF RowsInv, Outside, InTx
  <2>3. todo'[p] = IF want[p].status = snap[p].status THEN {} ELSE Recipients(want[p].status)
    BY <1>0, <2>1 DEF TypeOK
  <2>4. PublishedBy(p)'
    <3>1. Recipients(want[p].status)' = Recipients(want[p].status)
      BY <2>1 DEF Recipients
    <3> QED BY <2>1, <2>2, <2>3, <3>1 DEF PublishedBy
  <2>5. ASSUME NEW q \in Proc, InTx(q)', q # p PROVE PublishedBy(q)'
    <3>1. InTx(q) /\ todo'[q] = todo[q]
      BY <1>0, <2>1, <2>5 DEF TypeOK, InTx
    <3> QED BY <1>0, <2>1, <3>1, PublishedKept DEF RowsInv, Published, PublishedBy
  <2>6. Outside'
    BY <1>0, <2>1 DEF RowsInv, Outside, InTx, TypeOK
  <2> QED BY <2>4, <2>5, <2>6 DEF RowsInv, Published, PublishedBy
<1> QED BY <1>1, <1>2

LEMMA RowExistsRows ==
  ASSUME IInv, RowsInv, NEW p \in Proc, RowExists(p)
  PROVE  RowsInv'
<1> DEFINE r == NextRecipient(p)
<1>0. /\ TypeOK /\ UNCHANGED <<ev, keys, pruned, snap, want, ins>>
      /\ pc[p] = "publish" /\ todo[p] # {}
  BY DEF IInv, RowExists
<1>1. \A q \in Proc : /\ q # p => todo'[q] = todo[q]
                      /\ InTx(q)' <=> InTx(q)
  BY <1>0 DEF RowExists, InTx, TypeOK
<1>2. PublishedBy(p)'
  <2>1. PublishedBy(p)
    BY <1>0 DEF RowsInv, Published, PublishedBy, InTx
  <2>2. CASE todo'[p] = todo[p]
    BY <1>0, <2>1, <2>2, PublishedKept
  <2>3. CASE todo'[p] # todo[p]
    <3>1. todo'[p] = todo[p] \ {r} /\ DedupKey(snap[p].status, want[p].status, r) \in keys \cup ins[p]
      BY <1>0, <2>3 DEF RowExists, NextKey, TypeOK
    <3> HIDE DEF r
    <3> QED BY <1>0, <2>1, <3>1 DEF PublishedBy, Recipients, DedupKey
  <2> QED BY <2>2, <2>3
<1>3. ASSUME NEW q \in Proc, InTx(q)', q # p PROVE PublishedBy(q)'
  BY <1>0, <1>1, <1>3, PublishedKept DEF RowsInv, Published, PublishedBy
<1>4. Outside'
  BY <1>0, <1>1 DEF RowsInv, Outside
<1> QED BY <1>2, <1>3, <1>4 DEF RowsInv, Published, PublishedBy

LEMMA EnqueueRows ==
  ASSUME IInv, RowsInv, NEW p \in Proc, Enqueue(p)
  PROVE  RowsInv'
<1> DEFINE r == NextRecipient(p)
<1>0. TypeOK /\ UNCHANGED <<ev, keys, pruned, snap, want>> /\ pc[p] = "insert"
  BY DEF IInv, Enqueue
<1>1. \A q \in Proc : /\ q # p => todo'[q] = todo[q] /\ ins'[q] = ins[q]
                      /\ InTx(q)' <=> InTx(q)
  BY <1>0 DEF Enqueue, InTx, TypeOK
<1>2. PublishedBy(p)'
  <2>1. PublishedBy(p)
    BY <1>0 DEF RowsInv, Published, PublishedBy, InTx
  <2>2. todo[p] # {} /\ NextKey(p) \notin keys
    BY <1>0 DEF IInv, InsertFresh
  <2>3. r \in todo[p] /\ r \in Recipient
    BY <1>0, <2>2, NextRecipientType DEF TypeOK
  <2>4. /\ todo'[p] = todo[p] \ {r}
        /\ ins'[p] = ins[p] \cup {DedupKey(snap[p].status, want[p].status, r)}
    BY <1>0, <2>2 DEF Enqueue, NextKey, TypeOK
  <2> HIDE DEF r
  <2>5. want[p].status # snap[p].status
    BY <2>1, <2>2 DEF PublishedBy
  <2> QED BY <1>0, <2>1, <2>3, <2>4, <2>5 DEF PublishedBy, Recipients, DedupKey
<1>3. ASSUME NEW q \in Proc, InTx(q)', q # p PROVE PublishedBy(q)'
  BY <1>0, <1>1, <1>3, PublishedKept DEF RowsInv, Published, PublishedBy
<1>4. Outside'
  BY <1>0, <1>1 DEF RowsInv, Outside, InTx
<1> QED BY <1>2, <1>3, <1>4 DEF RowsInv, Published, PublishedBy

(* Steps outside the transactions. *)
LEMMA OtherRows ==
  ASSUME IInv, RowsInv, UNCHANGED <<todo, ins>>,
         \A q \in Proc : InTx(q)' => InTx(q) /\ snap'[q] = snap[q] /\ want'[q] = want[q],
         \A q \in Proc : InTx(q) => InTx(q)',
         keys \cup pruned \subseteq keys' \cup pruned', ev'.version = 0 => ev'.status = ""
  PROVE  RowsInv'
<1>1. ASSUME NEW q \in Proc, InTx(q)' PROVE PublishedBy(q)'
  BY <1>1, PublishedKept DEF RowsInv, Published, PublishedBy
<1>2. Outside'
  BY DEF RowsInv, Outside
<1> QED BY <1>1, <1>2 DEF RowsInv, Published, PublishedBy

LEMMA RowsKept == IInv /\ RowsInv /\ [Next]_vars => RowsInv'
<1> SUFFICES ASSUME IInv, RowsInv, [Next]_vars PROVE RowsInv'
  OBVIOUS
<1>0. TypeOK /\ (ev.version = 0 => ev.status = "")
  BY DEF IInv, RowsInv, Outside
<1>1. ASSUME NEW u \in User, CreateEvent(u) PROVE RowsInv'
  <2>1. \A q \in Proc : ~InTx(q) /\ ~InTx(q)'
    <3>1. ev.version = 0 /\ UNCHANGED pc
      BY <1>1 DEF CreateEvent
    <3>2. ~(0 > 0)
      OBVIOUS
    <3> QED BY <3>1, <3>2 DEF IInv, Started, InTx
  <2>2. ev'.version # 0 /\ UNCHANGED <<todo, ins>>
    BY <1>1, Created DEF CreateEvent
  <2>3. Outside'
    BY <2>1, <2>2 DEF RowsInv, Outside
  <2> QED BY <2>1, <2>3 DEF RowsInv, Published
<1>2. ASSUME NEW u \in User, PatchIncident(u) PROVE RowsInv'
  <2>1. UNCHANGED <<ev, keys, pruned, todo, ins>> /\ pc[u] = "idle" /\ u \in Proc
    BY <1>2, UserProc DEF PatchIncident
  <2>2. \A q \in Proc : /\ InTx(q)' => InTx(q) /\ snap'[q] = snap[q] /\ want'[q] = want[q]
                        /\ InTx(q) => InTx(q)'
    BY <1>0, <1>2, <2>1 DEF PatchIncident, TypeOK, InTx
  <2> QED BY <1>0, <2>1, <2>2, OtherRows
<1>3. ASSUME NEW k \in Checker, CheckMaintenance(k) PROVE RowsInv'
  <2>1. UNCHANGED <<ev, keys, pruned, todo, ins>> /\ pc[k] = "idle" /\ k \in Proc
    BY <1>3, CheckerRole DEF CheckMaintenance
  <2>2. \A q \in Proc : /\ InTx(q)' => InTx(q) /\ snap'[q] = snap[q] /\ want'[q] = want[q]
                        /\ InTx(q) => InTx(q)'
    BY <1>0, <1>3, <2>1 DEF CheckMaintenance, TypeOK, InTx
  <2> QED BY <1>0, <2>1, <2>2, OtherRows
<1>4. ASSUME NEW k \in Checker, ProcessMaintenance(k) PROVE RowsInv'
  <2>1. UNCHANGED <<ev, keys, pruned>> /\ pc[k] = "refetch" /\ k \in Proc
    BY <1>4, CheckerRole DEF ProcessMaintenance
  <2>2. CASE Done(k)
    BY <1>0, <2>1, <2>2, DoneOutside
  <2>3. CASE ~Done(k)
    <3>1. \A q \in Proc : /\ InTx(q)' => InTx(q) /\ snap'[q] = snap[q] /\ want'[q] = want[q]
                          /\ InTx(q) => InTx(q)'
      BY <1>0, <1>4, <2>1, <2>3 DEF ProcessMaintenance, TypeOK, InTx
    <3>2. UNCHANGED <<todo, ins>>
      BY <1>4, <2>3 DEF ProcessMaintenance
    <3> QED BY <1>0, <2>1, <3>1, <3>2, OtherRows
  <2> QED BY <2>2, <2>3
<1>5. ASSUME NEW p \in Proc, Abort(p) PROVE RowsInv'
  <2>1. UNCHANGED <<ev, keys, pruned>> /\ Done(p)
    BY <1>5 DEF Abort
  <2> QED BY <1>0, <2>1, DoneOutside
<1>6. ASSUME (\E k \in keys : Prune(k)) \/ Tick \/ UNCHANGED vars PROVE RowsInv'
  <2>1. UNCHANGED <<ev, pc, snap, want, todo, ins>> /\ keys \cup pruned \subseteq keys' \cup pruned'
    BY <1>6 DEF Prune, Tick
  <2>2. \A q \in Proc : /\ InTx(q)' => InTx(q) /\ snap'[q] = snap[q] /\ want'[q] = want[q]
                        /\ InTx(q) => InTx(q)'
    BY <2>1 DEF InTx
  <2> QED BY <1>0, <2>1, <2>2, OtherRows
<1> QED BY <1>1, <1>2, <1>3, <1>4, <1>5, <1>6, CommitRows, ModifyIncidentRows, RowExistsRows, EnqueueRows
  DEF Next, Transact

\* The step formula of RowsMatchTransitions.
RowsStep ==
  /\ NobodyAhead /\ ev'.status # ev.status =>
       \A r \in Recipients(ev'.status) : DedupKey(ev.status, ev'.status, r) \in keys' \cup pruned
  /\ \A k \in keys' \ keys :
       /\ k[2] = ev'.status /\ k[1] # k[2]
       /\ NobodyAhead => k[1] = ev.status

LEMMA EveryStepMatches ==
  ASSUME IInv, RowsInv, [Next]_vars
  PROVE  RowsStep
<1>1. ASSUME NEW u \in User, CreateEvent(u) PROVE RowsStep
  <2>1. ev.status = "" /\ CreateStatus(u) # "" /\ ev'.status = CreateStatus(u)
        /\ keys' = {DedupKey("", CreateStatus(u), r) : r \in Recipients(CreateStatus(u))}
    BY <1>1, Created DEF CreateEvent, RowsInv, Outside, CreateStatus
  <2> DEFINE s == CreateStatus(u)
  <2>2. \A k \in keys' : \E r \in Recipients(s) : k = <<"", s, r>>
    BY <2>1 DEF DedupKey
  <2>3. \A r \in Recipients(s) : DedupKey(ev.status, s, r) \in keys'
    BY <2>1
  <2> HIDE DEF s
  <2>4. ASSUME NEW k \in keys' PROVE k[1] = "" /\ k[2] = s
    <3>1. PICK r \in Recipients(s) : k = <<"", s, r>>
      BY <2>2
    <3> HIDE <2>2
    <3> QED BY <3>1
  <2> QED BY <2>1, <2>3, <2>4 DEF RowsStep, s
<1>2. ASSUME NEW p \in Proc, Commit(p) PROVE RowsStep
  <2>1. InTx(p) /\ (NobodyAhead => snap[p] = ev) /\ todo[p] = {}
    BY <1>2, CopyIsRow DEF Commit, InTx, NobodyAhead
  <2>2. PublishedBy(p)
    BY <2>1 DEF RowsInv, Published, PublishedBy
  <2>3. ev'.status = want[p].status /\ keys' = keys \cup ins[p]
    BY <1>2 DEF Commit, IInv, TypeOK, Event
  <2>4. ASSUME NEW k \in ins[p]
        PROVE  k[1] = snap[p].status /\ k[2] = want[p].status /\ k[1] # k[2]
    <3>1. PICK r \in Recipient : k = <<snap[p].status, want[p].status, r>>
      BY <2>2 DEF PublishedBy, DedupKey
    <3>2. want[p].status # snap[p].status
      BY <2>2, <2>4 DEF PublishedBy
    <3>3. k[1] = snap[p].status /\ k[2] = want[p].status
      BY ONLY <3>1
    <3> QED BY <3>2, <3>3
  <2> HIDE DEF NobodyAhead
  <2>5. CASE NobodyAhead
    BY <2>1, <2>2, <2>3, <2>4, <2>5 DEF RowsStep, PublishedBy
  <2>6. CASE ~NobodyAhead
    BY <2>3, <2>4, <2>6 DEF RowsStep
  <2> QED BY <2>5, <2>6
<1>3. ASSUME ev' = ev, keys' \subseteq keys PROVE RowsStep
  BY <1>3 DEF RowsStep
<1>4. \/ ev' = ev /\ keys' \subseteq keys
      \/ \E u \in User : CreateEvent(u)
      \/ \E p \in Proc : Commit(p)
  BY DEF Next, Transact, PatchIncident, CheckMaintenance, ProcessMaintenance, ModifyIncident, RowExists,
    Enqueue, Abort, Prune, Tick
<1> QED BY <1>1, <1>2, <1>3, <1>4

-----------------------------------------------------------------------------

(* The inductive invariant holds in every reachable state. *)
THEOREM InvariantHolds == Spec => []IInv
BY InitHolds, NextKeeps, PTL DEF Spec

(* The event, the copies, the prepared writes and the outbox keys keep their types. *)
THEOREM TypeCorrect == Spec => []TypeOK
<1>1. IInv => TypeOK
  BY DEF IInv
<1> QED BY <1>1, InvariantHolds, PTL

(* Every write that reaches modifyIncident's row replaces exactly the row its *)
(* author read, for any number of concurrent users and checkers, unless the   *)
(* client sent a version newer than that row's.                               *)
THEOREM NoUpdateIsLost == Spec => []NoLostUpdate
<1>1. IInv => NoLostUpdate
  BY CopyIsRow DEF NoLostUpdate
<1> QED BY <1>1, InvariantHolds, PTL

(* The unique index on dedup_key never aborts a business transaction (Enqueue). *)
THEOREM NoTransactionPoisoned == Spec => []NeverPoisoned
<1>1. IInv => NeverPoisoned
  BY DEF IInv
<1> QED BY <1>1, InvariantHolds, PTL

(* A creator's write changes only an event of a creator and leaves it in review  *)
(* or cancelled, for every version a client may send; and the permission checked *)
(* on the copy (allowMaintenancePatchAsCreator) still holds at the commit unless *)
(* the version sent was newer than the copy's.                                   *)
THEOREM CreatorStaysConfined == Spec => CreatorConfined
<1>1. IInv /\ [Next]_vars =>
        [LET n == Len(ev'.hist)
         IN (ev.version > 0 /\ n > Len(ev.hist) /\ ev'.hist[n].by = "creator")
              => /\ ev.owner \in Creator /\ ev'.status \in {"pending_review", "cancelled"}
                 /\ NobodyAhead => ev.status = "pending_review"]_vars
  BY CreatorStep
<1> QED BY <1>1, InvariantHolds, PTL DEF Spec, CreatorConfined

(* However many checkers run, overlap or repeat a round, no status is backfilled *)
(* twice: only the version in the UPDATE keeps a second one out.                 *)
THEOREM NothingBackfilledTwice == Spec => []BackfillOnce
<1>1. Init => HistoryInv
  <2> SUFFICES ASSUME Init PROVE HistoryInv
    OBVIOUS
  <2>1. DOMAIN ev.hist = {}
    <3>1. ev.hist = <<>>
      BY DEF Init, NoEvent
    <3>2. DOMAIN <<>> = {}
      OBVIOUS
    <3> QED BY <3>1, <3>2
  <2>2. \A k \in Checker : ~Writing(k)
    BY CheckerRole DEF Init, Writing
  <2> QED BY <2>1, <2>2 DEF HistoryInv, BackfillOnce, Backfilled
<1>2. HistoryInv => BackfillOnce
  BY DEF HistoryInv
<1> QED BY <1>1, <1>2, HistoryKept, InvariantHolds, PTL DEF Spec

(* Every status transition leaves a row for each of its recipients, and no row *)
(* is there without one: PublishTx runs in the transaction of the change.  The *)
(* old status in it is the row's unless the writer's client was ahead.         *)
THEOREM RowsAreTransitions == Spec => RowsMatchTransitions
<1>1. Init => RowsInv
  <2> SUFFICES ASSUME Init PROVE RowsInv
    OBVIOUS
  <2>1. \A p \in Proc : ~InTx(p) /\ ins[p] = {}
    BY DEF Init, InTx
  <2>2. ev.status = ""
    BY DEF Init, NoEvent
  <2> QED BY <2>1, <2>2 DEF RowsInv, Published, Outside
<1>2. IInv /\ RowsInv /\ [Next]_vars => [RowsStep]_vars
  BY EveryStepMatches
<1>3. Spec => [][RowsStep]_vars
  BY <1>1, <1>2, RowsKept, InvariantHolds, PTL DEF Spec
<1> QED BY <1>3 DEF RowsMatchTransitions, RowsStep

=============================================================================
