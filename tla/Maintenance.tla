---------------------------- MODULE Maintenance ----------------------------
(***************************************************************************)
(* One maintenance event and everybody who writes it: operators and its    *)
(* creator through PATCH /v2/events/:id (internal/api/v2/v2.go), and the   *)
(* background checker of each replica (internal/checker/maintenance.go).   *)
(*                                                                         *)
(* Every writer works from a copy of the row it read earlier, outside any  *)
(* transaction, and then opens one that updates the row under its version  *)
(* (modifyIncident), inserts one outbox row per recipient (PublishTx,      *)
(* Enqueue) and commits.  PostgreSQL runs at READ COMMITTED: the UPDATE    *)
(* waits for the row lock and judges the version of the row it then finds; *)
(* other sessions see nothing of a transaction before it commits.          *)
(*                                                                         *)
(* The advisory lock of the scan task is not modelled: it is lost with the *)
(* session that holds it while the round goes on, so nothing here may rest *)
(* on there being one checker.                                             *)
(***************************************************************************)
EXTENDS Integers, Sequences, FiniteSets

CONSTANTS
  Operator, Creator,  \* API users by role
  Checker,            \* replicas running a scan round
  ReviewAudience,     \* configured recipients of review mails
  Contact,            \* the event's contact address (none or one)
  Windows,            \* <<start_date, end_date>> pairs of new events, and
  PatchWindows,       \* of PATCH requests, where nothing orders the two
  PatchStatus,        \* bound: statuses operators send
  ClientVersions,     \* bound: versions clients send; the code takes any integer
  MaxTime,            \* bound: the clock
  MaxPatches,         \* bound: PATCH requests
  MaxAborts           \* bound: rolled back requests and rounds

User == Operator \cup Creator
Proc == User \cup Checker
Recipient == ReviewAudience \cup Contact
MaintenanceStatus == {"pending_review", "reviewed", "planned", "modified",
                      "in_progress", "completed", "cancelled"}
Role == {"operator", "creator", "checker"}

ASSUME ProcAssumption ==
  /\ Operator \cap Creator = {} /\ User \cap Checker = {}
  /\ PatchStatus \subseteq MaintenanceStatus /\ ClientVersions \subseteq Int
  /\ MaxTime \in Nat /\ MaxPatches \in Nat /\ MaxAborts \in Nat
  /\ Windows \subseteq {w \in Nat \X Nat : w[1] < w[2]} /\ PatchWindows \subseteq Nat \X Nat

VARIABLES
  ev,       \* the committed event: row and status history
  keys,     \* dedup keys of the committed outbox rows,
  pruned,   \* history: and of the rows retention has deleted
  now,
  pc, snap, \* a writer: its control state and the copy it read,
  want,     \* the write it prepared,
  todo, ins,\* recipients still to enqueue, keys its transaction inserted
  patches, aborts

vars == <<ev, keys, pruned, now, pc, snap, want, todo, ins, patches, aborts>>

\* No event yet; the status before creation is the empty string.
NoEvent == [version |-> 0, status |-> "", owner |-> "", start |-> 0, end |-> 0, hist |-> <<>>]
NoWrite == [version |-> 0, status |-> "", start |-> 0, end |-> 0, add |-> <<>>]

Entry == [status : MaintenanceStatus, by : Role]
Event == [version : Nat, status : MaintenanceStatus \cup {""}, owner : User \cup {""},
          start : Nat, end : Nat, hist : Seq(Entry)]
WriteSet == [version : Int, status : MaintenanceStatus \cup {""}, start : Nat, end : Nat,
             add : Seq(Entry)]
Key == (MaintenanceStatus \cup {""}) \X MaintenanceStatus \X Recipient

TypeOK ==
  /\ ev \in Event
  /\ keys \subseteq Key /\ pruned \subseteq Key
  /\ now \in 0..MaxTime
  /\ pc \in [Proc -> {"idle", "refetch", "update", "publish", "insert", "poisoned"}]
  /\ snap \in [Proc -> Event]
  /\ want \in [Proc -> WriteSet]
  /\ todo \in [Proc -> SUBSET Recipient]
  /\ ins \in [Proc -> SUBSET Key]
  /\ patches \in 0..MaxPatches /\ aborts \in 0..MaxAborts

Init ==
  /\ ev = NoEvent /\ keys = {} /\ pruned = {} /\ now = 0
  /\ pc = [p \in Proc |-> "idle"]
  /\ snap = [p \in Proc |-> NoEvent]
  /\ want = [p \in Proc |-> NoWrite]
  /\ todo = [p \in Proc |-> {}]
  /\ ins = [p \in Proc |-> {}]
  /\ patches = 0 /\ aborts = 0

-----------------------------------------------------------------------------
(* Pure parts of the code *)

RoleOf(p) == IF p \in Operator THEN "operator" ELSE IF p \in Creator THEN "creator" ELSE "checker"

\* Resolver.Recipients
Recipients(s) == IF s \in {"pending_review", "reviewed"} THEN Recipient ELSE Contact

\* DedupKey for this event; the kind follows from the new status.
DedupKey(old, new, r) == <<old, new, r>>

\* resolveMaintenanceCreateStatus
CreateStatus(u) == IF u \in Operator THEN "planned" ELSE "pending_review"

\* allowMaintenancePatch, allowMaintenancePatchAsCreator on the copy e
AllowPatch(u, e, s) ==
  \/ u \in Operator
  \/ e.owner = u /\ e.status = "pending_review" /\ s \in {"pending_review", "cancelled"}

\* calculateMntStatusHistory
History(e) == {e.hist[i].status : i \in DOMAIN e.hist}

\* calculateCurrentMntStatus
CurrentStatus(e, t) ==
  IF "cancelled" \in History(e) THEN "cancelled"
  ELSE IF e.status = "reviewed" \/ e.start > t THEN "planned"
  ELSE IF e.start < t /\ e.end > t THEN "in_progress"
  ELSE "completed"

\* Faulty variant: the status is added without a look at the history.
MissedAlways(e, s) == <<[status |-> s, by |-> "checker"]>>

Missed(e, s) == IF s \in History(e) THEN <<>> ELSE <<[status |-> s, by |-> "checker"]>>

\* fixMntMissedStatuses: the rows appended before the event becomes s
Backfill(e, s) ==
  CASE s = "planned" -> Missed(e, "planned")
    [] s = "in_progress" -> Missed(e, "planned") \o Missed(e, "in_progress")
    [] s = "completed" -> Missed(e, "planned") \o Missed(e, "in_progress") \o Missed(e, "completed")
    [] s = "cancelled" /\ {"reviewed", "planned"} \cap History(e) # {} -> Missed(e, "planned")
    [] OTHER -> <<>>

\* A transaction that has updated the row holds its lock until it ends.
InTx(p) == pc[p] \in {"publish", "insert", "poisoned"}

\* The tail of every request and round, with or without an effect.
Done(p) ==
  /\ pc' = [pc EXCEPT ![p] = "idle"]
  /\ snap' = [snap EXCEPT ![p] = NoEvent]
  /\ want' = [want EXCEPT ![p] = NoWrite]
  /\ todo' = [todo EXCEPT ![p] = {}]
  /\ ins' = [ins EXCEPT ![p] = {}]

-----------------------------------------------------------------------------
(* API users *)

\* createEvent: one transaction on a row nobody else can see yet.  The row gets
\* version 1 and the initial status raises it to 2.
CreateEvent(u) ==
  /\ ev.version = 0
  /\ \E w \in Windows :
       ev' = [version |-> 2, status |-> CreateStatus(u), owner |-> u, start |-> w[1], end |-> w[2],
              hist |-> <<[status |-> CreateStatus(u), by |-> RoleOf(u)]>>]
  /\ keys' = {DedupKey("", CreateStatus(u), r) : r \in Recipients(CreateStatus(u))}
  /\ UNCHANGED <<pruned, now, pc, snap, want, todo, ins, patches, aborts>>

\* PATCH up to the transaction: CheckEventExistenceMW reads the event, the
\* request is validated against that copy, and the version it asks for is the
\* client's, an integer nobody compares with the copy's (a missing one is a 400).
PatchIncident(u) ==
  /\ pc[u] = "idle" /\ ev.version > 0 /\ patches < MaxPatches
  /\ \E s \in PatchStatus, w \in PatchWindows \cup {<<ev.start, ev.end>>}, v \in ClientVersions :
       /\ AllowPatch(u, ev, s)
       /\ want' = [want EXCEPT ![u] = [version |-> v, status |-> s, start |-> w[1], end |-> w[2],
                                       add |-> <<[status |-> s, by |-> RoleOf(u)]>>]]
  /\ snap' = [snap EXCEPT ![u] = ev]
  /\ pc' = [pc EXCEPT ![u] = "update"]
  /\ patches' = patches + 1
  /\ UNCHANGED <<ev, keys, pruned, now, todo, ins, aborts>>

-----------------------------------------------------------------------------
(* The checker *)

\* Faulty variant: events waiting for the automatic approval are skipped too.
CheckMaintenanceNoReviewed(k) ==
  /\ pc[k] = "idle" /\ ev.version > 0
  /\ ev.status \notin {"pending_review", "reviewed"} /\ ev.status # CurrentStatus(ev, now)
  /\ pc' = [pc EXCEPT ![k] = "refetch"]
  /\ UNCHANGED <<ev, keys, pruned, now, snap, want, todo, ins, patches, aborts>>

\* CheckMaintenance reads the batch; drafts are skipped, and so are events whose
\* status already agrees (needsRefetch).  The code compares a little later, on the
\* copy of the batch; the copy has no other use, the refetch decides.
CheckMaintenance(k) ==
  /\ pc[k] = "idle" /\ ev.version > 0
  /\ ev.status # "pending_review" /\ ev.status # CurrentStatus(ev, now)
  /\ pc' = [pc EXCEPT ![k] = "refetch"]
  /\ UNCHANGED <<ev, keys, pruned, now, snap, want, todo, ins, patches, aborts>>

\* processMaintenance reads the event again and decides from the fresh copy.
ProcessMaintenance(k) ==
  LET s == CurrentStatus(ev, now)
  IN /\ pc[k] = "refetch"
     /\ \/ /\ s = ev.status
           /\ Done(k)
        \/ /\ s # ev.status
           /\ snap' = [snap EXCEPT ![k] = ev]
           /\ want' = [want EXCEPT ![k] = [version |-> ev.version, status |-> s, start |-> ev.start,
                                           end |-> ev.end, add |-> Backfill(ev, s)]]
           /\ pc' = [pc EXCEPT ![k] = "update"]
           /\ UNCHANGED <<todo, ins>>
     /\ UNCHANGED <<ev, keys, pruned, now, patches, aborts>>

-----------------------------------------------------------------------------
(* The transaction of both *)

\* Faulty variant: the version is not part of the UPDATE's condition.
ModifyUnversioned(p) ==
  /\ pc[p] = "update" /\ \A q \in Proc : ~InTx(q)
  /\ pc' = [pc EXCEPT ![p] = "publish"]
  /\ todo' = [todo EXCEPT ![p] = IF want[p].status = snap[p].status THEN {}
                                 ELSE Recipients(want[p].status)]
  /\ UNCHANGED <<ev, keys, pruned, now, snap, want, ins, patches, aborts>>

\* Faulty variant: the version is compared without taking the row lock.
ModifyUnlocked(p) ==
  /\ pc[p] = "update" /\ ev.version = want[p].version
  /\ pc' = [pc EXCEPT ![p] = "publish"]
  /\ todo' = [todo EXCEPT ![p] = IF want[p].status = snap[p].status THEN {}
                                 ELSE Recipients(want[p].status)]
  /\ UNCHANGED <<ev, keys, pruned, now, snap, want, ins, patches, aborts>>

\* ModifyIncidentTx: UPDATE ... WHERE id AND version, then, on a real status
\* transition, PublishTx.  No row updated is ErrVersionConflict: rolled back.
ModifyIncident(p) ==
  /\ pc[p] = "update" /\ \A q \in Proc : ~InTx(q)
  /\ \/ /\ ev.version = want[p].version
        /\ pc' = [pc EXCEPT ![p] = "publish"]
        /\ todo' = [todo EXCEPT ![p] = IF want[p].status = snap[p].status THEN {}
                                       ELSE Recipients(want[p].status)]
        /\ UNCHANGED <<snap, want, ins>>
     \/ /\ ev.version # want[p].version
        /\ Done(p)
  /\ UNCHANGED <<ev, keys, pruned, now, patches, aborts>>

\* PublishTx walks the recipients in a fixed order.
NextRecipient(p) == CHOOSE r \in todo[p] : TRUE
NextKey(p) == DedupKey(snap[p].status, want[p].status, NextRecipient(p))

\* Enqueue, rowExists: a key already there makes the row a duplicate, skipped.
RowExists(p) ==
  /\ pc[p] = "publish" /\ todo[p] # {}
  /\ \/ /\ NextKey(p) \in keys \cup ins[p]
        /\ todo' = [todo EXCEPT ![p] = @ \ {NextRecipient(p)}]
        /\ UNCHANGED pc
     \/ /\ NextKey(p) \notin keys \cup ins[p]
        /\ pc' = [pc EXCEPT ![p] = "insert"]
        /\ UNCHANGED todo
  /\ UNCHANGED <<ev, keys, pruned, now, snap, want, ins, patches, aborts>>

\* Faulty variant: the row is inserted outside the business transaction.
EnqueueOutsideTx(p) ==
  /\ pc[p] = "insert" /\ NextKey(p) \notin keys
  /\ pc' = [pc EXCEPT ![p] = "publish"]
  /\ todo' = [todo EXCEPT ![p] = @ \ {NextRecipient(p)}]
  /\ keys' = keys \cup {NextKey(p)}
  /\ UNCHANGED <<ev, pruned, now, snap, want, ins, patches, aborts>>

\* Enqueue, INSERT: a key another open transaction has inserted makes it wait; a
\* key committed since the check violates the unique index, which PostgreSQL
\* answers by failing every later statement of this transaction and its commit,
\* although Enqueue maps the error to a duplicate that PublishTx skips.
Enqueue(p) ==
  /\ pc[p] = "insert" /\ \A q \in Proc \ {p} : NextKey(p) \notin ins[q]
  /\ pc' = [pc EXCEPT ![p] = IF NextKey(p) \in keys THEN "poisoned" ELSE "publish"]
  /\ todo' = [todo EXCEPT ![p] = @ \ {NextRecipient(p)}]
  /\ ins' = [ins EXCEPT ![p] = IF NextKey(p) \in keys THEN @ ELSE @ \cup {NextKey(p)}]
  /\ UNCHANGED <<ev, keys, pruned, now, snap, want, patches, aborts>>

Commit(p) ==
  /\ pc[p] = "publish" /\ todo[p] = {}
  /\ ev' = [ev EXCEPT !.version = want[p].version + 1, !.status = want[p].status,
                      !.start = want[p].start, !.end = want[p].end,
                      !.hist = @ \o want[p].add]
  /\ keys' = keys \cup ins[p]
  /\ Done(p)
  /\ UNCHANGED <<pruned, now, patches, aborts>>

\* A database error, a cancelled request or a crash: everything is rolled back.
Abort(p) ==
  /\ pc[p] # "idle" /\ aborts < MaxAborts
  /\ aborts' = aborts + 1
  /\ Done(p)
  /\ UNCHANGED <<ev, keys, pruned, now, patches>>

\* Retention deletes an outbox row that was sent long ago, and its key with it.
Prune(k) ==
  /\ keys' = keys \ {k}
  /\ pruned' = pruned \cup {k}
  /\ UNCHANGED <<ev, now, pc, snap, want, todo, ins, patches, aborts>>

Tick ==
  /\ now < MaxTime
  /\ now' = now + 1
  /\ UNCHANGED <<ev, keys, pruned, pc, snap, want, todo, ins, patches, aborts>>

-----------------------------------------------------------------------------

Transact(p) ==
  ModifyIncident(p) \/ RowExists(p) \/ Enqueue(p) \/ Commit(p)

Next ==
  \/ \E u \in User : CreateEvent(u) \/ PatchIncident(u)
  \/ \E k \in Checker : CheckMaintenance(k) \/ ProcessMaintenance(k)
  \/ \E p \in Proc : Transact(p) \/ Abort(p)
  \/ \E k \in keys : Prune(k)
  \/ Tick

Spec == Init /\ [][Next]_vars

\* Goroutines run, the scan task keeps being started on every replica, and the
\* clock advances; users need not do anything.
FairSpec ==
  /\ Spec
  /\ \A k \in Checker : WF_vars(CheckMaintenance(k)) /\ WF_vars(ProcessMaintenance(k))
  /\ \A p \in Proc : WF_vars(Transact(p))
  /\ WF_vars(Tick)

-----------------------------------------------------------------------------
(* Properties *)

\* A request is ahead when its client sent a version the event did not have yet when
\* the request was validated: no response had shown it.  The code does not refuse it,
\* and a write that commits in between can make it the row's version.
Ahead(p) == want[p].version > snap[p].version
NobodyAhead == \A p \in Proc : InTx(p) => ~Ahead(p)

\* No lost update: a transaction that is about to overwrite the event works from
\* a copy of exactly the row it overwrites, so what validation and authorization
\* saw is what is replaced, unless its client was ahead.  The copy is read long
\* before the row lock is taken; only the version in the UPDATE's condition
\* (modifyIncident) protects it.
NoLostUpdate == \A p \in Proc : InTx(p) /\ ~Ahead(p) => snap[p] = ev

\* A creator's write lands only on an event a creator made, and leaves it in review
\* or cancelled, whatever an operator or the checker did between the permission
\* check and the commit (allowMaintenancePatchAsCreator) and whatever version was
\* sent; unless it was ahead, it lands on an event that is still in review.
CreatorConfined ==
  [][LET n == Len(ev'.hist)
     IN (ev.version > 0 /\ n > Len(ev.hist) /\ ev'.hist[n].by = "creator")
          => /\ ev.owner \in Creator /\ ev'.status \in {"pending_review", "cancelled"}
             /\ NobodyAhead => ev.status = "pending_review"]_vars

\* Outbox rows and status transitions are one: after a transition every recipient
\* has a row for exactly this old and new status, or had one that retention has
\* deleted since, and no row appears without a transition, also when requests are
\* rolled back or lose a version conflict.  A request that was ahead publishes the
\* old status of its copy (persistIncidentPatch), so only the new status is right then.
RowsMatchTransitions ==
  [][/\ NobodyAhead /\ ev'.status # ev.status =>
          \A r \in Recipients(ev'.status) : DedupKey(ev.status, ev'.status, r) \in keys' \cup pruned
     /\ \A k \in keys' \ keys :
          /\ k[2] = ev'.status /\ k[1] # k[2]
          /\ NobodyAhead => k[1] = ev.status]_vars

\* The unique index on dedup_key never fires inside a transaction: it would abort
\* it, and with it the business change that PublishTx means to save by skipping
\* the duplicate.  The row lock of the event is what keeps two publishers of the
\* same transition apart.
NeverPoisoned == \A p \in Proc : pc[p] # "poisoned"

\* Two checkers, or a checker and its own next round, never backfill the same
\* status twice.
BackfillOnce ==
  \A i, j \in DOMAIN ev.hist :
    (ev.hist[i] = ev.hist[j] /\ ev.hist[i].by = "checker") => i = j

(* The inductive invariant behind NoLostUpdate, NeverPoisoned and CreatorConfined *)

Writing(p) == pc[p] \in {"update", "publish", "insert", "poisoned"}

\* Nobody works before the event exists.
Started == \A p \in Proc : pc[p] # "idle" => ev.version > 0

\* A copy is not newer than the row, of the same event, and of equal version only
\* when it is the row.
Copied ==
  \A p \in Proc : Writing(p) =>
    /\ snap[p].version <= ev.version /\ snap[p].owner = ev.owner
    /\ snap[p].version = ev.version => snap[p] = ev

\* A checker's write carries the version of its copy, every write statuses signed
\* with the writer's role, and a creator's write the permission it got on the copy.
Prepared ==
  \A p \in Proc : Writing(p) =>
    /\ want[p].status \in MaintenanceStatus
    /\ p \in Checker => want[p].version = snap[p].version
    /\ want[p].add \in Seq([status : MaintenanceStatus, by : {RoleOf(p)}])
    /\ p \in Creator => /\ snap[p].owner = p /\ snap[p].status = "pending_review"
                        /\ want[p].status \in {"pending_review", "cancelled"}

\* The row lock: one transaction at a time, and the row it locked has its version.
OneTx == \A p, q \in Proc : InTx(p) /\ InTx(q) => p = q
TxVersion == \A p \in Proc : InTx(p) => want[p].version = ev.version

\* What the existence check found is still so at the INSERT.
InsertFresh == \A p \in Proc : pc[p] = "insert" => todo[p] # {} /\ NextKey(p) \notin keys

IInv == /\ TypeOK /\ Started /\ Copied /\ Prepared /\ OneTx /\ TxVersion
        /\ InsertFresh /\ NeverPoisoned

(* and, on top of it, behind BackfillOnce and RowsMatchTransitions *)

\* A checker backfills, once each, statuses that are not in the history of its copy.
Owed(add, e) ==
  /\ \A i, j \in DOMAIN add : add[i] = add[j] => i = j
  /\ \A i \in DOMAIN add : add[i].status \notin History(e)
Backfilled == \A k \in Checker : Writing(k) => Owed(want[k].add, snap[k])

\* A transaction inserts rows for its own transition only, one for every recipient it
\* has dealt with and that has none; without a transition it has nobody to deal with.
Published ==
  \A p \in Proc : InTx(p) =>
    /\ want[p].status = snap[p].status => todo[p] = {} /\ ins[p] = {}
    /\ want[p].status # snap[p].status =>
         \A r \in Recipients(want[p].status) \ todo[p] :
           DedupKey(snap[p].status, want[p].status, r) \in keys \cup ins[p] \cup pruned
    /\ \A x \in ins[p] : \E r \in Recipient : x = DedupKey(snap[p].status, want[p].status, r)

\* Nothing is inserted outside a transaction, and the first status follows none.
Outside ==
  /\ \A p \in Proc : ~InTx(p) => ins[p] = {}
  /\ ev.version = 0 => ev.status = ""

HistoryInv == BackfillOnce /\ Backfilled
RowsInv == Published /\ Outside

\* Once users are quiet and the clock stands still, the stored status settles on
\* the one the checker computes, through version conflicts and rollbacks.
Converges ==
  <>[](ev.version = 0 \/ ev.status = "pending_review" \/ ev.status = CurrentStatus(ev, now))

\* docs/events.md: "pending_review events are ignored" by the checker; the comment
\* in CheckMaintenance: drafts "await manual approval (reviewed) or rejection
\* (cancelled) via the API".  No write of the checker takes an event out of review.
DraftsIgnored ==
  [][(ev.status = "pending_review" /\ ev'.status # ev.status)
       => \E u \in User : pc[u] = "publish" /\ pc'[u] = "idle"]_vars

=============================================================================
