----------------------------- MODULE InfoEvents -----------------------------
(***************************************************************************)
(* One info event, the users who PATCH it (internal/api/v2/v2.go) and the  *)
(* checkers that advance it (internal/checker/info.go).                    *)
(*                                                                         *)
(* Unlike a maintenance it may have no end_date, nothing orders its dates, *)
(* and the UPDATE of modifyIncident carries no version: whoever writes     *)
(* last wins, with every field of the copy it read.  The checker works     *)
(* from the copies of its batch and reads nothing again.  The version      *)
(* column is left out: no statement on an info event looks at it.          *)
(***************************************************************************)
EXTENDS Naturals, Sequences

CONSTANTS
  User, Checker,
  Windows,       \* <<start_date, end_date>> pairs of new events,
  PatchWindows,  \* and of PATCH requests; end_date 0 is none
  PatchStatus,   \* bound: statuses users send
  MaxTime,       \* bound: the clock
  MaxPatches,    \* bound: PATCH requests
  MaxAborts      \* bound: failed requests and rounds

InfoStatus == {"planned", "active", "completed", "cancelled"}
NoEnd == 0

\* The clock passes every start_date.
ASSUME InfoAssumption ==
  /\ User \cap Checker = {} /\ PatchStatus \subseteq InfoStatus
  /\ MaxTime \in Nat /\ MaxPatches \in Nat /\ MaxAborts \in Nat
  /\ Windows \cup PatchWindows \subseteq {w \in Nat \X Nat : w[1] < MaxTime}

VARIABLES
  ev,          \* the committed event and its status history
  now,
  pc,          \* a writer's control state,
  snap, want,  \* a checker's copy of the event, the write prepared
  overlap,     \* history: two rounds have overlapped (a lock's session was lost)
  patches, aborts

vars == <<ev, now, pc, snap, want, overlap, patches, aborts>>

Proc == User \cup Checker
NoEvent == [status |-> "", start |-> 0, end |-> NoEnd, hist |-> <<>>]
NoWrite == [status |-> "", start |-> 0, end |-> NoEnd, add |-> <<>>]

Init ==
  /\ ev = NoEvent /\ now = 0
  /\ pc = [p \in Proc |-> "idle"]
  /\ snap = [p \in Proc |-> NoEvent] /\ want = [p \in Proc |-> NoWrite]
  /\ overlap = FALSE
  /\ patches = 0 /\ aborts = 0

-----------------------------------------------------------------------------
(* Pure parts of the code *)

\* calculateInfoStatusHistory
History(e) == {e.hist[i].status : i \in DOMAIN e.hist}

\* calculateCurrentInfoStatus: at the very instant of start_date the event is
\* already completed.
CurrentStatus(e, t) ==
  IF "cancelled" \in History(e) THEN "cancelled"
  ELSE IF e.start > t THEN "planned"
  ELSE IF e.start < t /\ (e.end = NoEnd \/ e.end > t) THEN "active"
  ELSE "completed"

\* hasStatus, setStatus
Missed(e, s) == IF s \in History(e) THEN <<>> ELSE <<[status |-> s, by |-> "checker"]>>

\* Faulty variant: the latest missed status is added first.
BackfillReversed(e, s) ==
  CASE s \in {"planned", "cancelled"} -> Missed(e, "planned")
    [] s = "active" -> Missed(e, "active") \o Missed(e, "planned")
    [] OTHER -> Missed(e, "completed") \o Missed(e, "active") \o Missed(e, "planned")

\* fixInfoMissedStatuses: the rows appended before the event becomes s
Backfill(e, s) ==
  CASE s \in {"planned", "cancelled"} -> Missed(e, "planned")
    [] s = "active" -> Missed(e, "planned") \o Missed(e, "active")
    [] OTHER -> Missed(e, "planned") \o Missed(e, "active") \o Missed(e, "completed")

\* fixInfoMissedStatuses dereferences end_date for the row of "completed".
Panics(e, s) == s = "completed" /\ e.end = NoEnd /\ "completed" \notin History(e)

Done(p) ==
  /\ pc' = [pc EXCEPT ![p] = "idle"]
  /\ snap' = [snap EXCEPT ![p] = NoEvent]
  /\ want' = [want EXCEPT ![p] = NoWrite]

-----------------------------------------------------------------------------
(* Users *)

\* createEvent: an info event starts as planned, whatever its dates.
CreateEvent ==
  /\ ev.status = ""
  /\ \E w \in Windows :
       ev' = [status |-> "planned", start |-> w[1], end |-> w[2],
              hist |-> <<[status |-> "planned", by |-> "user"]>>]
  /\ UNCHANGED <<now, pc, snap, want, overlap, patches, aborts>>

\* PATCH up to its transaction: checkPatchData and updateFields on the copy read by
\* CheckEventExistenceMW.  A request without an end_date leaves the copy's.
PatchIncident(u) ==
  /\ pc[u] = "idle" /\ ev.status # "" /\ patches < MaxPatches
  /\ \E s \in PatchStatus, w \in PatchWindows \cup {<<ev.start, ev.end>>} :
       want' = [want EXCEPT ![u] = [status |-> s, start |-> w[1],
                                    end |-> IF w[2] = NoEnd THEN ev.end ELSE w[2],
                                    add |-> <<[status |-> s, by |-> "user"]>>]]
  /\ pc' = [pc EXCEPT ![u] = "update"]
  /\ patches' = patches + 1
  /\ UNCHANGED <<ev, now, snap, overlap, aborts>>

-----------------------------------------------------------------------------
(* The checker *)

\* GetInfoEvents
ReadBatch(k) ==
  /\ pc[k] = "idle" /\ ev.status # ""
  /\ snap' = [snap EXCEPT ![k] = ev]
  /\ pc' = [pc EXCEPT ![k] = "batch"]
  /\ overlap' = (overlap \/ \E q \in Checker : pc[q] # "idle")
  /\ UNCHANGED <<ev, now, want, patches, aborts>>

\* Faulty variant: the event is only written when a status was missed.
CheckInfoEventsMissed(k) ==
  LET e == snap[k]  s == CurrentStatus(e, now)
  IN /\ pc[k] = "batch"
     /\ \/ /\ Panics(e, s) \/ Backfill(e, s) = <<>>
           /\ Done(k)
        \/ /\ ~Panics(e, s) /\ Backfill(e, s) # <<>>
           /\ want' = [want EXCEPT ![k] = [status |-> s, start |-> e.start, end |-> e.end,
                                           add |-> Backfill(e, s)]]
           /\ pc' = [pc EXCEPT ![k] = "update"]
           /\ snap' = [snap EXCEPT ![k] = NoEvent]
     /\ UNCHANGED <<ev, now, overlap, patches, aborts>>

\* CheckInfoEvents on the copy of the batch.  A panic ends the process, which is
\* restarted; an unchanged status is not written, and neither are the rows added.
CheckInfoEvents(k) ==
  LET e == snap[k]  s == CurrentStatus(e, now)
  IN /\ pc[k] = "batch"
     /\ \/ /\ Panics(e, s) \/ s = e.status
           /\ Done(k)
        \/ /\ ~Panics(e, s) /\ s # e.status
           /\ want' = [want EXCEPT ![k] = [status |-> s, start |-> e.start, end |-> e.end,
                                           add |-> Backfill(e, s)]]
           /\ pc' = [pc EXCEPT ![k] = "update"]
           /\ snap' = [snap EXCEPT ![k] = NoEvent]
     /\ UNCHANGED <<ev, now, overlap, patches, aborts>>

-----------------------------------------------------------------------------

\* modifyIncident: UPDATE ... WHERE id, with the non-nil fields of the copy, and
\* the new statuses, in one transaction.
ModifyIncident(p) ==
  /\ pc[p] = "update"
  /\ ev' = [status |-> want[p].status, start |-> want[p].start,
            end |-> IF want[p].end = NoEnd THEN ev.end ELSE want[p].end,
            hist |-> ev.hist \o want[p].add]
  /\ Done(p)
  /\ UNCHANGED <<now, overlap, patches, aborts>>

\* A database error, a cancelled context or a crash before the commit.
Abort(p) ==
  /\ pc[p] # "idle" /\ aborts < MaxAborts
  /\ aborts' = aborts + 1
  /\ Done(p)
  /\ UNCHANGED <<ev, now, overlap, patches>>

Tick ==
  /\ now < MaxTime
  /\ now' = now + 1
  /\ UNCHANGED <<ev, pc, snap, want, overlap, patches, aborts>>

Next ==
  \/ CreateEvent
  \/ \E u \in User : PatchIncident(u)
  \/ \E k \in Checker : ReadBatch(k) \/ CheckInfoEvents(k)
  \/ \E p \in Proc : ModifyIncident(p) \/ Abort(p)
  \/ Tick

Spec == Init /\ [][Next]_vars

\* Goroutines run, rounds keep being started and the clock advances; users need
\* not do anything.
FairSpec ==
  /\ Spec
  /\ \A k \in Checker : WF_vars(ReadBatch(k)) /\ WF_vars(CheckInfoEvents(k))
  /\ \A p \in Proc : WF_vars(ModifyIncident(p))
  /\ WF_vars(Tick)

-----------------------------------------------------------------------------
(* Properties *)

\* Backfilled statuses come in the order of the life cycle, whatever users wrote since
\* the checker's copy was read (fixInfoMissedStatuses): never "completed" before an
\* "active", nor "active" before a "planned"; and, as long as rounds do not overlap,
\* none of them twice (hasStatus).
Preceded(s, t) ==
  \A j \in DOMAIN ev.hist : ev.hist[j].status = s /\ ev.hist[j].by = "checker" =>
    \E i \in 1..j - 1 : ev.hist[i].status = t
HistoryOrdered ==
  /\ Preceded("completed", "active") /\ Preceded("active", "planned")
  /\ ~overlap => \A i, j \in DOMAIN ev.hist :
                   (ev.hist[i] = ev.hist[j] /\ ev.hist[i].by = "checker") => i = j

(* The inductive invariant behind HistoryOrdered *)

Row == [status : InfoStatus, by : {"user", "checker"}]
Event == [status : InfoStatus \cup {""}, start : Nat, end : Nat, hist : Seq(Row)]
WriteSet == [status : InfoStatus \cup {""}, start : Nat, end : Nat, add : Seq(Row)]

TypeOK ==
  /\ ev \in Event
  /\ pc \in [Proc -> {"idle", "batch", "update"}]
  /\ snap \in [Proc -> Event] /\ want \in [Proc -> WriteSet]
  /\ overlap \in BOOLEAN

\* Nobody works before the event exists, and it stays.
Started == /\ ev.status = "" => \A p \in Proc : pc[p] = "idle"
           /\ \A p \in Proc : pc[p] = "update" => want[p].status # ""

\* A user adds its own rows only, and only a checker works on a batch.
Roles ==
  \A u \in User : /\ pc[u] # "batch"
                 /\ pc[u] = "update" => \A i \in DOMAIN want[u].add : want[u].add[i].by = "user"

\* The history only grows: what a copy has, the event has.
CopiesOld == \A k \in Checker : pc[k] = "batch" => History(snap[k]) \subseteq History(ev)

\* A row added for s follows one for t, among those there already or those added.
Follows(add, there, s, t) ==
  \A j \in DOMAIN add : add[j].status = s =>
    t \in there \/ \E i \in 1..j - 1 : add[i].status = t
InOrder(add, there) ==
  Follows(add, there, "completed", "active") /\ Follows(add, there, "active", "planned")
AddsInOrder == \A k \in Checker : pc[k] = "update" => InOrder(want[k].add, History(ev))

\* Without overlap there is one round; its copy has all rows of checkers, and it adds,
\* once each, rows that are not there.
Alone ==
  ~overlap =>
    /\ \A k, l \in Checker : pc[k] # "idle" /\ pc[l] # "idle" => k = l
    /\ \A k \in Checker : pc[k] = "batch" =>
         \A i \in DOMAIN ev.hist : ev.hist[i].by = "checker" => ev.hist[i].status \in History(snap[k])
    /\ \A k \in Checker : pc[k] = "update" =>
         /\ \A i, j \in DOMAIN want[k].add : want[k].add[i] = want[k].add[j] => i = j
         /\ \A i \in DOMAIN want[k].add, j \in DOMAIN ev.hist :
              ev.hist[j].by = "checker" => want[k].add[i] # ev.hist[j]

IInv == TypeOK /\ Started /\ Roles /\ CopiesOld /\ AddsInOrder /\ Alone /\ HistoryOrdered

\* Once users are quiet and the clock stands still, the stored status is the computed
\* one, and a cancellation has won: unversioned writes from stale copies, panics and
\* overlapping rounds are made good by later rounds (CheckInfoEvents).
Converges == <>[](ev.status = "" \/ ev.status = CurrentStatus(ev, now))

=============================================================================
