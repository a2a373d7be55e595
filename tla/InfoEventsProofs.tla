-------------------------- MODULE InfoEventsProofs --------------------------
(***************************************************************************)
(* The histories of info events are in order, for any users, checkers and  *)
(* dates.                                                                  *)
(*                                                                         *)
(* Nothing protects a write here: a round decides from a copy that may be  *)
(* old, and writes over whatever is there.  What orders the rows is that   *)
(* histories only grow, so that a status found in the copy is in the event *)
(* (CopiesOld), and that the rows a round adds are in order among          *)
(* themselves (AddsInOrder).  That no row comes twice needs more: that no  *)
(* other round is under way (Alone).                                       *)
(***************************************************************************)
EXTENDS InfoEvents, SequenceTheorems, TLAPS

USE DEF vars

LEMMA Procs == /\ \A u \in User : u \in Proc /\ u \notin Checker
               /\ \A k \in Checker : k \in Proc
BY InfoAssumption DEF Proc

-----------------------------------------------------------------------------
(* Sequences of rows *)

(* Where an element of a concatenation comes from, and where elements go. *)
LEMMA ConcatElement ==
  ASSUME NEW S, NEW a \in Seq(S), NEW b \in Seq(S)
  PROVE  LET w == a \o b
         IN  /\ w \in Seq(S) /\ Len(a) \in Nat /\ DOMAIN a = 1..Len(a) /\ DOMAIN w \subseteq Nat
             /\ DOMAIN b \subseteq Nat \ {0}
             /\ \A i \in DOMAIN w :
                  \/ i \in DOMAIN a
                  \/ i - Len(a) \in DOMAIN b /\ w[i] = b[i - Len(a)] /\ i > Len(a)
             /\ \A i \in DOMAIN a : i \in DOMAIN w /\ w[i] = a[i]
             /\ \A i \in DOMAIN b : Len(a) + i \in DOMAIN w /\ w[Len(a) + i] = b[i]
<1> DEFINE w == a \o b
<1>1. /\ w \in Seq(S) /\ Len(w) = Len(a) + Len(b)
      /\ \A j \in 1..Len(a) + Len(b) : w[j] = IF j <= Len(a) THEN a[j] ELSE b[j - Len(a)]
  BY ConcatProperties
<1>2. /\ Len(a) \in Nat /\ Len(b) \in Nat /\ DOMAIN a = 1..Len(a) /\ DOMAIN b = 1..Len(b)
      /\ DOMAIN w = 1..Len(a) + Len(b)
  BY <1>1, LenProperties
<1> HIDE DEF w
<1>3. ASSUME NEW i \in DOMAIN w
      PROVE  \/ i \in DOMAIN a
             \/ i - Len(a) \in DOMAIN b /\ w[i] = b[i - Len(a)] /\ i > Len(a)
  BY <1>1, <1>2
<1>4. ASSUME NEW i \in DOMAIN a PROVE i \in DOMAIN w /\ w[i] = a[i]
  BY <1>1, <1>2
<1>5. ASSUME NEW i \in DOMAIN b PROVE Len(a) + i \in DOMAIN w /\ w[Len(a) + i] = b[i]
  <2>1. Len(a) + i \in 1..Len(a) + Len(b) /\ ~(Len(a) + i <= Len(a)) /\ (Len(a) + i) - Len(a) = i
    BY <1>2
  <2> QED BY <1>1, <1>2, <2>1
<1>6. DOMAIN w \subseteq Nat /\ DOMAIN b \subseteq Nat \ {0}
  BY <1>2
<1> QED BY <1>1, <1>2, <1>3, <1>4, <1>5, <1>6 DEF w

\* Rows of a checker for those of the statuses A that are not there.
Rows(q, there, A) ==
  /\ q \in Seq(Row)
  /\ \A i, j \in DOMAIN q : q[i] = q[j] => i = j
  /\ \A i \in DOMAIN q : q[i].by = "checker" /\ q[i].status \in A /\ q[i].status \notin there
  /\ \A s \in A : s \in there \/ \E i \in DOMAIN q : q[i].status = s

(* A missed status, ... *)
LEMMA MissedRows ==
  ASSUME NEW e, NEW s \in InfoStatus
  PROVE  Rows(Missed(e, s), History(e), {s})
<1> DEFINE r == [status |-> s, by |-> "checker"]
<1>1. CASE s \in History(e)
  <2>1. Missed(e, s) = <<>> /\ DOMAIN Missed(e, s) = {} /\ <<>> \in Seq(Row)
    BY <1>1 DEF Missed
  <2> QED BY <1>1, <2>1 DEF Rows
<1>2. CASE s \notin History(e)
  <2>1. r \in Row /\ r.status = s /\ r.by = "checker"
    BY DEF Row
  <2>2. Missed(e, s) = <<r>>
    BY <1>2 DEF Missed
  <2> HIDE DEF r
  <2>3. DOMAIN Missed(e, s) = {1} /\ Missed(e, s)[1] = r /\ Missed(e, s) \in Seq(Row)
    BY <2>1, <2>2
  <2> QED BY <1>2, <2>1, <2>3 DEF Rows
<1> QED BY <1>1, <1>2

(* ... then others, ... *)
LEMMA JoinRows ==
  ASSUME NEW there, NEW A, NEW B, NEW C, NEW a, NEW b, Rows(a, there, A), Rows(b, there, B),
         A \cap B = {}, C = A \cup B
  PROVE  Rows(a \o b, there, C)
<1> DEFINE w == a \o b
<1>1. a \in Seq(Row) /\ b \in Seq(Row)
  BY DEF Rows
<1>2. /\ w \in Seq(Row) /\ Len(a) \in Nat /\ DOMAIN a = 1..Len(a) /\ DOMAIN w \subseteq Nat
      /\ \A i \in DOMAIN w :
           \/ i \in DOMAIN a
           \/ i - Len(a) \in DOMAIN b /\ w[i] = b[i - Len(a)] /\ i > Len(a)
      /\ \A i \in DOMAIN a : i \in DOMAIN w /\ w[i] = a[i]
      /\ \A i \in DOMAIN b : Len(a) + i \in DOMAIN w /\ w[Len(a) + i] = b[i]
  BY <1>1, ConcatElement
<1> HIDE DEF w
<1>3. \A i \in DOMAIN w : w[i].by = "checker" /\ w[i].status \in C /\ w[i].status \notin there
  BY <1>2 DEF Rows
<1>4. ASSUME NEW i \in DOMAIN w, NEW j \in DOMAIN w, w[i] = w[j] PROVE i = j
  <2>1. CASE i \in DOMAIN a /\ j \in DOMAIN a
    BY <1>2, <1>4, <2>1 DEF Rows
  <2>2. CASE i \in DOMAIN a /\ j \notin DOMAIN a
    BY <1>2, <1>4, <2>2 DEF Rows
  <2>3. CASE i \notin DOMAIN a /\ j \in DOMAIN a
    BY <1>2, <1>4, <2>3 DEF Rows
  <2>4. CASE i \notin DOMAIN a /\ j \notin DOMAIN a
    <3>1. i - Len(a) = j - Len(a)
      BY <1>2, <1>4, <2>4 DEF Rows
    <3> QED BY <1>2, <3>1
  <2> QED BY <2>1, <2>2, <2>3, <2>4
<1>5. \A s \in C : s \in there \/ \E i \in DOMAIN w : w[i].status = s
  <2> SUFFICES ASSUME NEW s \in C, s \notin there PROVE \E i \in DOMAIN w : w[i].status = s
    OBVIOUS
  <2>1. CASE s \in A
    BY <1>2, <2>1 DEF Rows
  <2>2. CASE s \in B
    BY <1>2, <2>2 DEF Rows
  <2> QED BY <2>1, <2>2
<1> QED BY <1>2, <1>3, <1>4, <1>5 DEF Rows, w

(* ... which follow those that are there or were added before. *)
LEMMA JoinFollows ==
  ASSUME NEW there, NEW A, NEW B, NEW a, NEW b, Rows(a, there, A), Rows(b, there, B),
         NEW s, NEW t, Follows(a, there, s, t), s \in B => t \in A
  PROVE  Follows(a \o b, there, s, t)
<1> DEFINE w == a \o b
<1>1. a \in Seq(Row) /\ b \in Seq(Row)
  BY DEF Rows
<1>2. /\ w \in Seq(Row) /\ Len(a) \in Nat /\ DOMAIN a = 1..Len(a) /\ DOMAIN w \subseteq Nat
      /\ \A i \in DOMAIN w :
           \/ i \in DOMAIN a
           \/ i - Len(a) \in DOMAIN b /\ w[i] = b[i - Len(a)] /\ i > Len(a)
      /\ \A i \in DOMAIN a : i \in DOMAIN w /\ w[i] = a[i]
  BY <1>1, ConcatElement
<1> HIDE DEF w
<1> SUFFICES ASSUME NEW j \in DOMAIN w, w[j].status = s, t \notin there
             PROVE  \E i \in 1..j - 1 : w[i].status = t
  BY DEF Follows, w
<1>3. CASE j \in DOMAIN a
  <2>1. PICK i \in 1..j - 1 : a[i].status = t
    BY <1>2, <1>3 DEF Follows
  <2>2. i \in DOMAIN a
    BY <1>2, <1>3
  <2> QED BY <1>2, <2>1, <2>2
<1>4. CASE j \notin DOMAIN a
  <2>1. s \in B /\ j > Len(a)
    BY <1>2, <1>4 DEF Rows
  <2>2. PICK i \in DOMAIN a : a[i].status = t
    BY <2>1 DEF Rows
  <2>3. i \in 1..j - 1
    BY <1>2, <2>1, <2>2
  <2> QED BY <1>2, <2>2, <2>3
<1> QED BY <1>3, <1>4

(* What the checker computes and backfills. *)
LEMMA CurrentStatusType == \A e, t : CurrentStatus(e, t) \in InfoStatus
BY DEF CurrentStatus, InfoStatus

LEMMA BackfillRows ==
  ASSUME NEW e, NEW s
  PROVE  /\ \E A : Rows(Backfill(e, s), History(e), A)
         /\ InOrder(Backfill(e, s), History(e))
<1> DEFINE there == History(e)  P == {"planned"}  Q == {"planned", "active"}  B == {"active"}
           D == {"completed"}  R == {"planned", "active", "completed"}
           a == Missed(e, "planned")  b == Missed(e, "active")  c == Missed(e, "completed")
           ab == a \o b  abc == ab \o c
<1>1. Rows(a, there, P) /\ Rows(b, there, B) /\ Rows(c, there, D)
  BY MissedRows DEF InfoStatus
<1>2. Backfill(e, s) \in {a, ab, abc}
  BY DEF Backfill
<1>3. P \cap B = {} /\ Q = P \cup B /\ Q \cap D = {} /\ R = Q \cup D
  OBVIOUS
<1>4. /\ "completed" \notin P /\ "active" \notin P /\ "planned" \in P
      /\ "completed" \notin B /\ "active" \notin D /\ "active" \in Q
  OBVIOUS
<1> HIDE DEF there, P, Q, B, D, R, a, b, c
<1>5. Rows(ab, there, Q)
  BY <1>1, <1>3, JoinRows
<1>6. Rows(abc, there, R)
  <2> HIDE DEF ab
  <2> QED BY <1>1, <1>3, <1>5, JoinRows
<1>7. InOrder(a, there)
  BY <1>1, <1>4 DEF InOrder, Follows, Rows
<1>8. InOrder(ab, there)
  BY <1>1, <1>4, <1>7, JoinFollows DEF InOrder
<1>9. InOrder(abc, there)
  <2> HIDE DEF ab
  <2> QED BY <1>1, <1>4, <1>5, <1>8, JoinFollows DEF InOrder
<1> HIDE DEF ab, abc
<1>10. ASSUME NEW q \in {a, ab, abc} PROVE (\E A : Rows(q, there, A)) /\ InOrder(q, there)
  BY <1>1, <1>5, <1>6, <1>7, <1>8, <1>9
<1> QED BY <1>2, <1>10 DEF there

LEMMA MoreThere ==
  ASSUME NEW q, NEW x, NEW y, x \subseteq y, InOrder(q, x)
  PROVE  InOrder(q, y)
BY DEF InOrder, Follows

-----------------------------------------------------------------------------
(* One lemma per action *)

(* The end of a request or round. *)
LEMMA DoneKeeps ==
  ASSUME IInv, NEW p \in Proc, Done(p), UNCHANGED <<ev, overlap>>
  PROVE  IInv'
<1>0. TypeOK
  BY DEF IInv
<1>1. TypeOK'
  <2>1. NoEvent \in Event /\ NoWrite \in WriteSet
    BY DEF NoEvent, NoWrite, NoEnd, Event, WriteSet
  <2> QED BY <1>0, <2>1 DEF TypeOK, Done
<1>2. /\ pc'[p] = "idle"
      /\ \A q \in Proc : q # p => pc'[q] = pc[q] /\ snap'[q] = snap[q] /\ want'[q] = want[q]
  BY <1>0 DEF TypeOK, Done
<1>3. History(ev)' = History(ev)
  BY DEF History
<1>4. Roles' /\ Started'
  BY <1>2, Procs DEF IInv, Roles, Started
<1>5. CopiesOld'
  <2> SUFFICES ASSUME NEW k \in Checker, pc'[k] = "batch"
               PROVE  History(snap'[k]) \subseteq History(ev)
    BY <1>3 DEF CopiesOld, History
  <2> QED BY <1>2, Procs DEF IInv, CopiesOld
<1>6. AddsInOrder'
  <2> SUFFICES ASSUME NEW k \in Checker, pc'[k] = "update"
               PROVE  InOrder(want'[k].add, History(ev))
    BY <1>3 DEF AddsInOrder
  <2> QED BY <1>2, Procs DEF IInv, AddsInOrder
<1>7. HistoryOrdered'
  BY DEF IInv, HistoryOrdered, Preceded
<1>8. Alone'
  <2> SUFFICES ASSUME ~overlap PROVE Alone'
    BY DEF Alone
  <2>1. \A k, l \in Checker : pc'[k] # "idle" /\ pc'[l] # "idle" => k = l
    BY <1>2, Procs DEF IInv, Alone
  <2>2. \A k \in Checker : pc'[k] # "idle" =>
          pc'[k] = pc[k] /\ snap'[k] = snap[k] /\ want'[k] = want[k]
    BY <1>2, Procs
  <2> QED BY <2>1, <2>2 DEF IInv, Alone, History
<1> QED BY <1>1, <1>4, <1>5, <1>6, <1>7, <1>8 DEF IInv

(* A new event has one row, of its user. *)
LEMMA CreateEventKeeps ==
  ASSUME IInv, CreateEvent
  PROVE  IInv'
<1> DEFINE r == [status |-> "planned", by |-> "user"]
<1>1. PICK w \in Windows : ev' = [status |-> "planned", start |-> w[1], end |-> w[2], hist |-> <<r>>]
  BY DEF CreateEvent
<1>2. UNCHANGED <<pc, snap, want, overlap>> /\ \A p \in Proc : pc[p] = "idle"
  BY DEF CreateEvent, IInv, Started
<1>3. r \in Row /\ r.by = "user" /\ w[1] \in Nat /\ w[2] \in Nat
  BY InfoAssumption DEF Row, InfoStatus
<1> HIDE DEF r
<1>4. <<r>> \in Seq(Row) /\ DOMAIN <<r>> = {1} /\ <<r>>[1] = r
  BY <1>3
<1>5. TypeOK'
  BY <1>1, <1>2, <1>3, <1>4 DEF IInv, TypeOK, Event, InfoStatus
<1>6. ev'.status = "planned" /\ ev'.hist = <<r>>
  BY <1>1
<1>7. \A p \in Proc : pc'[p] = "idle"
  BY <1>2
<1>8. Started' /\ Roles' /\ CopiesOld' /\ AddsInOrder' /\ Alone'
  BY <1>6, <1>7, Procs DEF Started, Roles, CopiesOld, AddsInOrder, Alone
<1>9. HistoryOrdered'
  <2>1. \A j \in DOMAIN ev'.hist : j = 1 /\ ev'.hist[j].by # "checker"
    BY <1>3, <1>4, <1>6
  <2> QED BY <2>1 DEF HistoryOrdered, Preceded
<1> QED BY <1>5, <1>8, <1>9 DEF IInv

LEMMA PatchIncidentKeeps ==
  ASSUME IInv, NEW u \in User, PatchIncident(u)
  PROVE  IInv'
<1>0. TypeOK /\ u \in Proc /\ u \notin Checker /\ pc[u] = "idle" /\ ev.status # ""
  BY Procs DEF IInv, PatchIncident
<1>1. PICK s \in PatchStatus, w \in PatchWindows \cup {<<ev.start, ev.end>>} :
        want' = [want EXCEPT ![u] = [status |-> s, start |-> w[1],
                                     end |-> IF w[2] = NoEnd THEN ev.end ELSE w[2],
                                     add |-> <<[status |-> s, by |-> "user"]>>]]
  BY DEF PatchIncident
<1>2. UNCHANGED <<ev, snap, overlap>> /\ pc' = [pc EXCEPT ![u] = "update"]
  BY DEF PatchIncident
<1> DEFINE r == [status |-> s, by |-> "user"]  e == IF w[2] = NoEnd THEN ev.end ELSE w[2]
<1>3. r \in Row /\ r.by = "user" /\ s \in InfoStatus
  BY InfoAssumption DEF Row
<1>4. w[1] \in Nat /\ e \in Nat
  <2>1. ev.start \in Nat /\ ev.end \in Nat
    BY <1>0 DEF TypeOK, Event
  <2> QED BY <2>1, InfoAssumption
<1>5. want' = [want EXCEPT ![u] = [status |-> s, start |-> w[1], end |-> e, add |-> <<r>>]]
  BY <1>1
<1> HIDE DEF r, e
<1>6. <<r>> \in Seq(Row) /\ DOMAIN <<r>> = {1} /\ <<r>>[1] = r
  BY <1>3
<1>7. TypeOK'
  BY <1>0, <1>2, <1>3, <1>4, <1>5, <1>6 DEF TypeOK, WriteSet
<1>8. /\ pc'[u] = "update" /\ want'[u].add = <<r>> /\ want'[u].status = s
      /\ \A q \in Proc : q # u => pc'[q] = pc[q] /\ want'[q] = want[q]
  BY <1>0, <1>2, <1>5 DEF TypeOK
<1>9. Started'
  BY <1>0, <1>2, <1>3, <1>8 DEF IInv, Started, InfoStatus
<1>10. Roles'
  BY <1>3, <1>6, <1>8, Procs DEF IInv, Roles
<1>11. \A k \in Checker : pc'[k] = pc[k] /\ want'[k] = want[k] /\ snap'[k] = snap[k]
  BY <1>0, <1>2, <1>8, Procs
<1>12. CopiesOld' /\ Alone' /\ HistoryOrdered'
  <2>1. \A k \in Checker : History(snap[k])' = History(snap[k])
    BY <1>11 DEF History
  <2>2. History(ev)' = History(ev)
    BY <1>2 DEF History
  <2>3. CopiesOld'
    BY <1>11, <2>1, <2>2 DEF IInv, CopiesOld
  <2>4. Alone'
    BY <1>2, <1>11, <2>1 DEF IInv, Alone
  <2> QED BY <1>2, <2>3, <2>4 DEF IInv, HistoryOrdered, Preceded
<1>13. AddsInOrder'
  <2> SUFFICES ASSUME NEW k \in Checker, pc'[k] = "update" PROVE InOrder(want'[k].add, History(ev)')
    BY DEF AddsInOrder
  <2>1. History(ev)' = History(ev)
    BY <1>2 DEF History
  <2> QED BY <1>11, <2>1 DEF IInv, AddsInOrder
<1> QED BY <1>7, <1>9, <1>10, <1>12, <1>13 DEF IInv

LEMMA ReadBatchKeeps ==
  ASSUME IInv, NEW k \in Checker, ReadBatch(k)
  PROVE  IInv'
<1>0. TypeOK /\ k \in Proc /\ k \notin User /\ pc[k] = "idle" /\ ev.status # ""
  BY Procs DEF IInv, ReadBatch
<1>1. /\ UNCHANGED <<ev, want>> /\ pc' = [pc EXCEPT ![k] = "batch"] /\ snap' = [snap EXCEPT ![k] = ev]
      /\ overlap' = (overlap \/ \E q \in Checker : pc[q] # "idle")
  BY DEF ReadBatch
<1>2. TypeOK'
  BY <1>0, <1>1 DEF TypeOK
<1>3. /\ pc'[k] = "batch" /\ snap'[k] = ev
      /\ \A q \in Proc : q # k => pc'[q] = pc[q] /\ snap'[q] = snap[q] /\ want'[q] = want[q]
  BY <1>0, <1>1 DEF TypeOK
<1>4. History(ev)' = History(ev)
  BY <1>1 DEF History
<1>5. Started' /\ Roles'
  BY <1>0, <1>1, <1>3, Procs DEF IInv, Started, Roles
<1>6. CopiesOld'
  <2> SUFFICES ASSUME NEW l \in Checker, pc'[l] = "batch" PROVE History(snap'[l]) \subseteq History(ev)
    BY <1>4 DEF CopiesOld, History
  <2> QED BY <1>3, Procs DEF IInv, CopiesOld
<1>7. AddsInOrder'
  <2> SUFFICES ASSUME NEW l \in Checker, pc'[l] = "update" PROVE InOrder(want'[l].add, History(ev))
    BY <1>4 DEF AddsInOrder
  <2> QED BY <1>3, Procs DEF IInv, AddsInOrder
<1>8. HistoryOrdered'
  BY <1>1 DEF IInv, HistoryOrdered, Preceded
<1>9. Alone'
  <2> SUFFICES ASSUME ~overlap' PROVE Alone'
    BY DEF Alone
  <2>1. \A l \in Checker : pc[l] = "idle"
    BY <1>1
  <2>2. \A l \in Checker : pc'[l] # "idle" => l = k
    BY <1>3, <2>1, Procs
  <2>3. \A i \in DOMAIN ev.hist : ev.hist[i].status \in History(ev)
    BY DEF History
  <2>4. History(snap[k])' = History(ev)
    BY <1>3 DEF History
  <2>5. ASSUME NEW l \in Checker, pc'[l] = "batch", NEW i \in DOMAIN ev.hist
        PROVE  ev.hist[i].status \in History(snap[l])'
    BY <2>2, <2>3, <2>4, <2>5
  <2>6. \A l \in Checker : pc'[l] # "update"
    BY <1>3, <2>2
  <2> QED BY <1>1, <2>2, <2>5, <2>6 DEF Alone
<1> QED BY <1>2, <1>5, <1>6, <1>7, <1>8, <1>9 DEF IInv

LEMMA CheckInfoEventsKeeps ==
  ASSUME IInv, NEW k \in Checker, CheckInfoEvents(k)
  PROVE  IInv'
<1>0. TypeOK /\ k \in Proc /\ k \notin User /\ pc[k] = "batch" /\ UNCHANGED <<ev, overlap>>
  BY Procs DEF IInv, CheckInfoEvents
<1>1. CASE Done(k)
  BY <1>0, <1>1, DoneKeeps
<1>2. CASE ~Done(k)
  <2> DEFINE e == snap[k]  s == CurrentStatus(e, now)  add == Backfill(e, s)
  <2>1. /\ want' = [want EXCEPT ![k] = [status |-> s, start |-> e.start, end |-> e.end, add |-> add]]
        /\ pc' = [pc EXCEPT ![k] = "update"] /\ snap' = [snap EXCEPT ![k] = NoEvent]
    BY <1>2 DEF CheckInfoEvents
  <2>2. s \in InfoStatus /\ e.start \in Nat /\ e.end \in Nat
    BY <1>0, CurrentStatusType DEF TypeOK, Event
  <2>3. (\E A : Rows(add, History(e), A)) /\ InOrder(add, History(e))
    BY BackfillRows
  <2> HIDE DEF add, s
  <2>4. add \in Seq(Row)
    BY <2>3 DEF Rows
  <2>5. TypeOK'
    <3>1. NoEvent \in Event
      BY DEF NoEvent, NoEnd, Event
    <3> QED BY <1>0, <2>1, <2>2, <2>4, <3>1 DEF TypeOK, WriteSet
  <2>6. /\ pc'[k] = "update" /\ want'[k].add = add /\ want'[k].status = s
        /\ \A q \in Proc : q # k => pc'[q] = pc[q] /\ snap'[q] = snap[q] /\ want'[q] = want[q]
    BY <1>0, <2>1 DEF TypeOK
  <2>7. History(ev)' = History(ev)
    BY <1>0 DEF History
  <2>8. Started' /\ Roles'
    BY <1>0, <2>2, <2>6, Procs DEF IInv, Started, Roles, InfoStatus
  <2>9. CopiesOld'
    <3> SUFFICES ASSUME NEW l \in Checker, pc'[l] = "batch"
                 PROVE  History(snap'[l]) \subseteq History(ev)
      BY <2>7 DEF CopiesOld, History
    <3> QED BY <2>6, Procs DEF IInv, CopiesOld
  <2>10. AddsInOrder'
    <3> SUFFICES ASSUME NEW l \in Checker, pc'[l] = "update"
                 PROVE  InOrder(want'[l].add, History(ev))
      BY <2>7 DEF AddsInOrder
    <3>1. CASE l = k
      <4>1. History(e) \subseteq History(ev)
        BY <1>0 DEF IInv, CopiesOld
      <4> QED BY <2>3, <2>6, <3>1, <4>1, MoreThere
    <3>2. CASE l # k
      BY <2>6, <3>2, Procs DEF IInv, AddsInOrder
    <3> QED BY <3>1, <3>2
  <2>11. HistoryOrdered'
    BY <1>0 DEF IInv, HistoryOrdered, Preceded
  <2>12. Alone'
    <3> SUFFICES ASSUME ~overlap PROVE Alone'
      BY <1>0 DEF Alone
    <3>1. \A l \in Checker : pc[l] # "idle" => l = k
      BY <1>0 DEF IInv, Alone
    <3>2. \A l \in Checker : pc'[l] # "idle" => l = k
      BY <2>6, <3>1, Procs
    <3>3. \A i \in DOMAIN ev.hist : ev.hist[i].by = "checker" => ev.hist[i].status \in History(e)
      BY <1>0 DEF IInv, Alone
    <3>4. /\ \A i, j \in DOMAIN add : add[i] = add[j] => i = j
          /\ \A i \in DOMAIN add : add[i].status \notin History(e)
      BY <2>3 DEF Rows
    <3>5. \A i \in DOMAIN add, j \in DOMAIN ev.hist : ev.hist[j].by = "checker" => add[i] # ev.hist[j]
      BY <3>3, <3>4
    <3>6. \A l \in Checker : pc'[l] # "batch"
      BY <2>6, <3>2
    <3> QED BY <1>0, <2>6, <3>2, <3>4, <3>5, <3>6 DEF Alone
  <2> QED BY <2>5, <2>8, <2>9, <2>10, <2>11, <2>12 DEF IInv
<1> QED BY <1>1, <1>2

(* The write: it appends to the history that is there. *)
LEMMA ModifyIncidentKeeps ==
  ASSUME IInv, NEW p \in Proc, ModifyIncident(p)
  PROVE  IInv'
<1> DEFINE h == ev.hist  add == want[p].add  w == h \o add
<1>0. TypeOK /\ pc[p] = "update" /\ Done(p) /\ UNCHANGED overlap
  BY DEF IInv, ModifyIncident
<1>1. h \in Seq(Row) /\ add \in Seq(Row) /\ want[p] \in WriteSet /\ ev \in Event
  BY <1>0 DEF TypeOK, Event, WriteSet
<1>2. ev' = [status |-> want[p].status, start |-> want[p].start,
             end |-> IF want[p].end = NoEnd THEN ev.end ELSE want[p].end, hist |-> w]
  BY DEF ModifyIncident
<1>3. /\ w \in Seq(Row) /\ Len(h) \in Nat /\ DOMAIN h = 1..Len(h) /\ DOMAIN w \subseteq Nat
      /\ DOMAIN add \subseteq Nat \ {0}
      /\ \A i \in DOMAIN w :
           \/ i \in DOMAIN h
           \/ i - Len(h) \in DOMAIN add /\ w[i] = add[i - Len(h)] /\ i > Len(h)
      /\ \A i \in DOMAIN h : i \in DOMAIN w /\ w[i] = h[i]
      /\ \A i \in DOMAIN add : Len(h) + i \in DOMAIN w /\ w[Len(h) + i] = add[i]
  BY <1>1, ConcatElement
<1>4. h = ev.hist /\ add = want[p].add
  OBVIOUS
<1> HIDE DEF h, add, w
<1>5. ev'.hist = w /\ ev'.status = want[p].status
  BY <1>2
<1>6. TypeOK'
  <2>1. NoEvent \in Event /\ NoWrite \in WriteSet
    BY DEF NoEvent, NoWrite, NoEnd, Event, WriteSet
  <2>2. ev' \in Event
    BY <1>1, <1>2, <1>3 DEF Event, WriteSet
  <2> QED BY <1>0, <2>1, <2>2 DEF TypeOK, Done
<1>7. /\ pc'[p] = "idle"
      /\ \A q \in Proc : q # p => pc'[q] = pc[q] /\ snap'[q] = snap[q] /\ want'[q] = want[q]
  BY <1>0 DEF TypeOK, Done
<1>8. Started' /\ Roles'
  BY <1>0, <1>5, <1>7, Procs DEF IInv, Started, Roles
<1>9. History(ev) \subseteq History(ev)'
  BY <1>3, <1>4, <1>5 DEF History
<1>10. CopiesOld'
  <2> SUFFICES ASSUME NEW k \in Checker, pc'[k] = "batch" PROVE History(snap'[k]) \subseteq History(ev)'
    BY DEF CopiesOld, History
  <2> QED BY <1>7, <1>9, Procs DEF IInv, CopiesOld
<1>11. AddsInOrder'
  <2> SUFFICES ASSUME NEW k \in Checker, pc'[k] = "update" PROVE InOrder(want'[k].add, History(ev)')
    BY DEF AddsInOrder
  <2>1. InOrder(want'[k].add, History(ev))
    BY <1>7, Procs DEF IInv, AddsInOrder
  <2> DEFINE x == History(ev)  y == History(ev)'  q == want'[k].add
  <2>2. x \subseteq y /\ InOrder(q, x)
    BY <1>9, <2>1
  <2> HIDE DEF x, y, q
  <2>3. InOrder(q, y)
    BY <2>2, MoreThere
  <2> QED BY <2>3 DEF q, y
<1>12. \A i \in DOMAIN add : add[i].by = "checker" => p \in Checker
  BY <1>0, <1>4 DEF IInv, Roles, Proc
<1>13. ASSUME NEW s, NEW t, Preceded(s, t), p \in Checker => Follows(add, History(ev), s, t)
       PROVE  Preceded(s, t)'
  <2> SUFFICES ASSUME NEW j \in DOMAIN w, w[j].status = s, w[j].by = "checker"
               PROVE  \E i \in 1..j - 1 : w[i].status = t
    BY <1>5 DEF Preceded
  <2>1. CASE j \in DOMAIN h
    <3>1. PICK i \in 1..j - 1 : h[i].status = t
      BY <1>3, <1>4, <1>13, <2>1 DEF Preceded
    <3>2. i \in DOMAIN h
      BY <1>3, <2>1
    <3> QED BY <1>3, <3>1, <3>2
  <2>2. CASE j \notin DOMAIN h
    <3> DEFINE n == j - Len(h)
    <3>1. n \in DOMAIN add /\ w[j] = add[n] /\ j > Len(h) /\ j \in Nat /\ n \in Nat
      BY <1>3, <2>2
    <3>2. t \in History(ev) \/ \E i \in 1..n - 1 : add[i].status = t
      BY <1>12, <1>13, <3>1 DEF Follows
    <3>3. CASE t \in History(ev)
      <4>1. PICK i \in DOMAIN h : h[i].status = t
        BY <1>4, <3>3 DEF History
      <4>2. i \in 1..j - 1
        BY <1>3, <3>1, <4>1
      <4> QED BY <1>3, <4>1, <4>2
    <3>4. ASSUME NEW i \in 1..n - 1, add[i].status = t PROVE \E m \in 1..j - 1 : w[m].status = t
      <4>1. i \in DOMAIN add
        <5>1. add \in Seq(Row)
          BY <1>1
        <5>2. DOMAIN add = 1..Len(add) /\ Len(add) \in Nat
          BY <5>1, LenProperties
        <5> QED BY <3>1, <5>2
      <4>2. Len(h) + i \in 1..j - 1
        BY <1>3, <3>1
      <4> QED BY <1>3, <3>4, <4>1, <4>2
    <3> QED BY <3>2, <3>3, <3>4
  <2> QED BY <2>1, <2>2
<1>14. p \in Checker => InOrder(add, History(ev))
  BY <1>0, <1>4 DEF IInv, AddsInOrder
<1>15. ASSUME ~overlap, NEW i \in DOMAIN w, NEW j \in DOMAIN w, w[i] = w[j], w[i].by = "checker"
       PROVE  i = j
  <2>1. CASE i \in DOMAIN h /\ j \in DOMAIN h
    BY <1>3, <1>4, <1>15, <2>1 DEF IInv, HistoryOrdered
  <2>2. CASE i \notin DOMAIN h \/ j \notin DOMAIN h
    <3>1. p \in Checker
      BY <1>3, <1>12, <1>15, <2>2
    <3>2. /\ \A m, n \in DOMAIN add : add[m] = add[n] => m = n
          /\ \A m \in DOMAIN add, n \in DOMAIN h : h[n].by = "checker" => add[m] # h[n]
      BY <1>0, <1>4, <1>15, <3>1 DEF IInv, Alone
    <3>3. i \notin DOMAIN h /\ j \notin DOMAIN h
      BY <1>3, <1>15, <2>2, <3>2
    <3>4. i - Len(h) = j - Len(h)
      BY <1>3, <1>15, <3>2, <3>3
    <3> QED BY <1>3, <3>4
  <2> QED BY <2>1, <2>2
<1>16. HistoryOrdered'
  <2>1. Preceded("completed", "active")' /\ Preceded("active", "planned")'
    BY <1>13, <1>14 DEF IInv, HistoryOrdered, InOrder
  <2> QED BY <1>0, <1>5, <1>15, <2>1 DEF HistoryOrdered
<1>17. Alone'
  <2> SUFFICES ASSUME ~overlap PROVE Alone'
    BY <1>0 DEF Alone
  <2>1. \A k \in Checker : pc'[k] # "idle" =>
          /\ pc'[k] = pc[k] /\ snap'[k] = snap[k] /\ want'[k] = want[k] /\ k # p /\ pc[k] # "idle"
    BY <1>7, Procs
  <2>2. \A k, l \in Checker : pc'[k] # "idle" /\ pc'[l] # "idle" => k = l
    BY <2>1 DEF IInv, Alone
  <2>3. ASSUME NEW k \in Checker, pc'[k] # "idle" PROVE p \notin Checker
    BY <1>0, <2>1, <2>3 DEF IInv, Alone
  <2>4. ASSUME NEW k \in Checker, pc'[k] # "idle", NEW i \in DOMAIN w, w[i].by = "checker"
        PROVE  i \in DOMAIN h /\ w[i] = h[i]
    BY <1>3, <1>12, <2>3, <2>4
  <2>5. ASSUME NEW k \in Checker, pc'[k] = "batch", NEW i \in DOMAIN w, w[i].by = "checker"
        PROVE  w[i].status \in History(snap[k])'
    <3>1. w[i] = h[i] /\ i \in DOMAIN h
      BY <2>4, <2>5
    <3>2. History(snap[k])' = History(snap[k]) /\ pc[k] = "batch"
      BY <2>1, <2>5 DEF History
    <3> QED BY <1>4, <2>5, <3>1, <3>2 DEF IInv, Alone
  <2>6. ASSUME NEW k \in Checker, pc'[k] = "update"
        PROVE  /\ \A i, j \in DOMAIN want'[k].add : want'[k].add[i] = want'[k].add[j] => i = j
               /\ \A i \in DOMAIN want'[k].add, j \in DOMAIN w :
                    w[j].by = "checker" => want'[k].add[i] # w[j]
    <3>1. pc[k] = "update" /\ want'[k] = want[k]
      BY <2>1, <2>6
    <3>2. \A j \in DOMAIN w : w[j].by = "checker" => j \in DOMAIN h /\ w[j] = h[j]
      BY <2>4, <2>6
    <3> QED BY <1>4, <3>1, <3>2 DEF IInv, Alone
  <2> QED BY <1>5, <2>2, <2>5, <2>6 DEF Alone
<1> QED BY <1>6, <1>8, <1>10, <1>11, <1>16, <1>17 DEF IInv

(* The clock, and steps that change nothing. *)
LEMMA OtherKeeps ==
  ASSUME IInv, UNCHANGED <<ev, pc, snap, want, overlap>>
  PROVE  IInv'
<1>1. History(ev)' = History(ev) /\ \A k : History(snap[k])' = History(snap[k])
  BY DEF History
<1>2. TypeOK' /\ Started' /\ Roles' /\ HistoryOrdered'
  BY DEF IInv, TypeOK, Started, Roles, HistoryOrdered, Preceded
<1>3. CopiesOld' /\ AddsInOrder' /\ Alone'
  BY <1>1 DEF IInv, CopiesOld, AddsInOrder, Alone
<1> QED BY <1>2, <1>3 DEF IInv

-----------------------------------------------------------------------------

LEMMA InitHolds == Init => IInv
<1> SUFFICES ASSUME Init PROVE IInv
  OBVIOUS
<1>1. NoEvent \in Event /\ NoWrite \in WriteSet /\ NoEvent.hist = <<>>
  BY DEF NoEvent, NoWrite, NoEnd, Event, WriteSet
<1>2. TypeOK
  BY <1>1 DEF Init, TypeOK
<1>3. \A p \in Proc : pc[p] = "idle"
  BY DEF Init
<1>4. Started /\ Roles /\ CopiesOld /\ AddsInOrder
  BY <1>3, Procs DEF Started, Roles, CopiesOld, AddsInOrder
<1>5. Alone
  BY <1>3, Procs DEF Alone
<1>6. DOMAIN ev.hist = {}
  <2>1. ev.hist = <<>>
    BY <1>1 DEF Init
  <2>2. DOMAIN <<>> = {}
    OBVIOUS
  <2> QED BY <2>1, <2>2
<1> QED BY <1>2, <1>4, <1>5, <1>6 DEF IInv, HistoryOrdered, Preceded

LEMMA NextKeeps == IInv /\ [Next]_vars => IInv'
<1> SUFFICES ASSUME IInv, [Next]_vars PROVE IInv'
  OBVIOUS
<1>1. CASE Tick \/ UNCHANGED vars
  BY <1>1, OtherKeeps DEF Tick
<1>2. ASSUME NEW p \in Proc, Abort(p) PROVE IInv'
  BY <1>2, DoneKeeps DEF Abort
<1> QED BY <1>1, <1>2, CreateEventKeeps, PatchIncidentKeeps, ReadBatchKeeps, CheckInfoEventsKeeps,
  ModifyIncidentKeeps DEF Next

(* The inductive invariant holds in every reachable state. *)
THEOREM InvariantHolds == Spec => []IInv
BY InitHolds, NextKeeps, PTL DEF Spec

(* Whatever copies the rounds work from and whoever writes in between, backfilled *)
(* rows are in the order of the life cycle; and none is there twice unless two    *)
(* rounds overlapped (fixInfoMissedStatuses, hasStatus).                          *)
THEOREM BackfillsInOrder == Spec => []HistoryOrdered
<1>1. IInv => HistoryOrdered
  BY DEF IInv
<1> QED BY <1>1, InvariantHolds, PTL

=============================================================================
