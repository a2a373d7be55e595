-------------------------- MODULE IncidentsProofs --------------------------
(***************************************************************************)
(* Theorems about Incidents, for any handlers, components and impacts.     *)
(*                                                                         *)
(* A request writes rows from copies it read earlier, and each property    *)
(* needs its own account of these copies.  WriteInv: they are incidents,   *)
(* so that no maintenance is written.  CoverInv: the newest incident with  *)
(* a component keeps it in every copy.  SerialInv: requests served one at  *)
(* a time have fresh copies and answer truly.  PlaceInv: which incidents   *)
(* share a component meanwhile.                                            *)
(***************************************************************************)
EXTENDS Incidents, FiniteSetTheorems, SequenceTheorems, WellFoundedInduction, TLAPS

USE DEF vars, budget

-----------------------------------------------------------------------------
(* Numbers, tables and requests *)

LessNat == {s \in Nat \X Nat : s[1] < s[2]}

(* The smallest of some numbers is one of them. *)
LEMMA MinExists ==
  ASSUME NEW S \in SUBSET Nat, S # {}
  PROVE  Min(S) \in S
<1>1. IsWellFoundedOn(LessNat, Nat)
  BY NatLessThanWellFounded DEF OpToRel, LessNat
<1>2. PICK x \in S : \A y \in S : ~(<<y, x>> \in LessNat)
  BY <1>1, WFMin
<1>3. \A y \in S : ~(y < x)
  BY <1>2 DEF LessNat
<1>4. \A y \in S : x <= y
  BY <1>3
<1> QED BY <1>4 DEF Min

(* The fields of a request. *)
LEMMA Fields ==
  DOMAIN NoRequest = {"op", "todo", "comp", "impact", "status", "view", "old", "new", "close",
                      "res", "err"}
BY DEF NoRequest

(* The rows of the table. *)
LEMMA Rows ==
  ASSUME inc \in Seq(Event)
  PROVE  /\ DOMAIN inc = 1..Len(inc) /\ Len(inc) \in Nat /\ DOMAIN inc \subseteq Nat
         /\ \A i \in DOMAIN inc : inc[i] \in Event
OBVIOUS

(* An INSERT leaves the stored rows alone. *)
LEMMA Inserted ==
  ASSUME inc \in Seq(Event), NEW e \in Event, inc' = Append(inc, e)
  PROVE  /\ inc' \in Seq(Event) /\ DOMAIN inc' = DOMAIN inc \cup {Len(inc) + 1}
         /\ Len(inc) + 1 \notin DOMAIN inc /\ inc'[Len(inc) + 1] = e
         /\ \A i \in DOMAIN inc : inc'[i] = inc[i]
OBVIOUS

(* An UPDATE of one row. *)
LEMMA Updated ==
  ASSUME inc \in Seq(Event), NEW n \in DOMAIN inc, NEW e \in Event, inc' = [inc EXCEPT ![n] = e]
  PROVE  /\ inc' \in Seq(Event) /\ DOMAIN inc' = DOMAIN inc /\ inc'[n] = e
         /\ \A i \in DOMAIN inc : i # n => inc'[i] = inc[i]
OBVIOUS

(* An event stays one when a column is changed. *)
LEMMA EventEdited ==
  ASSUME NEW e \in Event
  PROVE  /\ \A b \in BOOLEAN : [e EXCEPT !.closed = b] \in Event
         /\ \A C \in SUBSET Component : [e EXCEPT !.comps = C] \in Event
         /\ \A C \in SUBSET Component, n \in Int : [e EXCEPT !.comps = C, !.version = n] \in Event
         /\ \A k \in 0..3, s \in Statuses, n \in Int :
              [e EXCEPT !.impact = k, !.status = s, !.version = n] \in Event
         /\ \A k \in 0..3, s \in Statuses, n \in Int, b \in BOOLEAN :
              [e EXCEPT !.system = b, !.version = n, !.status = s, !.impact = k] \in Event
         /\ \A k \in 0..3, s \in Statuses, n \in Int, b, d \in BOOLEAN :
              [e EXCEPT !.status = s, !.impact = k, !.version = n, !.system = b, !.closed = d] \in Event
BY DEF Event

-----------------------------------------------------------------------------
(* What a step does to the table *)

\* Rows stay, with their type; those of a maintenance unchanged.
RowsKept ==
  /\ inc' \in Seq(Event) /\ DOMAIN inc \subseteq DOMAIN inc'
  /\ \A i \in DOMAIN inc : /\ inc'[i].type = inc[i].type
                           /\ inc[i].type = "maintenance" => inc'[i] = inc[i]

\* Handlers other than h are not concerned.
OthersKept(h) ==
  /\ pc' \in [Handler -> Steps] /\ DOMAIN mem' = Handler
  /\ \A g \in Handler : g # h => pc'[g] = pc[g] /\ mem'[g] = mem[g]

LEMMA UpdateKeeps ==
  ASSUME inc \in Seq(Event), NEW n \in DOMAIN inc, NEW e \in Event, inc[n].type = "incident",
         e.type = "incident", inc' = [inc EXCEPT ![n] = e]
  PROVE  RowsKept
BY Updated DEF RowsKept

LEMMA InsertKeeps ==
  ASSUME inc \in Seq(Event), NEW e \in Event, inc' = Append(inc, e)
  PROVE  RowsKept
BY Inserted DEF RowsKept

LEMMA SaveBothIs ==
  ASSUME inc \in Seq(Event), NEW n \in DOMAIN inc, NEW o \in DOMAIN inc, NEW b \in Event, NEW a \in Event,
         SaveBoth(n, b, o, a)
  PROVE  /\ inc' \in Seq(Event) /\ DOMAIN inc' = DOMAIN inc
         /\ inc'[o] = a /\ (n # o => inc'[n] = b)
         /\ \A i \in DOMAIN inc : i # n /\ i # o => inc'[i] = inc[i]
BY DEF SaveBoth

LEMMA SaveBothKeeps ==
  ASSUME inc \in Seq(Event), NEW n \in DOMAIN inc, NEW o \in DOMAIN inc, NEW b \in Event, NEW a \in Event,
         SaveBoth(n, b, o, a), inc[n].type = "incident", inc[o].type = "incident",
         a.type = "incident", b.type = "incident"
  PROVE  RowsKept
BY SaveBothIs DEF RowsKept

(* Copies of source and target after a move. *)
LEMMA MovedType ==
  ASSUME NEW e \in Event, NEW C \in SUBSET Component, NEW close \in BOOLEAN
  PROVE  /\ MovedTo(e, C) \in Event /\ MovedTo(e, C).type = e.type
         /\ MovedFrom(e, C, close) \in Event /\ MovedFrom(e, C, close).type = e.type
<1>1. e.comps \cup C \in SUBSET Component /\ e.comps \ C \in SUBSET Component
  BY DEF Event
<1>2. MovedTo(e, C) \in Event /\ MovedTo(e, C).type = e.type
  BY <1>1 DEF MovedTo, Event
<1>3. CASE close = TRUE
  <2> DEFINE x == [e EXCEPT !.closed = TRUE, !.status = "resolved"]
  <2>1. MovedFrom(e, C, close) = x
    BY <1>3 DEF MovedFrom
  <2>2. "resolved" \in Statuses
    BY DEF Statuses, OpenStatus
  <2>3. x \in Event
    BY <2>2 DEF Event
  <2>4. x.type = e.type
    BY DEF Event
  <2> HIDE DEF x
  <2> QED BY <1>2, <2>1, <2>3, <2>4
<1>4. CASE close = FALSE
  <2> DEFINE x == [e EXCEPT !.comps = e.comps \ C]
  <2>1. MovedFrom(e, C, close) = x
    BY <1>4 DEF MovedFrom
  <2>2. x \in Event /\ x.type = e.type
    BY <1>1 DEF Event
  <2> HIDE DEF x
  <2> QED BY <1>2, <2>1, <2>2
<1> QED BY <1>2, <1>3, <1>4

LEMMA CopyOK ==
  ASSUME TypeOK, NEW h \in Handler, NEW i \in DOMAIN mem[h].view
  PROVE  /\ i \in DOMAIN inc /\ mem[h].view[i] \in Event /\ inc[i] \in Event
         /\ mem[h].view[i].type = inc[i].type
BY Rows DEF TypeOK, RequestOK

-----------------------------------------------------------------------------
(* One lemma per action: the rows and the handlers it does not concern, and *)
(* its own request.                                                         *)

\* A step of handler h keeps WriteInv.
KeptBy(h) == RowsKept /\ OthersKept(h) /\ RequestOK(mem[h])' /\ Targets(h)'

LEMMA Moves ==
  ASSUME TypeOK, NEW h \in Handler, NEW n, NEW step \in Steps,
         mem' = [mem EXCEPT ![h] = n], pc' = [pc EXCEPT ![h] = step] \/ (pc[h] = step /\ pc' = pc)
  PROVE  OthersKept(h) /\ mem'[h] = n /\ pc'[h] = step
BY DEF TypeOK, OthersKept

LEMMA Stays ==
  ASSUME TypeOK, UNCHANGED inc
  PROVE  RowsKept
BY DEF TypeOK, RowsKept

\* A request that copies only what is stored is a good one.
LEMMA NoRequestOK == RequestOK(NoRequest)' /\ RequestOK(NoRequest)
<1>1. DOMAIN NoRequest.view = {}
  <2>1. DOMAIN <<>> = {}
    OBVIOUS
  <2> QED BY <2>1 DEF NoRequest
<1>2. NoRequest.todo = {} /\ NoRequest.comp = {} /\ NoRequest.impact = 0 /\ NoRequest.status = ""
  BY DEF NoRequest
<1>3. NoRequest.impact \in 0..3 /\ NoRequest.status \in Statuses /\ NoRequest.close \in BOOLEAN
  <2>1. NoRequest.status \in Statuses
    BY DEF Statuses, NoRequest
  <2>2. NoRequest.impact \in 0..3
    BY DEF NoRequest
  <2>3. NoRequest.close \in BOOLEAN
    BY DEF NoRequest
  <2> QED BY <2>1, <2>2, <2>3
<1>4. NoRequest.todo \subseteq Component /\ NoRequest.comp \subseteq Component
  BY <1>2
<1>5. RequestOK(NoRequest)
  BY <1>1, <1>3, <1>4 DEF RequestOK
<1>6. RequestOK(NoRequest)'
  BY <1>1, <1>3, <1>4 DEF RequestOK
<1> QED BY <1>5, <1>6

LEMMA FinishKeeps ==
  ASSUME WriteInv, NEW h \in Handler, Finish(h), UNCHANGED inc
  PROVE  KeptBy(h)
<1>1. OthersKept(h) /\ mem'[h] = NoRequest /\ pc'[h] = "idle"
  BY Moves DEF Finish, Go, WriteInv, Steps
<1>2. RowsKept
  BY Stays DEF WriteInv
<1>3. Targets(h)'
  BY <1>1 DEF Targets
<1> QED BY <1>1, <1>2, <1>3, NoRequestOK DEF KeptBy

LEMMA CopiesOK ==
  ASSUME TypeOK, NEW S \in SUBSET DOMAIN inc
  PROVE  /\ DOMAIN Copies(S) = S /\ \A i \in S : Copies(S)[i] = inc[i]
         /\ \A i \in DOMAIN Copies(S) : Copies(S)[i] \in Event /\ Copies(S)[i].type = inc[i].type
BY Rows DEF TypeOK, Copies

LEMMA PostSystemKeeps ==
  ASSUME WriteInv, NEW h \in Handler, PostSystem(h)
  PROVE  KeptBy(h)
<1>1. PICK C \in SUBSET Component \ {{}}, k \in Impact :
       mem' = [mem EXCEPT ![h] = [NoRequest EXCEPT !.op = "system", !.todo = C, !.impact = k]]
  BY DEF PostSystem
<1> DEFINE n == [NoRequest EXCEPT !.op = "system", !.todo = C, !.impact = k]
<1>2. OthersKept(h) /\ mem'[h] = n /\ pc'[h] = "next"
  BY <1>1, Moves DEF PostSystem, Go, WriteInv, Steps
<1>3. RowsKept /\ UNCHANGED inc
  BY Stays DEF PostSystem, WriteInv
<1>4. RequestOK(n)
  <2>1. /\ DOMAIN n = DOMAIN NoRequest /\ n.todo = C /\ n.impact = k /\ n.comp = NoRequest.comp
        /\ n.view = NoRequest.view /\ n.status = NoRequest.status /\ n.close = NoRequest.close
    BY Fields
  <2>2. k \in 0..3
    BY IncidentsAssumption
  <2> HIDE DEF n
  <2> QED BY <2>1, <2>2, NoRequestOK DEF RequestOK
<1> HIDE DEF n
<1>5. RequestOK(mem[h])'
  BY <1>2, <1>3, <1>4 DEF RequestOK
<1>6. Targets(h)'
  BY <1>2 DEF Targets
<1> QED BY <1>2, <1>3, <1>5, <1>6 DEF KeptBy

(* The fields of an answer: the component in work gets its incident. *)
LEMMA AnswerIs ==
  ASSUME NEW m, DOMAIN m = DOMAIN NoRequest, NEW i
  PROVE  /\ DOMAIN Answer(m, i) = DOMAIN NoRequest
         /\ Answer(m, i).op = m.op /\ Answer(m, i).todo = m.todo /\ Answer(m, i).comp = m.comp
         /\ Answer(m, i).impact = m.impact /\ Answer(m, i).status = m.status
         /\ Answer(m, i).view = m.view /\ Answer(m, i).old = m.old /\ Answer(m, i).new = m.new
         /\ Answer(m, i).close = m.close /\ Answer(m, i).err = m.err
         /\ DOMAIN Answer(m, i).res = DOMAIN m.res \cup m.comp
         /\ \A c \in m.comp : Answer(m, i).res[c] = i
         /\ \A c \in DOMAIN m.res \ m.comp : Answer(m, i).res[c] = m.res[c]
BY Fields DEF Answer, Put

LEMMA AnswerOK ==
  ASSUME NEW m, RequestOK(m), NEW i
  PROVE  RequestOK(Answer(m, i))
<1> DEFINE n == Answer(m, i)
<1>1. /\ DOMAIN n = DOMAIN NoRequest /\ n.todo = m.todo /\ n.comp = m.comp /\ n.impact = m.impact
      /\ n.status = m.status /\ n.view = m.view /\ n.close = m.close
  BY AnswerIs DEF RequestOK
<1> HIDE DEF n
<1>2. RequestOK(n)
  BY <1>1 DEF RequestOK
<1> QED BY <1>2 DEF n

\* A handler's request while it serves the component c.
Serving(m, c) == [m EXCEPT !.todo = @ \ {c}, !.comp = {c}, !.old = 0, !.new = 0, !.view = <<>>]

LEMMA ServingIs ==
  ASSUME NEW m, RequestOK(m), NEW c \in m.todo
  PROVE  /\ Serving(m, c).op = m.op /\ Serving(m, c).todo = m.todo \ {c} /\ Serving(m, c).comp = {c}
         /\ Serving(m, c).impact = m.impact /\ Serving(m, c).old = 0
         /\ Serving(m, c).res = m.res /\ Serving(m, c).err = m.err
         /\ DOMAIN Serving(m, c).view = {}
         /\ RequestOK(Serving(m, c))
<1> DEFINE n == Serving(m, c)
<1>1. DOMAIN <<>> = {}
  OBVIOUS
<1>2. /\ DOMAIN n = DOMAIN NoRequest /\ n.op = m.op /\ n.todo = m.todo \ {c} /\ n.comp = {c}
      /\ n.impact = m.impact /\ n.old = 0 /\ n.res = m.res /\ n.err = m.err /\ n.view = <<>>
      /\ n.status = m.status /\ n.close = m.close
  BY Fields DEF RequestOK, Serving
<1> HIDE DEF n
<1>3. RequestOK(n) /\ DOMAIN n.view = {}
  BY <1>1, <1>2 DEF RequestOK
<1> QED BY <1>2, <1>3 DEF n

\* The active events of component c, and those at which its walk ends.
EventsOf(c) == {i \in Active : c \in inc[i].comps}
StopsOf(c) == {i \in EventsOf(c) : inc[i].type = "maintenance" \/ ~inc[i].system}

\* ProcessSystem serves component c, which leaves the request n.
Processed(h, c, n) ==
  /\ mem' = [mem EXCEPT ![h] = n]
  /\ \/ \E i \in StopsOf(c) : /\ n = [Answer(Serving(mem[h], c), i) EXCEPT !.err = @ \cup
                                     IF inc[i].type = "maintenance" THEN {c} ELSE {}]
                              /\ pc' = pc
     \/ EventsOf(c) = {} /\ n = Serving(mem[h], c) /\ Go(h, "target")
     \/ \E i \in EventsOf(c) : /\ StopsOf(c) = {} /\ inc[i].impact >= mem[h].impact
                               /\ n = Answer(Serving(mem[h], c), i) /\ pc' = pc
     \/ \E i \in EventsOf(c) : /\ StopsOf(c) = {} /\ inc[i].impact < mem[h].impact
                               /\ n = [Serving(mem[h], c) EXCEPT !.old = i, !.view = Copies({i})]
                               /\ Go(h, "target")

(* What ProcessSystem does for a component. *)
LEMMA ProcessSystemIs ==
  ASSUME WriteInv, NEW h \in Handler, ProcessSystem(h)
  PROVE  \E c \in mem[h].todo : \E n : Processed(h, c, n)
<1>1. PICK c \in mem[h].todo :
       LET m == Serving(mem[h], c)  events == EventsOf(c)  stops == StopsOf(c)
       IN \/ /\ stops # {}
             /\ LET i == Min(stops)
                    e == IF inc[i].type = "maintenance" THEN {c} ELSE {}
                IN mem' = [mem EXCEPT ![h] = [Answer(m, i) EXCEPT !.err = @ \cup e]]
             /\ UNCHANGED pc
          \/ /\ stops = {} /\ events = {}
             /\ mem' = [mem EXCEPT ![h] = m] /\ Go(h, "target")
          \/ /\ stops = {} /\ events # {} /\ inc[Min(events)].impact >= m.impact
             /\ mem' = [mem EXCEPT ![h] = Answer(m, Min(events))]
             /\ UNCHANGED pc
          \/ /\ stops = {} /\ events # {} /\ inc[Min(events)].impact < m.impact
             /\ mem' = [mem EXCEPT ![h] = [m EXCEPT !.old = Min(events),
                                                    !.view = Copies({Min(events)})]]
             /\ Go(h, "target")
  BY DEF ProcessSystem, Serving, EventsOf, StopsOf
<1>2. StopsOf(c) \subseteq EventsOf(c) /\ EventsOf(c) \in SUBSET Nat /\ StopsOf(c) \in SUBSET Nat
  BY Rows DEF WriteInv, TypeOK, EventsOf, StopsOf, Active
<1>3. /\ StopsOf(c) # {} => Min(StopsOf(c)) \in StopsOf(c)
      /\ EventsOf(c) # {} => Min(EventsOf(c)) \in EventsOf(c)
  BY <1>2, MinExists
<1>4. Serving(mem[h], c).impact = mem[h].impact
  BY ServingIs DEF WriteInv, TypeOK
<1> QED BY <1>1, <1>3, <1>4 DEF Processed

(* A request in memory whose copies are good replaces another one. *)
LEMMA RequestKept ==
  ASSUME TypeOK, RowsKept, NEW m, RequestOK(m)
  PROVE  RequestOK(m)'
BY DEF RequestOK, RowsKept, TypeOK

LEMMA ProcessSystemKeeps ==
  ASSUME WriteInv, NEW h \in Handler, ProcessSystem(h)
  PROVE  KeptBy(h)
<1>0. RowsKept /\ UNCHANGED inc /\ TypeOK /\ RequestOK(mem[h]) /\ pc[h] = "next"
  BY Stays DEF ProcessSystem, WriteInv, TypeOK
<1>1. PICK c \in mem[h].todo : \E n : Processed(h, c, n)
  BY ProcessSystemIs
<1>n. PICK n : Processed(h, c, n)
  BY <1>1
<1> DEFINE m == Serving(mem[h], c)
<1>2. /\ RequestOK(m) /\ DOMAIN m = DOMAIN NoRequest /\ m.old = 0
  BY <1>0, ServingIs DEF RequestOK
<1> HIDE DEF m
<1>3. RequestOK(n) /\ (pc' = pc \/ (Go(h, "target") /\ (n.old = 0 \/ HasCopy(n, n.old))))
  <2>1. CASE \E i \in StopsOf(c) : /\ n = [Answer(m, i) EXCEPT !.err = @ \cup
                                           IF inc[i].type = "maintenance" THEN {c} ELSE {}]
                                   /\ pc' = pc
    <3>1. PICK i \in StopsOf(c) : /\ n = [Answer(m, i) EXCEPT !.err = @ \cup
                                           IF inc[i].type = "maintenance" THEN {c} ELSE {}]
                                  /\ pc' = pc
      BY <2>1
    <3> DEFINE a == Answer(m, i)
    <3>2. RequestOK(a) /\ DOMAIN a = DOMAIN NoRequest
      BY <1>2, AnswerOK DEF RequestOK
    <3> HIDE DEF a
    <3>3. /\ DOMAIN n = DOMAIN NoRequest /\ n.todo = a.todo /\ n.comp = a.comp /\ n.impact = a.impact
          /\ n.status = a.status /\ n.view = a.view /\ n.close = a.close
      BY <3>1, <3>2, Fields DEF a
    <3>4. RequestOK(n)
      BY <3>2, <3>3 DEF RequestOK
    <3> QED BY <3>1, <3>4
  <2>2. CASE EventsOf(c) = {} /\ n = m /\ Go(h, "target")
    BY <1>2, <2>2
  <2>3. CASE \E i \in EventsOf(c) : n = Answer(m, i) /\ pc' = pc
    <3>1. PICK i \in EventsOf(c) : n = Answer(m, i) /\ pc' = pc
      BY <2>3
    <3>2. RequestOK(Answer(m, i))
      BY <1>2, AnswerOK
    <3> QED BY <3>1, <3>2
  <2>4. CASE \E i \in EventsOf(c) : /\ StopsOf(c) = {}
                                    /\ n = [m EXCEPT !.old = i, !.view = Copies({i})]
                                    /\ Go(h, "target")
    <3>1. PICK i \in EventsOf(c) : StopsOf(c) = {} /\ n = [m EXCEPT !.old = i, !.view = Copies({i})]
      BY <2>4
    <3>2. i \in DOMAIN inc /\ inc[i].type = "incident"
      BY <1>0, <3>1, Rows DEF EventsOf, StopsOf, Active, TypeOK, Event
    <3> DEFINE v == Copies({i})
    <3>3. DOMAIN v = {i} /\ v[i] \in Event /\ v[i].type = inc[i].type
      BY <1>0, <3>2, CopiesOK
    <3> HIDE DEF v
    <3>4. /\ DOMAIN n = DOMAIN NoRequest /\ n.todo = m.todo /\ n.comp = m.comp /\ n.impact = m.impact
          /\ n.status = m.status /\ n.view = v /\ n.close = m.close /\ n.old = i
      BY <1>2, <3>1, Fields DEF v
    <3>5. RequestOK(n)
      BY <1>2, <3>2, <3>3, <3>4 DEF RequestOK
    <3>6. HasCopy(n, n.old)
      BY <3>2, <3>3, <3>4 DEF HasCopy
    <3> QED BY <2>4, <3>5, <3>6
  <2> QED BY <1>n, <2>1, <2>2, <2>3, <2>4 DEF m, Processed
<1>4. CASE pc' = pc
  <2>1. OthersKept(h) /\ mem'[h] = n /\ pc'[h] = "next"
    BY <1>0, <1>n, <1>4, Moves DEF Steps, Processed
  <2>2. Targets(h)'
    BY <2>1 DEF Targets
  <2> QED BY <1>0, <1>3, <2>1, <2>2, RequestKept DEF KeptBy
<1>5. CASE Go(h, "target") /\ (n.old = 0 \/ HasCopy(n, n.old))
  <2>1. OthersKept(h) /\ mem'[h] = n /\ pc'[h] = "target"
    BY <1>0, <1>n, <1>5, Moves DEF Steps, Go, Processed
  <2>2. Targets(h)'
    BY <1>0, <1>5, <2>1 DEF Targets, HasCopy
  <2> QED BY <1>0, <1>3, <2>1, <2>2, RequestKept DEF KeptBy
<1> QED BY <1>3, <1>4, <1>5

(* One set of copies put over another. *)
LEMMA PutIs ==
  ASSUME NEW f, NEW g
  PROVE  /\ DOMAIN Put(f, g) = DOMAIN f \cup DOMAIN g
         /\ \A x \in DOMAIN g : Put(f, g)[x] = g[x]
         /\ \A x \in DOMAIN f \ DOMAIN g : Put(f, g)[x] = f[x]
BY DEF Put

LEMMA OneIs ==
  ASSUME NEW x, NEW y
  PROVE  DOMAIN One(x, y) = {x} /\ One(x, y)[x] = y
BY DEF One

LEMMA FindTargetKeeps ==
  ASSUME WriteInv, NEW h \in Handler, FindTarget(h)
  PROVE  KeptBy(h)
<1>0. RowsKept /\ UNCHANGED inc /\ TypeOK /\ RequestOK(mem[h]) /\ pc[h] = "target" /\ Targets(h)
  BY Stays DEF FindTarget, WriteInv, TypeOK
<1>1. DOMAIN mem = Handler /\ DOMAIN mem[h] = DOMAIN NoRequest
  BY <1>0 DEF TypeOK, RequestOK
<1>2. CASE \E t \in Incidents :
             /\ mem' = [mem EXCEPT ![h].new = t, ![h].view = Put(Copies({t}), mem[h].view),
                                   ![h].close = Cardinality(inc[t].comps) = 1]
             /\ Go(h, IF mem[h].old = 0 THEN "add" ELSE "move")
  <2>1. PICK t \in Incidents :
             /\ mem' = [mem EXCEPT ![h].new = t, ![h].view = Put(Copies({t}), mem[h].view),
                                   ![h].close = Cardinality(inc[t].comps) = 1]
             /\ Go(h, IF mem[h].old = 0 THEN "add" ELSE "move")
    BY <1>2
  <2> DEFINE m == mem[h]  v == Put(Copies({t}), m.view)  b == Cardinality(inc[t].comps) = 1
             n == [m EXCEPT !.new = t, !.view = v, !.close = b]
             step == IF m.old = 0 THEN "add" ELSE "move"
  <2>2. t \in DOMAIN inc /\ inc[t].type = "incident"
    BY <2>1 DEF Incidents, Active
  <2>3. DOMAIN Copies({t}) = {t} /\ Copies({t})[t] = inc[t] /\ inc[t] \in Event
    BY <1>0, <2>2, CopiesOK, Rows DEF TypeOK
  <2>4. DOMAIN v = {t} \cup DOMAIN m.view /\ \A i \in DOMAIN v : v[i] \in Event /\ v[i].type = inc[i].type
    <3> DEFINE w == Copies({t})  u == m.view
    <3>1. DOMAIN w = {t} /\ w[t] \in Event /\ w[t].type = inc[t].type
      BY <2>3
    <3>2. \A i \in DOMAIN u : u[i] \in Event /\ u[i].type = inc[i].type
      BY <1>0 DEF RequestOK
    <3> HIDE DEF w, u
    <3>3. DOMAIN Put(w, u) = {t} \cup DOMAIN u
      BY <3>1, PutIs
    <3>4. ASSUME NEW i \in {t} \cup DOMAIN u
          PROVE  Put(w, u)[i] \in Event /\ Put(w, u)[i].type = inc[i].type
      <4>1. CASE i \in DOMAIN u
        BY <3>2, <4>1 DEF Put
      <4>2. CASE i \notin DOMAIN u
        BY <3>1, <4>2 DEF Put
      <4> QED BY <4>1, <4>2
    <3> QED BY <3>3, <3>4 DEF w, u
  <2>5. b \in BOOLEAN
    OBVIOUS
  <2> HIDE DEF v, b
  <2>6. mem' = [mem EXCEPT ![h] = n]
    BY <1>1, <2>1, Fields DEF v, b
  <2>7. /\ DOMAIN n = DOMAIN NoRequest /\ n.todo = m.todo /\ n.comp = m.comp /\ n.impact = m.impact
        /\ n.status = m.status /\ n.view = v /\ n.close = b /\ n.old = m.old /\ n.new = t
    BY <1>1, Fields
  <2> HIDE DEF n
  <2>8. RequestOK(n)
    BY <1>0, <2>2, <2>4, <2>5, <2>7 DEF RequestOK
  <2>9. OthersKept(h) /\ mem'[h] = n /\ pc'[h] = step
    BY <1>0, <2>1, <2>6, Moves DEF Steps, Go
  <2>10. Targets(h)'
    BY <1>0, <2>2, <2>4, <2>7, <2>9 DEF Targets, HasCopy
  <2> QED BY <1>0, <2>8, <2>9, <2>10, RequestKept DEF KeptBy
<1>3. CASE /\ UNCHANGED mem
           /\ Go(h, IF mem[h].old = 0 THEN "create"
                    ELSE IF Cardinality(mem[h].view[mem[h].old].comps) = 1 THEN "raise" ELSE "extract")
  <2>1. PICK step \in {"create", "raise", "extract"} : Go(h, step) /\ (step # "create" => mem[h].old # 0)
    BY <1>3
  <2>2. OthersKept(h) /\ mem'[h] = mem[h] /\ pc'[h] = step
    BY <1>0, <1>1, <1>3, <2>1 DEF TypeOK, OthersKept, Go, Steps
  <2>3. Targets(h)'
    BY <1>0, <2>1, <2>2 DEF Targets, HasCopy
  <2> QED BY <1>0, <2>2, <2>3, RequestKept DEF KeptBy
<1> QED BY <1>2, <1>3 DEF FindTarget

LEMMA AddComponentKeeps ==
  ASSUME WriteInv, NEW h \in Handler, AddComponentToIncident(h)
  PROVE  KeptBy(h)
<1>0. TypeOK /\ RequestOK(mem[h]) /\ pc[h] = "add" /\ HasCopy(mem[h], mem[h].new)
  BY DEF AddComponentToIncident, WriteInv, TypeOK, Targets
<1> DEFINE m == mem[h]  t == m.new
<1>1. t \in DOMAIN inc /\ inc[t] \in Event /\ inc[t].type = "incident" /\ inc \in Seq(Event)
  BY <1>0, CopyOK DEF HasCopy, TypeOK
<1>2. CASE /\ inc' = [inc EXCEPT ![t].comps = @ \cup m.comp, ![t].version = @ + 1]
           /\ mem' = [mem EXCEPT ![h] = Answer(m, t)] /\ Go(h, "next")
  <2> DEFINE e == [inc[t] EXCEPT !.comps = @ \cup m.comp, !.version = @ + 1]
  <2>1. e \in Event /\ e.type = "incident"
    <3>1. inc[t].comps \cup m.comp \in SUBSET Component /\ inc[t].version + 1 \in Int
      BY <1>0, <1>1 DEF Event, RequestOK
    <3> QED BY <1>1, <3>1 DEF Event
  <2>2. inc' = [inc EXCEPT ![t] = e]
    BY <1>1, <1>2 DEF Event
  <2> HIDE DEF e
  <2>3. RowsKept
    BY <1>1, <2>1, <2>2, UpdateKeeps
  <2>4. OthersKept(h) /\ mem'[h] = Answer(m, t) /\ pc'[h] = "next"
    BY <1>0, <1>2, Moves DEF Steps, Go
  <2>5. RequestOK(mem[h])'
    BY <1>0, <2>3, <2>4, AnswerOK, RequestKept
  <2>6. Targets(h)'
    BY <2>4 DEF Targets
  <2> QED BY <2>3, <2>4, <2>5, <2>6 DEF KeptBy
<1>3. CASE Finish(h) /\ UNCHANGED inc
  BY <1>3, FinishKeeps
<1> QED BY <1>2, <1>3 DEF AddComponentToIncident

(* An event to be stored. *)
LEMMA NewEventIs ==
  ASSUME NEW impact \in 0..3, NEW comps \in SUBSET Component, NEW s \in Statuses, NEW e,
         e = [type |-> "incident", system |-> TRUE, impact |-> impact, comps |-> comps, closed |-> FALSE,
              version |-> 2, status |-> s]
  PROVE  /\ e \in Event /\ e.type = "incident" /\ e.system /\ ~e.closed
         /\ e.impact = impact /\ e.comps = comps
BY DEF Event

LEMMA CreateSystemKeeps ==
  ASSUME WriteInv, NEW h \in Handler, CreateSystem(h)
  PROVE  KeptBy(h)
<1>0. TypeOK /\ RequestOK(mem[h])
  BY DEF WriteInv, TypeOK
<1> DEFINE e == NewEvent("incident", TRUE, mem[h].impact, mem[h].comp)
<1>1. e \in Event /\ e.type = "incident"
  <2>1. mem[h].impact \in 0..3 /\ mem[h].comp \in SUBSET Component
    BY <1>0 DEF RequestOK
  <2>2. "detected" \in Statuses
    BY DEF Statuses, OpenStatus
  <2>3. PICK s \in Statuses : s = "detected"
    BY <2>2
  <2>4. e = [type |-> "incident", system |-> TRUE, impact |-> mem[h].impact, comps |-> mem[h].comp,
             closed |-> FALSE, version |-> 2, status |-> s]
    BY <2>3 DEF NewEvent
  <2> HIDE DEF e
  <2> QED BY ONLY <2>1, <2>3, <2>4, NewEventIs
<1>2. inc' = Append(inc, e)
  BY DEF CreateSystem
<1> HIDE DEF e
<1>3. RowsKept
  BY <1>0, <1>1, <1>2, InsertKeeps DEF TypeOK
<1>4. OthersKept(h) /\ mem'[h] = Answer(mem[h], Len(inc) + 1) /\ pc'[h] = "next"
  BY <1>0, Moves DEF CreateSystem, Steps, Go
<1>5. RequestOK(mem[h])'
  BY <1>0, <1>3, <1>4, AnswerOK, RequestKept
<1>6. Targets(h)'
  BY <1>4 DEF Targets
<1> QED BY <1>3, <1>4, <1>5, <1>6 DEF KeptBy

LEMMA IncreaseKeeps ==
  ASSUME WriteInv, NEW h \in Handler, IncreaseIncidentImpact(h)
  PROVE  KeptBy(h)
<1>0. TypeOK /\ RequestOK(mem[h]) /\ HasCopy(mem[h], mem[h].old)
  BY DEF IncreaseIncidentImpact, WriteInv, TypeOK, Targets
<1> DEFINE m == mem[h]  t == m.old  c == m.view[t]
           e == [inc[t] EXCEPT !.impact = m.impact, !.status = c.status, !.version = c.version]
<1>1. /\ t \in DOMAIN inc /\ inc[t] \in Event /\ inc[t].type = "incident" /\ inc \in Seq(Event)
      /\ c \in Event /\ m.impact \in 0..3
  BY <1>0, CopyOK DEF HasCopy, TypeOK, RequestOK
<1>2. e \in Event /\ e.type = "incident"
  BY <1>1 DEF Event
<1>3. inc' = [inc EXCEPT ![t] = e]
  BY <1>1 DEF IncreaseIncidentImpact, Event
<1> HIDE DEF e
<1>4. RowsKept
  BY <1>1, <1>2, <1>3, UpdateKeeps
<1>5. OthersKept(h) /\ mem'[h] = Answer(m, t) /\ pc'[h] = "next"
  BY <1>0, Moves DEF IncreaseIncidentImpact, Steps, Go
<1>6. RequestOK(mem[h])'
  BY <1>0, <1>4, <1>5, AnswerOK, RequestKept
<1>7. Targets(h)'
  BY <1>5 DEF Targets
<1> QED BY <1>4, <1>5, <1>6, <1>7 DEF KeptBy

LEMMA MarkSystemKeeps ==
  ASSUME WriteInv, NEW h \in Handler, MarkSystem(h)
  PROVE  KeptBy(h)
<1>0. TypeOK /\ RequestOK(mem[h]) /\ HasCopy(mem[h], mem[h].new)
  BY DEF MarkSystem, WriteInv, TypeOK, Targets
<1> DEFINE m == mem[h]  t == m.new  c == m.view[t]
           e == [inc[t] EXCEPT !.system = TRUE, !.version = c.version + 1, !.status = c.status,
                               !.impact = c.impact]
<1>1. /\ t \in DOMAIN inc /\ inc[t] \in Event /\ inc[t].type = "incident" /\ inc \in Seq(Event)
      /\ c \in Event
  BY <1>0, CopyOK DEF HasCopy, TypeOK
<1>2. e \in Event /\ e.type = "incident"
  <2>1. c.version + 1 \in Int /\ c.status \in Statuses /\ c.impact \in 0..3
    BY <1>1 DEF Event
  <2> QED BY <1>1, <2>1 DEF Event
<1>3. inc' = [inc EXCEPT ![t] = e]
  BY <1>1 DEF MarkSystem, Event
<1> HIDE DEF e
<1>4. RowsKept
  BY <1>1, <1>2, <1>3, UpdateKeeps
<1>5. OthersKept(h) /\ mem'[h] = Answer(m, t) /\ pc'[h] = "next"
  BY <1>0, Moves DEF MarkSystem, Steps, Go
<1>6. RequestOK(mem[h])'
  BY <1>0, <1>4, <1>5, AnswerOK, RequestKept
<1>7. Targets(h)'
  BY <1>5 DEF Targets
<1> QED BY <1>4, <1>5, <1>6, <1>7 DEF KeptBy

LEMMA MoveComponentKeeps ==
  ASSUME WriteInv, NEW h \in Handler, MoveComponent(h)
  PROVE  KeptBy(h)
<1>0. TypeOK /\ RequestOK(mem[h]) /\ HasCopy(mem[h], mem[h].new) /\ HasCopy(mem[h], mem[h].old)
  BY DEF MoveComponent, WriteInv, TypeOK, Targets
<1> DEFINE m == mem[h]
           b == MovedTo(m.view[m.new], m.comp)
           a == MovedFrom(m.view[m.old], m.comp, m.close)
<1>1. /\ m.new \in DOMAIN inc /\ inc[m.new].type = "incident" /\ inc \in Seq(Event)
      /\ m.view[m.new] \in Event /\ m.view[m.new].type = "incident"
      /\ m.old \in DOMAIN inc /\ inc[m.old].type = "incident"
      /\ m.view[m.old] \in Event /\ m.view[m.old].type = "incident"
      /\ m.comp \in SUBSET Component /\ m.close \in BOOLEAN
  BY <1>0, CopyOK DEF HasCopy, TypeOK, RequestOK
<1>2. a \in Event /\ b \in Event /\ a.type = "incident" /\ b.type = "incident"
  BY <1>1, MovedType
<1>3. SaveBoth(m.new, b, m.old, a)
  BY DEF MoveComponent
<1> HIDE DEF a, b
<1>4. RowsKept
  BY <1>1, <1>2, <1>3, SaveBothKeeps
<1>5. OthersKept(h) /\ mem'[h] = Answer(m, m.new) /\ pc'[h] = "next"
  BY <1>0, Moves DEF MoveComponent, Steps, Go
<1>6. RequestOK(mem[h])'
  BY <1>0, <1>4, <1>5, AnswerOK, RequestKept
<1>7. Targets(h)'
  BY <1>5 DEF Targets
<1> QED BY <1>4, <1>5, <1>6, <1>7 DEF KeptBy

\* The incident that ExtractSave stores.
Extracted(m) ==
  [type |-> "incident", system |-> FALSE, impact |-> m.impact, comps |-> m.comp,
   closed |-> FALSE, version |-> 1, status |-> "SYSTEM"]

(* A copy of a new row is added to a request. *)
LEMMA CopyAdded ==
  ASSUME TypeOK, NEW m, RequestOK(m), NEW e \in Event, inc' = Append(inc, e),
         NEW n, DOMAIN n = DOMAIN NoRequest, n.todo = m.todo, n.comp = m.comp, n.impact = m.impact,
         n.status = m.status, n.close = m.close, n.view = Put(m.view, One(Len(inc) + 1, e))
  PROVE  /\ RequestOK(n)' /\ Len(inc) + 1 \in DOMAIN n.view
         /\ DOMAIN n.view = DOMAIN m.view \cup {Len(inc) + 1}
         /\ inc'[Len(inc) + 1] = e /\ n.view[Len(inc) + 1] = e
         /\ \A i \in DOMAIN m.view : i # Len(inc) + 1 /\ i \in DOMAIN inc /\ n.view[i] = m.view[i]
<1> DEFINE w == One(Len(inc) + 1, e)  u == m.view  k == Len(inc) + 1
<1>1. DOMAIN w = {k} /\ w[k] = e
  BY OneIs
<1>2. /\ inc' \in Seq(Event) /\ DOMAIN inc' = DOMAIN inc \cup {k} /\ k \notin DOMAIN inc /\ inc'[k] = e
      /\ \A i \in DOMAIN inc : inc'[i] = inc[i]
  BY Inserted DEF TypeOK
<1>3. DOMAIN u \subseteq DOMAIN inc /\ \A i \in DOMAIN u : u[i] \in Event /\ u[i].type = inc[i].type
  BY DEF RequestOK
<1>4. n.view = Put(u, w)
  OBVIOUS
<1> HIDE DEF w, u, k
<1>5. DOMAIN n.view = DOMAIN u \cup {k} /\ n.view[k] = e /\ \A i \in DOMAIN u : n.view[i] = u[i] /\ i # k
  BY <1>1, <1>2, <1>3, <1>4 DEF Put
<1>6. \A i \in DOMAIN n.view : n.view[i] \in Event /\ n.view[i].type = inc'[i].type
  BY <1>2, <1>3, <1>5
<1>7. RequestOK(n)'
  BY <1>2, <1>3, <1>5, <1>6 DEF RequestOK
<1> QED BY <1>2, <1>3, <1>5, <1>7 DEF u, k

LEMMA ExtractSaveIs ==
  ASSUME WriteInv, NEW h \in Handler, ExtractSave(h)
  PROVE  /\ KeptBy(h) /\ pc'[h] = "extract_tx"
         /\ Extracted(mem[h]) \in Event /\ inc' = Append(inc, Extracted(mem[h]))
         /\ \E n : /\ mem'[h] = n /\ n.op = mem[h].op /\ n.todo = mem[h].todo /\ n.comp = mem[h].comp
                   /\ n.impact = mem[h].impact /\ n.res = mem[h].res /\ n.err = mem[h].err
                   /\ n.old = mem[h].old /\ n.new = Len(inc) + 1
                   /\ n.view = Put(mem[h].view, One(Len(inc) + 1, Extracted(mem[h])))
<1>0. TypeOK /\ RequestOK(mem[h]) /\ HasCopy(mem[h], mem[h].old) /\ DOMAIN mem = Handler
  BY DEF ExtractSave, WriteInv, TypeOK, Targets
<1> DEFINE m == mem[h]  k == Len(inc) + 1  e == Extracted(m)
           v == Put(m.view, One(k, e))
<1>1. e \in Event /\ e.type = "incident"
  <2>0. "SYSTEM" \in Statuses
    BY DEF Statuses
  <2>1. m.impact \in 0..3 /\ m.comp \in SUBSET Component /\ 1 \in Int
    BY <1>0 DEF RequestOK
  <2> QED BY ONLY <2>0, <2>1 DEF Extracted, Event
<1>2. inc' = Append(inc, e) /\ mem' = [mem EXCEPT ![h].new = k, ![h].view = v] /\ Go(h, "extract_tx")
  <2>1. mem' = [mem EXCEPT ![h].new = k, ![h].view = Put(@, One(k, e))]
    BY DEF ExtractSave, Extracted
  <2>2. mem[h].view = m.view /\ DOMAIN m = DOMAIN NoRequest
    BY <1>0 DEF RequestOK
  <2> HIDE DEF e, k
  <2>3. mem' = [mem EXCEPT ![h].new = k, ![h].view = v]
    BY <1>0, <2>1, <2>2, Fields
  <2> QED BY <2>3 DEF ExtractSave, Extracted, e, k
<1> HIDE DEF e, v
<1>n. PICK n : n = [m EXCEPT !.new = k, !.view = v]
  OBVIOUS
<1>3. mem' = [mem EXCEPT ![h] = n]
  BY <1>0, <1>2, <1>n, Fields DEF RequestOK
<1>4. /\ DOMAIN n = DOMAIN NoRequest /\ n.todo = m.todo /\ n.comp = m.comp /\ n.impact = m.impact
      /\ n.status = m.status /\ n.close = m.close /\ n.view = v /\ n.new = k /\ n.old = m.old
      /\ n.op = m.op /\ n.res = m.res /\ n.err = m.err
  BY <1>0, <1>n, Fields DEF RequestOK
<1>5. RequestOK(n)' /\ k \in DOMAIN n.view /\ inc'[k] = e /\ DOMAIN m.view \subseteq DOMAIN n.view
  <2>1. n.view = Put(m.view, One(Len(inc) + 1, e))
    BY <1>4 DEF v
  <2> QED BY <1>0, <1>1, <1>2, <1>4, <2>1, CopyAdded
<1>6. RowsKept
  BY <1>0, <1>1, <1>2, InsertKeeps DEF TypeOK
<1>7. OthersKept(h) /\ mem'[h] = n /\ pc'[h] = "extract_tx"
  BY <1>0, <1>2, <1>3, Moves DEF Steps, Go
<1>8. Targets(h)'
  <2>1. inc'[m.old].type = "incident" /\ m.old \in DOMAIN m.view
    BY <1>0, <1>6 DEF HasCopy, RowsKept, RequestOK
  <2> QED BY <1>1, <1>4, <1>5, <1>7, <2>1 DEF Targets, HasCopy
<1>9. RequestOK(mem[h])'
  BY <1>5, <1>7
<1>10. KeptBy(h)
  BY <1>6, <1>7, <1>8, <1>9 DEF KeptBy
<1> QED BY <1>1, <1>2, <1>4, <1>7, <1>10 DEF e, v

LEMMA ExtractSaveKeeps ==
  ASSUME WriteInv, NEW h \in Handler, ExtractSave(h)
  PROVE  KeptBy(h)
BY ExtractSaveIs

LEMMA ExtractTxIs ==
  ASSUME WriteInv, NEW h \in Handler, ExtractTx(h)
  PROVE  /\ KeptBy(h)
         /\ SaveBoth(mem[h].new, mem[h].view[mem[h].new], mem[h].old,
                     MovedFrom(mem[h].view[mem[h].old], mem[h].comp, FALSE))
         /\ mem'[h] = IF mem[h].op = "system" THEN mem[h] ELSE Answer(mem[h], mem[h].new)
         /\ pc'[h] = IF mem[h].op = "system" THEN "mark" ELSE "respond"
<1>0. TypeOK /\ RequestOK(mem[h]) /\ HasCopy(mem[h], mem[h].new) /\ HasCopy(mem[h], mem[h].old)
  BY DEF ExtractTx, WriteInv, TypeOK, Targets
<1> DEFINE m == mem[h]
           a == MovedFrom(m.view[m.old], m.comp, FALSE)
           n == IF m.op = "system" THEN m ELSE Answer(m, m.new)
           step == IF m.op = "system" THEN "mark" ELSE "respond"
<1>1. /\ m.new \in DOMAIN inc /\ inc[m.new].type = "incident" /\ inc \in Seq(Event)
      /\ m.view[m.new] \in Event /\ m.view[m.new].type = "incident"
      /\ m.old \in DOMAIN inc /\ inc[m.old].type = "incident"
      /\ m.view[m.old] \in Event /\ m.view[m.old].type = "incident"
      /\ m.comp \in SUBSET Component
  BY <1>0, CopyOK DEF HasCopy, TypeOK, RequestOK
<1>2. a \in Event /\ a.type = "incident"
  BY <1>1, MovedType
<1>3. SaveBoth(m.new, m.view[m.new], m.old, a)
  BY DEF ExtractTx
<1> HIDE DEF a
<1>4. RowsKept
  BY <1>1, <1>2, <1>3, SaveBothKeeps
<1>5. mem' = [mem EXCEPT ![h] = n] /\ Go(h, step)
  BY <1>0 DEF ExtractTx, TypeOK
<1>6. RequestOK(n) /\ (step = "mark" => n = m)
  BY <1>0, AnswerOK
<1> HIDE DEF n
<1>7. OthersKept(h) /\ mem'[h] = n /\ pc'[h] = step
  BY <1>0, <1>5, Moves DEF Steps, Go
<1>8. RequestOK(mem[h])'
  BY <1>0, <1>4, <1>6, <1>7, RequestKept
<1>9. Targets(h)'
  <2>1. inc'[m.new].type = "incident"
    BY <1>1, <1>4 DEF RowsKept
  <2>2. pc'[h] = "mark" => mem'[h] = m
    BY <1>6, <1>7
  <2>3. pc'[h] \in {"mark", "respond"}
    BY <1>7
  <2> QED BY <1>0, <2>1, <2>2, <2>3 DEF Targets, HasCopy
<1>10. KeptBy(h)
  BY <1>4, <1>7, <1>8, <1>9 DEF KeptBy
<1> QED BY <1>3, <1>7, <1>10 DEF a, n

LEMMA ExtractTxKeeps ==
  ASSUME WriteInv, NEW h \in Handler, ExtractTx(h)
  PROVE  KeptBy(h)
BY ExtractTxIs

(* A request that starts with copies of stored events. *)
LEMMA StartsOK ==
  ASSUME TypeOK, NEW S \in SUBSET DOMAIN inc,
         NEW n, DOMAIN n = DOMAIN NoRequest, n.view = Copies(S),
         n.todo \subseteq Component, n.comp \subseteq Component, n.impact \in 0..3,
         n.status \in Statuses, n.close \in BOOLEAN
  PROVE  RequestOK(n)
BY CopiesOK DEF RequestOK

LEMMA PostRegularKeeps ==
  ASSUME WriteInv, NEW h \in Handler, NEW op, PostRegular(h, op)
  PROVE  KeptBy(h)
<1>0. TypeOK /\ RowsKept /\ UNCHANGED inc
  BY Stays DEF PostRegular, WriteInv
<1>1. PICK C \in SUBSET Component, k \in Impact \cup {0} :
        mem' = [mem EXCEPT ![h] = [NoRequest EXCEPT !.op = op, !.todo = C, !.comp = C,
                                                    !.impact = k, !.view = Copies(Active)]]
  BY DEF PostRegular
<1>2. PICK n : n = [NoRequest EXCEPT !.op = op, !.todo = C, !.comp = C, !.impact = k, !.view = Copies(Active)]
  OBVIOUS
<1>3. /\ DOMAIN n = DOMAIN NoRequest /\ n.todo = C /\ n.comp = C /\ n.impact = k
      /\ n.status = NoRequest.status /\ n.close = NoRequest.close /\ n.view = Copies(Active)
  BY <1>2, Fields
<1>4. RequestOK(n)
  <2>1. Active \in SUBSET DOMAIN inc /\ k \in 0..3
    BY IncidentsAssumption DEF Active
  <2>2. NoRequest.status \in Statuses /\ NoRequest.close \in BOOLEAN
    BY NoRequestOK DEF RequestOK
  <2> QED BY <1>0, <1>3, <2>1, <2>2, StartsOK
<1>5. OthersKept(h) /\ mem'[h] = n /\ pc'[h] = "open"
  BY <1>0, <1>1, <1>2, Moves DEF PostRegular, Go, Steps
<1>6. Targets(h)'
  BY <1>5 DEF Targets
<1> QED BY <1>0, <1>4, <1>5, <1>6, RequestKept DEF KeptBy

LEMMA PostExtractKeeps ==
  ASSUME WriteInv, NEW h \in Handler, PostExtract(h)
  PROVE  KeptBy(h)
<1>0. TypeOK /\ RowsKept /\ UNCHANGED inc
  BY Stays DEF PostExtract, WriteInv
<1>1. PICK i \in DOMAIN inc : \E C \in SUBSET inc[i].comps \ {{}, inc[i].comps} :
       /\ inc[i].type = "incident"
       /\ mem' = [mem EXCEPT ![h] = [NoRequest EXCEPT !.op = "extract", !.comp = C, !.old = i,
                                       !.impact = inc[i].impact, !.view = Copies({i})]]
  BY DEF PostExtract
<1>2. PICK C \in SUBSET inc[i].comps :
       /\ inc[i].type = "incident"
       /\ mem' = [mem EXCEPT ![h] = [NoRequest EXCEPT !.op = "extract", !.comp = C, !.old = i,
                                       !.impact = inc[i].impact, !.view = Copies({i})]]
  BY <1>1
<1>3. PICK n : n = [NoRequest EXCEPT !.op = "extract", !.comp = C, !.old = i,
                                     !.impact = inc[i].impact, !.view = Copies({i})]
  OBVIOUS
<1>4. /\ DOMAIN n = DOMAIN NoRequest /\ n.todo = NoRequest.todo /\ n.comp = C /\ n.impact = inc[i].impact
      /\ n.status = NoRequest.status /\ n.close = NoRequest.close /\ n.view = Copies({i}) /\ n.old = i
  BY <1>3, Fields
<1>5. {i} \in SUBSET DOMAIN inc /\ inc[i].impact \in 0..3 /\ C \subseteq Component
  BY <1>0, Rows DEF TypeOK, Event
<1>6. RequestOK(n)
  <2>1. NoRequest.todo \subseteq Component /\ NoRequest.status \in Statuses /\ NoRequest.close \in BOOLEAN
    BY NoRequestOK DEF RequestOK
  <2> QED BY <1>0, <1>4, <1>5, <2>1, StartsOK
<1>7. OthersKept(h) /\ mem'[h] = n /\ pc'[h] = "extract"
  BY <1>0, <1>2, <1>3, Moves DEF PostExtract, Go, Steps
<1>8. Targets(h)'
  <2>1. DOMAIN n.view = {i}
    BY <1>0, <1>4, <1>5, CopiesOK
  <2> QED BY <1>0, <1>2, <1>4, <1>7, <2>1 DEF Targets, HasCopy
<1> QED BY <1>0, <1>6, <1>7, <1>8, RequestKept DEF KeptBy

LEMMA PatchIncidentKeeps ==
  ASSUME WriteInv, NEW h \in Handler, PatchIncident(h)
  PROVE  KeptBy(h)
<1>0. TypeOK /\ RowsKept /\ UNCHANGED inc
  BY Stays DEF PatchIncident, WriteInv
<1>1. PICK i \in DOMAIN inc, s \in PatchStatus, k \in Impact :
       /\ inc[i].type = "incident"
       /\ mem' = [mem EXCEPT ![h] = [NoRequest EXCEPT !.op = "patch", !.old = i, !.status = s,
                                                      !.impact = k, !.view = Copies({i})]]
  BY DEF PatchIncident
<1>2. PICK n : n = [NoRequest EXCEPT !.op = "patch", !.old = i, !.status = s,
                                     !.impact = k, !.view = Copies({i})]
  OBVIOUS
<1>3. /\ DOMAIN n = DOMAIN NoRequest /\ n.todo = NoRequest.todo /\ n.comp = NoRequest.comp /\ n.impact = k
      /\ n.status = s /\ n.close = NoRequest.close /\ n.view = Copies({i}) /\ n.old = i
  BY <1>2, Fields
<1>4. {i} \in SUBSET DOMAIN inc /\ k \in 0..3 /\ s \in Statuses
  <2>1. k \in 0..3 /\ s \in OpenStatus \cup ClosedStatus
    BY IncidentsAssumption
  <2>2. s \in Statuses
    BY <2>1 DEF Statuses
  <2> QED BY <2>1, <2>2
<1>5. RequestOK(n)
  <2>1. NoRequest.todo \subseteq Component /\ NoRequest.comp \subseteq Component /\ NoRequest.close \in BOOLEAN
    BY NoRequestOK DEF RequestOK
  <2> QED BY <1>0, <1>3, <1>4, <2>1, StartsOK
<1>6. OthersKept(h) /\ mem'[h] = n /\ pc'[h] = "patch"
  BY <1>0, <1>1, <1>2, Moves DEF PatchIncident, Go, Steps
<1>7. Targets(h)'
  <2>1. DOMAIN n.view = {i}
    BY <1>0, <1>3, <1>4, CopiesOK
  <2> QED BY <1>0, <1>1, <1>3, <1>6, <2>1 DEF Targets, HasCopy
<1> QED BY <1>0, <1>5, <1>6, <1>7, RequestKept DEF KeptBy

(* The row that ModifyIncident writes for the request m. *)
LEMMA ModifyIs ==
  ASSUME WriteInv, NEW h \in Handler, ModifyIncident(h)
  PROVE  \E e \in Event :
           /\ inc' = [inc EXCEPT ![mem[h].old] = e]
           /\ e.type = "incident" /\ e.comps = inc[mem[h].old].comps
           /\ e.closed = IF mem[h].status = "resolved"
                             \/ (mem[h].view[mem[h].old].closed /\ mem[h].status # "reopened")
                         THEN TRUE ELSE inc[mem[h].old].closed
<1>0. TypeOK /\ RequestOK(mem[h]) /\ HasCopy(mem[h], mem[h].old)
  BY DEF ModifyIncident, WriteInv, TypeOK, Targets
<1> DEFINE m == mem[h]  t == m.old  c == m.view[t]
           sys == inc[t].system \/ c.system
           end == IF m.status = "resolved" \/ (c.closed /\ m.status # "reopened")
                  THEN TRUE ELSE inc[t].closed
<1>1. /\ t \in DOMAIN inc /\ inc[t] \in Event /\ inc[t].type = "incident" /\ inc \in Seq(Event)
      /\ c \in Event /\ m.impact \in 0..3 /\ m.status \in Statuses
  BY <1>0, CopyOK DEF HasCopy, TypeOK, RequestOK
<1>v. PICK v \in {c.version} \cup ClientVersions :
        inc' = [inc EXCEPT ![t].status = m.status, ![t].impact = m.impact, ![t].version = v + 1,
                           ![t].system = @ \/ c.system, ![t].closed =
                             IF m.status = "resolved" \/ (c.closed /\ m.status # "reopened") THEN TRUE ELSE @]
  BY DEF ModifyIncident
<1> DEFINE e == [inc[t] EXCEPT !.status = m.status, !.impact = m.impact, !.version = v + 1,
                               !.system = sys, !.closed = end]
<1>2. sys \in BOOLEAN /\ end \in BOOLEAN /\ v + 1 \in Int
  <2>1. inc[t].closed \in BOOLEAN /\ c.version \in Int
    BY <1>1 DEF Event
  <2>4. v + 1 \in Int
    BY <1>v, <2>1, IncidentsAssumption
  <2>2. sys \in BOOLEAN
    OBVIOUS
  <2>3. end \in BOOLEAN
    BY <2>1
  <2> QED BY <2>2, <2>3, <2>4
<1>3. inc' = [inc EXCEPT ![t].status = m.status, ![t].impact = m.impact, ![t].version = v + 1,
                         ![t].system = sys, ![t].closed = end]
  BY <1>1, <1>v DEF Event
<1> HIDE DEF sys, end
<1>4. e \in Event /\ e.type = "incident" /\ e.comps = inc[t].comps /\ e.closed = end
  BY <1>1, <1>2 DEF Event
<1>5. inc' = [inc EXCEPT ![t] = e]
  BY <1>1, <1>3 DEF Event
<1> QED BY <1>4, <1>5 DEF end

LEMMA ModifyKeeps ==
  ASSUME WriteInv, NEW h \in Handler, ModifyIncident(h)
  PROVE  KeptBy(h)
<1>0. TypeOK /\ RequestOK(mem[h]) /\ HasCopy(mem[h], mem[h].old) /\ DOMAIN mem = Handler
  BY DEF ModifyIncident, WriteInv, TypeOK, Targets
<1>1. PICK e \in Event : inc' = [inc EXCEPT ![mem[h].old] = e] /\ e.type = "incident"
  BY ModifyIs
<1>2. RowsKept
  BY <1>0, <1>1, CopyOK, UpdateKeeps DEF HasCopy, TypeOK
<1>3. OthersKept(h) /\ mem'[h] = mem[h] /\ pc'[h] \in {"reopen", "respond"}
  BY <1>0 DEF ModifyIncident, Go, TypeOK, OthersKept, Steps
<1>4. Targets(h)'
  <2>1. inc'[mem[h].old].type = "incident"
    BY <1>0, <1>2 DEF RowsKept, HasCopy, RequestOK
  <2> QED BY <1>0, <1>3, <2>1 DEF Targets, HasCopy
<1> QED BY <1>0, <1>2, <1>3, <1>4, RequestKept DEF KeptBy

LEMMA ReOpenKeeps ==
  ASSUME WriteInv, NEW h \in Handler, ReOpenIncident(h)
  PROVE  KeptBy(h)
<1>0. TypeOK /\ RequestOK(mem[h]) /\ HasCopy(mem[h], mem[h].old) /\ DOMAIN mem = Handler
  BY DEF ReOpenIncident, WriteInv, TypeOK, Targets
<1> DEFINE t == mem[h].old  e == [inc[t] EXCEPT !.closed = FALSE]
<1>1. t \in DOMAIN inc /\ inc[t] \in Event /\ inc[t].type = "incident" /\ inc \in Seq(Event)
  BY <1>0, CopyOK DEF HasCopy, TypeOK
<1>2. e \in Event /\ e.type = "incident"
  BY <1>1 DEF Event
<1>3. inc' = [inc EXCEPT ![t] = e]
  BY <1>1 DEF ReOpenIncident, Event
<1> HIDE DEF e
<1>4. RowsKept
  BY <1>1, <1>2, <1>3, UpdateKeeps
<1>5. OthersKept(h) /\ mem'[h] = mem[h] /\ pc'[h] = "respond"
  BY <1>0 DEF ReOpenIncident, Go, TypeOK, OthersKept, Steps
<1>6. Targets(h)'
  BY <1>5 DEF Targets
<1> QED BY <1>0, <1>4, <1>5, <1>6, RequestKept DEF KeptBy

LEMMA CompleteKeeps ==
  ASSUME WriteInv, NEW h \in Handler, Complete(h)
  PROVE  KeptBy(h)
<1>0. TypeOK /\ RequestOK(mem[h]) /\ DOMAIN mem = Handler /\ RowsKept
  BY Stays DEF Complete, WriteInv, TypeOK
<1>1. OthersKept(h) /\ mem'[h] = mem[h] /\ pc'[h] = "respond"
  BY <1>0 DEF Complete, Go, TypeOK, OthersKept, Steps
<1>2. Targets(h)'
  BY <1>1 DEF Targets
<1> QED BY <1>0, <1>1, <1>2, RequestKept DEF KeptBy

\* The event a regular request creates.
Regular(m) ==
  NewEvent(IF m.op = "regular" THEN "incident" ELSE "maintenance", FALSE, m.impact, m.todo)
Skips(m) == m.view = <<>> \/ m.op # "regular"

(* The request once its event is stored, for the two outcomes of *)
(* shouldSkipComponentMovement.                                  *)
LEMMA CreateRegularIs ==
  ASSUME WriteInv, NEW h \in Handler, CreateRegular(h)
  PROVE  /\ Regular(mem[h]) \in Event /\ inc' = Append(inc, Regular(mem[h]))
         /\ RowsKept /\ OthersKept(h) /\ pc'[h] = "relocate"
         /\ \E n : /\ mem'[h] = n /\ RequestOK(n)' /\ n.op = mem[h].op /\ n.err = mem[h].err
                   /\ n.comp = mem[h].comp
                   /\ \/ /\ Skips(mem[h]) /\ n.todo = {} /\ n.view = mem[h].view
                         /\ n.res = Answer(mem[h], Len(inc) + 1).res
                      \/ /\ ~Skips(mem[h]) /\ n.todo = mem[h].todo /\ n.new = Len(inc) + 1
                         /\ n.res = mem[h].res
                         /\ n.view = Put(mem[h].view, One(Len(inc) + 1, Regular(mem[h])))
<1>0. TypeOK /\ RequestOK(mem[h]) /\ DOMAIN mem = Handler /\ DOMAIN mem[h] = DOMAIN NoRequest
  BY DEF WriteInv, TypeOK, RequestOK
<1> DEFINE m == mem[h]  e == Regular(m)  k == Len(inc) + 1
<1>1. e \in Event
  <2>1. m.impact \in 0..3 /\ m.todo \in SUBSET Component
    BY <1>0 DEF RequestOK
  <2> QED BY <2>1 DEF Regular, NewEvent, Event, Statuses, OpenStatus
<1>2. inc' = Append(inc, e) /\ Go(h, "relocate")
  BY DEF CreateRegular, Regular
<1>3. mem' = [mem EXCEPT ![h] = IF Skips(m) THEN [Answer(m, k) EXCEPT !.todo = {}]
                                ELSE [m EXCEPT !.new = k, !.view = Put(m.view, One(k, e))]]
  BY <1>0, Fields DEF CreateRegular, Regular, Skips
<1> HIDE DEF e, k
<1>4. RowsKept
  BY <1>0, <1>1, <1>2, InsertKeeps DEF TypeOK
<1>5. CASE Skips(m)
  <2>1. PICK n : n = [Answer(m, k) EXCEPT !.todo = {}]
    OBVIOUS
  <2>2. OthersKept(h) /\ mem'[h] = n /\ pc'[h] = "relocate"
    BY <1>0, <1>2, <1>3, <1>5, <2>1, Moves DEF Steps, Go
  <2> DEFINE a == Answer(m, k)
  <2>3. /\ DOMAIN a = DOMAIN NoRequest /\ a.op = m.op /\ a.comp = m.comp /\ a.view = m.view /\ a.err = m.err
        /\ RequestOK(a)
    BY <1>0, AnswerIs, AnswerOK
  <2> HIDE DEF a
  <2>4. /\ DOMAIN n = DOMAIN NoRequest /\ n.op = a.op /\ n.comp = a.comp /\ n.view = a.view /\ n.err = a.err
        /\ n.todo = {} /\ n.impact = a.impact /\ n.status = a.status /\ n.close = a.close /\ n.res = a.res
    BY <2>1, <2>3, Fields DEF a
  <2>5. RequestOK(n)
    BY <2>3, <2>4 DEF RequestOK
  <2>6. RequestOK(n)'
    BY <1>0, <1>4, <2>5, RequestKept
  <2> QED BY <1>1, <1>2, <1>4, <1>5, <2>2, <2>3, <2>4, <2>6 DEF a, e, k
<1>6. CASE ~Skips(m)
  <2>1. PICK n : n = [m EXCEPT !.new = k, !.view = Put(m.view, One(k, e))]
    OBVIOUS
  <2>2. OthersKept(h) /\ mem'[h] = n /\ pc'[h] = "relocate"
    BY <1>0, <1>2, <1>3, <1>6, <2>1, Moves DEF Steps, Go
  <2>3. /\ DOMAIN n = DOMAIN NoRequest /\ n.op = m.op /\ n.comp = m.comp /\ n.err = m.err
        /\ n.todo = m.todo /\ n.impact = m.impact /\ n.status = m.status /\ n.close = m.close /\ n.res = m.res
        /\ n.new = k /\ n.view = Put(m.view, One(k, e))
    BY <1>0, <2>1, Fields
  <2>4. RequestOK(n)'
    BY <1>0, <1>1, <1>2, <2>3, CopyAdded DEF k
  <2> QED BY <1>1, <1>2, <1>4, <1>6, <2>2, <2>3, <2>4 DEF e, k
<1> QED BY <1>5, <1>6

LEMMA CreateRegularKeeps ==
  ASSUME WriteInv, NEW h \in Handler, CreateRegular(h)
  PROVE  KeptBy(h)
<1>0. TypeOK /\ RequestOK(mem[h])
  BY DEF WriteInv, TypeOK
<1> DEFINE m == mem[h]  k == Len(inc) + 1
<1>e. PICK e : e = Regular(m)
  OBVIOUS
<1>1. PICK n : /\ mem'[h] = n /\ RequestOK(n)'
               /\ \/ n.todo = {}
                  \/ ~Skips(m) /\ n.new = k /\ n.view = Put(m.view, One(k, e))
  BY <1>e, CreateRegularIs
<1>2. RowsKept /\ OthersKept(h) /\ pc'[h] = "relocate" /\ inc' = Append(inc, e) /\ e \in Event
  BY <1>e, CreateRegularIs
<1>3. n.todo # {} => HasCopy(n, n.new)'
  <2> SUFFICES ASSUME n.todo # {} PROVE n.new \in DOMAIN n.view /\ inc'[n.new].type = "incident"
    BY DEF HasCopy
  <2>1. e.type = "incident"
    BY <1>1, <1>e DEF Skips, Regular, NewEvent
  <2>2. inc'[k] = e
    BY <1>0, <1>2, Inserted DEF TypeOK
  <2>3. k \in DOMAIN n.view
    BY <1>1 DEF Put, One
  <2> QED BY <1>1, <2>1, <2>2, <2>3
<1>4. Targets(h)'
  BY <1>1, <1>2, <1>3 DEF Targets, HasCopy
<1> QED BY <1>1, <1>2, <1>4 DEF KeptBy

\* Component c of request m is relocated from incident i, which leaves request n.
RelocatedFrom(m, c, i, n) ==
  /\ i \in Holders(m, c)
  /\ SaveBoth(m.new, MovedTo(m.view[m.new], {c}), i, MovedFrom(m.view[i], {c}, CloseSource(m.view[i])))
  /\ DOMAIN n.view = DOMAIN m.view
  /\ n.view[m.new] = MovedTo(m.view[m.new], {c})
  /\ n.view[i] = MovedFrom(m.view[i], {c}, CloseSource(m.view[i]))
  /\ \A j \in DOMAIN m.view : j # i /\ j # m.new => n.view[j] = m.view[j]

\* Component c is done, with request n left.
Relocated(m, c, n) ==
  /\ n.op = m.op /\ n.err = m.err /\ n.new = m.new /\ n.todo = m.todo \ {c}
  /\ DOMAIN n.res = DOMAIN m.res \cup {c} /\ n.res[c] = m.new
  /\ \A d \in DOMAIN m.res : d # c => n.res[d] = m.res[d]
  /\ \/ Holders(m, c) = {} /\ n.view = m.view /\ UNCHANGED inc
     \/ \E i \in DOMAIN m.view : RelocatedFrom(m, c, i, n)

LEMMA RelocateIs ==
  ASSUME WriteInv, NEW h \in Handler, Relocate(h)
  PROVE  /\ RowsKept /\ OthersKept(h) /\ pc'[h] = "relocate"
         /\ \E c \in mem[h].todo : \E n :
              /\ mem'[h] = n /\ RequestOK(n)' /\ Relocated(mem[h], c, n)
<1>0. /\ TypeOK /\ RequestOK(mem[h]) /\ DOMAIN mem = Handler /\ DOMAIN mem[h] = DOMAIN NoRequest
      /\ HasCopy(mem[h], mem[h].new) /\ pc[h] = "relocate" /\ pc' = pc
  BY DEF WriteInv, TypeOK, RequestOK, Targets, Relocate
<1> DEFINE m == mem[h]
<1>1. PICK c \in m.todo :
        LET n == [m EXCEPT !.todo = @ \ {c}, !.comp = {c}]
        IN \/ /\ Holders(m, c) = {}
              /\ mem' = [mem EXCEPT ![h] = Answer(n, m.new)] /\ UNCHANGED inc
           \/ \E i \in Holders(m, c) :
                LET a == MovedFrom(m.view[i], {c}, CloseSource(m.view[i]))
                    b == MovedTo(m.view[m.new], {c})
                IN /\ SaveBoth(m.new, b, i, a)
                   /\ mem' = [mem EXCEPT ![h] = [Answer(n, m.new) EXCEPT
                                                   !.view = Put(@, Put(One(m.new, b), One(i, a)))]]
  BY DEF Relocate
<1>2. PICK o : o = [m EXCEPT !.todo = @ \ {c}, !.comp = {c}]
  OBVIOUS
<1>3. /\ DOMAIN o = DOMAIN NoRequest /\ o.todo = m.todo \ {c} /\ o.comp = {c} /\ o.op = m.op
      /\ o.impact = m.impact /\ o.status = m.status /\ o.view = m.view /\ o.new = m.new
      /\ o.close = m.close /\ o.err = m.err /\ o.res = m.res
  BY <1>0, <1>2, Fields
<1>4. RequestOK(o) /\ RequestOK(m)
  BY <1>0, <1>3 DEF RequestOK
<1>5. PICK w : w = Answer(o, m.new)
  OBVIOUS
<1>6. /\ DOMAIN w = DOMAIN NoRequest /\ w.todo = m.todo \ {c} /\ w.comp = {c} /\ w.op = m.op
      /\ w.impact = m.impact /\ w.status = m.status /\ w.view = m.view /\ w.new = m.new
      /\ w.close = m.close /\ w.err = m.err
      /\ DOMAIN w.res = DOMAIN m.res \cup {c} /\ w.res[c] = m.new
      /\ \A d \in DOMAIN m.res : d # c => w.res[d] = m.res[d]
      /\ RequestOK(w)
  BY <1>3, <1>4, <1>5, AnswerIs, AnswerOK
<1>7. CASE Holders(m, c) = {} /\ mem' = [mem EXCEPT ![h] = w] /\ UNCHANGED inc
  <2>1. RowsKept
    BY <1>0, <1>7, Stays
  <2>2. OthersKept(h) /\ mem'[h] = w /\ pc'[h] = "relocate"
    BY <1>0, <1>7, Moves DEF Steps
  <2>3. RequestOK(w)'
    BY <1>0, <1>6, <2>1, RequestKept
  <2>4. Relocated(m, c, w)
    BY <1>6, <1>7 DEF Relocated
  <2> QED BY <2>1, <2>2, <2>3, <2>4
<1>8. ASSUME NEW i \in Holders(m, c), NEW a, NEW b,
             a = MovedFrom(m.view[i], {c}, CloseSource(m.view[i])), b = MovedTo(m.view[m.new], {c}),
             SaveBoth(m.new, b, i, a),
             mem' = [mem EXCEPT ![h] = [w EXCEPT !.view = Put(@, Put(One(m.new, b), One(i, a)))]]
      PROVE  /\ RowsKept /\ OthersKept(h) /\ pc'[h] = "relocate"
             /\ \E n : mem'[h] = n /\ RequestOK(n)' /\ Relocated(m, c, n)
  <2>1. /\ i \in DOMAIN m.view /\ i # m.new /\ m.view[i].type = "incident"
        /\ m.new \in DOMAIN m.view /\ inc[m.new].type = "incident"
    BY <1>0 DEF Holders, HasCopy
  <2>2. /\ i \in DOMAIN inc /\ m.new \in DOMAIN inc /\ inc[i].type = "incident" /\ inc \in Seq(Event)
        /\ m.view[i] \in Event /\ m.view[m.new] \in Event /\ m.view[m.new].type = "incident"
    BY <1>0, <2>1, CopyOK DEF TypeOK
  <2>3. a \in Event /\ b \in Event /\ a.type = "incident" /\ b.type = "incident"
    <3>1. {c} \in SUBSET Component /\ CloseSource(m.view[i]) \in BOOLEAN
      BY <1>4 DEF RequestOK, CloseSource
    <3> QED BY <1>8, <2>1, <2>2, <3>1, MovedType
  <2>s. SaveBoth(m.new, b, i, a)
    BY <1>8
  <2>4. RowsKept
    BY <2>1, <2>2, <2>3, <2>s, SaveBothKeeps
  <2>5. PICK v : v = Put(m.view, Put(One(m.new, b), One(i, a)))
    OBVIOUS
  <2>6. /\ DOMAIN v = DOMAIN m.view /\ v[m.new] = b /\ v[i] = a
        /\ \A j \in DOMAIN m.view : j # i /\ j # m.new => v[j] = m.view[j]
    BY <2>1, <2>5 DEF Put, One
  <2>7. PICK n : n = [w EXCEPT !.view = v]
    OBVIOUS
  <2>8. mem' = [mem EXCEPT ![h] = n]
    BY <1>6, <1>8, <2>5, <2>7, Fields
  <2>9. /\ DOMAIN n = DOMAIN NoRequest /\ n.todo = m.todo \ {c} /\ n.comp = {c} /\ n.op = m.op
        /\ n.impact = m.impact /\ n.status = m.status /\ n.view = v /\ n.new = m.new
        /\ n.close = m.close /\ n.err = m.err /\ n.res = w.res
    BY <1>6, <2>7, Fields
  <2>10. OthersKept(h) /\ mem'[h] = n /\ pc'[h] = "relocate"
    BY <1>0, <2>8, Moves DEF Steps
  <2>11. RequestOK(n)
    <3>1. \A j \in DOMAIN v : v[j] \in Event /\ v[j].type = inc[j].type
      BY <1>4, <2>1, <2>2, <2>3, <2>6 DEF RequestOK
    <3> QED BY <1>4, <1>6, <2>6, <2>9, <3>1 DEF RequestOK
  <2>12. RequestOK(n)'
    BY <1>0, <2>4, <2>11, RequestKept
  <2>13. Relocated(m, c, n)
    <3>1. RelocatedFrom(m, c, i, n)
      BY <1>8, <2>6, <2>9 DEF RelocatedFrom
    <3> QED BY <1>6, <2>1, <2>9, <3>1 DEF Relocated
  <2> QED BY <2>4, <2>10, <2>12, <2>13
<1> QED BY <1>1, <1>2, <1>5, <1>7, <1>8

LEMMA RelocateKeeps ==
  ASSUME WriteInv, NEW h \in Handler, Relocate(h)
  PROVE  KeptBy(h)
<1>0. TypeOK /\ RequestOK(mem[h]) /\ HasCopy(mem[h], mem[h].new)
  BY DEF WriteInv, TypeOK, Targets, Relocate
<1>1. PICK c \in mem[h].todo : \E n : /\ mem'[h] = n /\ RequestOK(n)' /\ Relocated(mem[h], c, n)
  BY RelocateIs
<1>2. PICK n : mem'[h] = n /\ RequestOK(n)' /\ Relocated(mem[h], c, n)
  BY <1>1
<1>3. RowsKept /\ OthersKept(h) /\ pc'[h] = "relocate"
  BY RelocateIs
<1>4. n.new = mem[h].new /\ DOMAIN n.view = DOMAIN mem[h].view
  BY <1>2 DEF Relocated, RelocatedFrom
<1>5. n.new \in DOMAIN n.view /\ inc'[n.new].type = "incident"
  BY <1>0, <1>3, <1>4 DEF HasCopy, RowsKept, RequestOK
<1>6. Targets(h)'
  BY <1>2, <1>3, <1>5 DEF Targets, HasCopy
<1> QED BY <1>2, <1>3, <1>6 DEF KeptBy

-----------------------------------------------------------------------------
(* All steps *)

Starts(h) ==
  \/ PostSystem(h) \/ PostRegular(h, "regular") \/ PostRegular(h, "maintenance")
  \/ PostExtract(h) \/ PatchIncident(h)
Serves(h) ==
  \/ ProcessSystem(h) \/ FindTarget(h) \/ AddComponentToIncident(h) \/ CreateSystem(h)
  \/ MoveComponent(h) \/ IncreaseIncidentImpact(h) \/ ExtractSave(h) \/ ExtractTx(h) \/ MarkSystem(h)
  \/ CreateRegular(h) \/ Relocate(h) \/ ModifyIncident(h) \/ ReOpenIncident(h) \/ Complete(h)
  \/ Respond(h)

LEMMA NextIs ==
  ASSUME [Next]_vars
  PROVE  \/ \E h \in Handler : Starts(h) \/ Serves(h) \/ Fail(h)
         \/ \E i \in DOMAIN inc : EndMaintenance(i)
         \/ UNCHANGED vars
BY DEF Next, Starts, Serves

LEMMA HandlerKeeps ==
  ASSUME WriteInv, NEW h \in Handler, Starts(h) \/ Serves(h) \/ Fail(h)
  PROVE  KeptBy(h)
<1>1. CASE Starts(h)
  BY <1>1, PostSystemKeeps, PostRegularKeeps, PostExtractKeeps, PatchIncidentKeeps DEF Starts
<1>2. CASE Serves(h)
  <2>1. Respond(h) => KeptBy(h)
    BY FinishKeeps DEF Respond
  <2> QED BY <1>2, <2>1, ProcessSystemKeeps, FindTargetKeeps, AddComponentKeeps, CreateSystemKeeps,
    MoveComponentKeeps, IncreaseKeeps, ExtractSaveKeeps, ExtractTxKeeps, MarkSystemKeeps,
    CreateRegularKeeps, RelocateKeeps, ModifyKeeps, ReOpenKeeps, CompleteKeeps DEF Serves
<1>3. CASE Fail(h)
  BY <1>3, FinishKeeps DEF Fail
<1> QED BY <1>1, <1>2, <1>3

(* Requests and overlaps are counted when a request is accepted, failures when one fails. *)
LEMMA Counted ==
  ASSUME TypeOK, NEW h \in Handler
  PROVE  /\ Starts(h) => /\ fails' = fails /\ overlaps' \in Nat /\ requests' \in Nat /\ pc[h] = "idle"
                         /\ overlaps' = IF \A g \in Handler : pc[g] = "idle" THEN overlaps ELSE overlaps + 1
         /\ Serves(h) => UNCHANGED <<requests, overlaps, fails>> /\ pc[h] # "idle"
         /\ Fail(h) => fails' = fails + 1 /\ UNCHANGED <<requests, overlaps>>
<1>1. requests \in Nat /\ overlaps \in Nat /\ fails \in Nat
  BY DEF TypeOK
<1>2. Starts(h) => /\ fails' = fails /\ overlaps' \in Nat /\ requests' \in Nat /\ pc[h] = "idle"
                   /\ overlaps' = IF \A g \in Handler : pc[g] = "idle" THEN overlaps ELSE overlaps + 1
  <2> SUFFICES ASSUME Starts(h)
               PROVE  /\ fails' = fails /\ overlaps' \in Nat /\ requests' \in Nat /\ pc[h] = "idle"
                      /\ overlaps' = IF \A g \in Handler : pc[g] = "idle" THEN overlaps ELSE overlaps + 1
    OBVIOUS
  <2>1. UNCHANGED fails /\ \E op : Accept(h, op)
    BY DEF Starts, PostSystem, PostRegular, PostExtract, PatchIncident
  <2>2. /\ requests' = requests + 1 /\ pc[h] = "idle"
        /\ overlaps' = IF \A g \in Handler : pc[g] = "idle" THEN overlaps ELSE overlaps + 1
    BY <2>1 DEF Accept
  <2>3. overlaps' \in Nat
    BY <1>1, <2>2
  <2> QED BY <1>1, <2>1, <2>2, <2>3
<1>3. Serves(h) => UNCHANGED <<requests, overlaps, fails>> /\ pc[h] # "idle"
  BY DEF Serves, ProcessSystem, FindTarget, AddComponentToIncident, CreateSystem, MoveComponent,
    IncreaseIncidentImpact, ExtractSave, ExtractTx, MarkSystem, CreateRegular, Relocate, ModifyIncident,
    ReOpenIncident, Complete, Respond
<1>4. Fail(h) => fails' = fails + 1 /\ UNCHANGED <<requests, overlaps>>
  BY DEF Fail
<1> QED BY <1>2, <1>3, <1>4

(* A maintenance that ends is closed, and nothing else. *)
LEMMA EndIs ==
  ASSUME TypeOK, NEW i \in DOMAIN inc, EndMaintenance(i)
  PROVE  /\ inc' \in Seq(Event) /\ DOMAIN inc' = DOMAIN inc /\ inc[i].type = "maintenance"
         /\ inc'[i] = [inc[i] EXCEPT !.closed = TRUE]
         /\ \A j \in DOMAIN inc : j # i => inc'[j] = inc[j]
         /\ \A j \in DOMAIN inc : inc'[j].type = inc[j].type
<1>1. inc \in Seq(Event) /\ inc[i] \in Event
  BY Rows DEF TypeOK
<1>2. PICK e : e = [inc[i] EXCEPT !.closed = TRUE]
  OBVIOUS
<1>3. e \in Event /\ e.type = inc[i].type
  BY <1>1, <1>2 DEF Event
<1>4. inc' = [inc EXCEPT ![i] = e] /\ inc[i].type = "maintenance"
  BY <1>1, <1>2 DEF EndMaintenance, Event
<1> QED BY <1>1, <1>2, <1>3, <1>4, Updated

LEMMA WriteKept == WriteInv /\ [Next]_vars => WriteInv'
<1> SUFFICES ASSUME WriteInv, [Next]_vars PROVE WriteInv'
  OBVIOUS
<1>0. TypeOK /\ \A g \in Handler : RequestOK(mem[g]) /\ Targets(g)
  BY DEF WriteInv, TypeOK
<1>1. ASSUME NEW h \in Handler, Starts(h) \/ Serves(h) \/ Fail(h) PROVE WriteInv'
  <2>1. RowsKept /\ OthersKept(h) /\ RequestOK(mem[h])' /\ Targets(h)'
    BY <1>1, HandlerKeeps DEF KeptBy
  <2>2. requests' \in Nat /\ overlaps' \in Nat /\ fails' \in Nat
    BY <1>0, <1>1, Counted DEF TypeOK
  <2>3. ASSUME NEW g \in Handler, g # h PROVE RequestOK(mem[g])' /\ Targets(g)'
    <3>1. mem'[g] = mem[g] /\ pc'[g] = pc[g] /\ RequestOK(mem[g]) /\ Targets(g)
      BY <1>0, <2>1, <2>3 DEF OthersKept
    <3>2. RequestOK(mem[g])'
      BY <1>0, <2>1, <3>1, RequestKept
    <3>3. \A i \in DOMAIN mem[g].view : inc'[i].type = inc[i].type
      BY <2>1, <3>1 DEF RowsKept, RequestOK
    <3> QED BY <3>1, <3>2, <3>3 DEF Targets, HasCopy
  <2>4. mem' = [g \in Handler |-> mem'[g]]
    BY <1>0, <1>1 DEF TypeOK, Starts, Serves, Fail, Finish, PostSystem, PostRegular, PostExtract, PatchIncident,
      ProcessSystem, FindTarget, AddComponentToIncident, CreateSystem, MoveComponent,
      IncreaseIncidentImpact, ExtractSave, ExtractTx, MarkSystem, CreateRegular, Relocate, ModifyIncident,
      ReOpenIncident, Complete, Respond
  <2> QED BY <2>1, <2>2, <2>3, <2>4 DEF WriteInv, TypeOK, RowsKept, OthersKept
<1>2. ASSUME NEW i \in DOMAIN inc, EndMaintenance(i) PROVE WriteInv'
  <2>1. inc' \in Seq(Event) /\ DOMAIN inc' = DOMAIN inc /\ \A j \in DOMAIN inc : inc'[j].type = inc[j].type
    BY <1>0, <1>2, EndIs
  <2>2. UNCHANGED <<pc, mem, requests, overlaps, fails>>
    BY <1>2 DEF EndMaintenance
  <2>3. ASSUME NEW g \in Handler PROVE RequestOK(mem[g])' /\ Targets(g)'
    BY <1>0, <2>1, <2>2 DEF RequestOK, Targets, HasCopy
  <2> QED BY <1>0, <2>1, <2>2, <2>3 DEF WriteInv, TypeOK
<1>3. CASE UNCHANGED vars
  BY <1>0, <1>3 DEF WriteInv, TypeOK, RequestOK, Targets, HasCopy
<1> QED BY <1>1, <1>2, <1>3, NextIs

LEMMA WriteStarts == Init => WriteInv
<1> SUFFICES ASSUME Init PROVE WriteInv
  OBVIOUS
<1>1. \A h \in Handler : RequestOK(mem[h]) /\ Targets(h)
  BY NoRequestOK DEF Init, Targets
<1>2. inc \in Seq(Event)
  BY DEF Init
<1> QED BY <1>1, <1>2 DEF Init, WriteInv, TypeOK, Steps

(* Types, and what the copies of a request stand for, over every interleaving, *)
(* failure and stale copy.                                                     *)
THEOREM WritesSound == Spec => []WriteInv
BY WriteStarts, WriteKept, PTL DEF Spec

(* No request on incidents writes a maintenance, whatever it moves and however *)
(* stale its copies are: what is written from a copy is an incident.           *)
THEOREM MaintenancesUntouched == Spec => MaintenanceUntouched
<1> DEFINE Untouched == \A i \in DOMAIN inc : inc[i].type = "maintenance"
              => inc'[i] = inc[i] \/ inc'[i] = [inc[i] EXCEPT !.closed = TRUE]
<1>1. ASSUME WriteInv, [Next]_vars PROVE Untouched
  <2>1. ASSUME NEW h \in Handler, Starts(h) \/ Serves(h) \/ Fail(h) PROVE Untouched
    BY <1>1, <2>1, HandlerKeeps DEF KeptBy, RowsKept
  <2>2. ASSUME NEW i \in DOMAIN inc, EndMaintenance(i) PROVE Untouched
    BY <1>1, <2>2, EndIs DEF WriteInv
  <2>3. CASE UNCHANGED vars
    BY <2>3
  <2> QED BY <1>1, <2>1, <2>2, <2>3, NextIs
<1>2. WriteInv /\ [Next]_vars => [Untouched]_vars
  BY <1>1
<1> QED BY <1>2, WritesSound, PTL DEF Spec, MaintenanceUntouched

-----------------------------------------------------------------------------
(* The newest incident of a component *)

\* Incident k, if any, keeps c covered.
Kept(c, k) == k \in {0} \cup DOMAIN inc /\ NoneAfter(c, k) /\ (k = 0 \/ Keeps(c, k))

\* After the step some incident keeps c covered, if one did before.
StillKept(c, k) == \E j : Kept(c, j)' /\ (k # 0 => j # 0)

(* A step of h that leaves c where it is. *)
LEMMA SameKeeper ==
  ASSUME TypeOK, NEW h \in Handler, OthersKept(h), RowsKept, NEW c, NEW k, Kept(c, k),
         \A i \in DOMAIN inc' : i > k /\ inc'[i].type = "incident" => c \notin inc'[i].comps,
         k # 0 => ~inc'[k].closed /\ c \in inc'[k].comps,
         \A i \in DOMAIN mem'[h].view :
           /\ i > k /\ inc'[i].type = "incident" => c \notin mem'[h].view[i].comps
           /\ i = k => ~mem'[h].view[i].closed /\ c \in mem'[h].view[i].comps
  PROVE  StillKept(c, k)
<1>1. \A g \in Handler : RequestOK(mem[g])
  BY DEF TypeOK
<1>2. ASSUME NEW g \in Handler, NEW i \in DOMAIN mem'[g].view
      PROVE  /\ i > k /\ inc'[i].type = "incident" => c \notin mem'[g].view[i].comps
             /\ i = k /\ k # 0 => ~mem'[g].view[i].closed /\ c \in mem'[g].view[i].comps
  <2>1. CASE g = h
    BY <1>2, <2>1
  <2>2. CASE g # h
    <3>1. mem'[g] = mem[g] /\ i \in DOMAIN inc
      BY <1>1, <1>2, <2>2 DEF OthersKept, RequestOK
    <3>2. inc'[i].type = inc[i].type
      BY <3>1 DEF RowsKept
    <3> QED BY <1>2, <3>1, <3>2 DEF Kept, NoneAfter, Keeps
  <2> QED BY <2>1, <2>2
<1>3. NoneAfter(c, k)'
  BY <1>2 DEF NoneAfter
<1>4. k # 0 => Keeps(c, k)'
  <2> SUFFICES ASSUME k # 0 PROVE Keeps(c, k)'
    OBVIOUS
  <2>1. k \in DOMAIN inc /\ inc[k].type = "incident"
    BY DEF Kept, Keeps, Incidents, Active
  <2>2. k \in DOMAIN inc' /\ inc'[k].type = "incident"
    BY <2>1 DEF RowsKept
  <2> QED BY <1>2, <2>2 DEF Keeps, Incidents, Active
<1>5. Kept(c, k)'
  BY <1>3, <1>4 DEF Kept, RowsKept
<1> QED BY <1>5 DEF StillKept

(* A new incident with c is now the newest one. *)
LEMMA NewKeeper ==
  ASSUME TypeOK, NEW h \in Handler, OthersKept(h), NEW c, NEW k, NEW e \in Event,
         inc' = Append(inc, e), e.type = "incident", ~e.closed, c \in e.comps,
         DOMAIN mem'[h].view \subseteq DOMAIN inc',
         Len(inc) + 1 \in DOMAIN mem'[h].view => mem'[h].view[Len(inc) + 1] = e
  PROVE  StillKept(c, k)
<1>n. PICK n : n = Len(inc) + 1
  OBVIOUS
<1>1. /\ DOMAIN inc' = DOMAIN inc \cup {n} /\ n \notin DOMAIN inc /\ inc'[n] = e
      /\ n \in Nat /\ n # 0 /\ \A i \in DOMAIN inc' : ~(i > n)
  BY <1>n, Inserted, Rows DEF TypeOK
<1>2. \A g \in Handler : g # h => mem'[g] = mem[g] /\ DOMAIN mem[g].view \subseteq DOMAIN inc
  BY DEF OthersKept, TypeOK, RequestOK
<1>3. ASSUME NEW g \in Handler, NEW i \in DOMAIN mem'[g].view
      PROVE  ~(i > n) /\ (i = n => mem'[g].view[i] = e)
  <2>1. CASE g = h
    BY <1>n, <1>1, <1>3, <2>1
  <2>2. CASE g # h
    <3>1. i \in DOMAIN inc
      BY <1>2, <1>3, <2>2
    <3> QED BY <1>1, <3>1
  <2> QED BY <2>1, <2>2
<1>4. \A g \in Handler : \A i \in DOMAIN mem'[g].view : ~(i > n) /\ (i = n => mem'[g].view[i] = e)
  BY <1>3
<1>5. NoneAfter(c, n)'
  <2>1. \A i \in DOMAIN inc' : i > n /\ inc'[i].type = "incident" => c \notin inc'[i].comps
    BY <1>1
  <2>2. \A g \in Handler : \A i \in DOMAIN mem'[g].view :
          i > n /\ inc'[i].type = "incident" => c \notin mem'[g].view[i].comps
    BY <1>4
  <2> QED BY <2>1, <2>2 DEF NoneAfter
<1>6. Keeps(c, n)'
  BY <1>1, <1>4 DEF Keeps, Incidents, Active
<1>7. Kept(c, n)'
  BY <1>1, <1>5, <1>6 DEF Kept
<1> QED BY <1>1, <1>7 DEF StillKept

(* A step that writes no row and copies only what is stored, or nothing more. *)
LEMMA ReadsKeep ==
  ASSUME WriteInv, NEW h \in Handler, OthersKept(h), UNCHANGED inc, NEW c, NEW k, Kept(c, k),
         \A i \in DOMAIN mem'[h].view : \/ i \in DOMAIN inc /\ mem'[h].view[i] = inc[i]
                                        \/ i \in DOMAIN mem[h].view /\ mem'[h].view[i] = mem[h].view[i]
  PROVE  StillKept(c, k)
<1>0. TypeOK /\ RowsKept
  BY Stays DEF WriteInv
<1>1. \A i \in DOMAIN inc' : i > k /\ inc'[i].type = "incident" => c \notin inc'[i].comps
  BY DEF Kept, NoneAfter
<1>2. k # 0 => ~inc'[k].closed /\ c \in inc'[k].comps
  BY DEF Kept, Keeps, Incidents, Active
<1>3. ASSUME NEW i \in DOMAIN mem'[h].view
      PROVE  /\ i > k /\ inc'[i].type = "incident" => c \notin mem'[h].view[i].comps
             /\ i = k => ~mem'[h].view[i].closed /\ c \in mem'[h].view[i].comps
  <2>1. i # 0
    <3>1. i \in DOMAIN inc
      BY <1>0, <1>3, CopyOK
    <3> QED BY <1>0, <3>1, Rows DEF TypeOK
  <2>2. CASE i \in DOMAIN inc /\ mem'[h].view[i] = inc[i]
    BY <1>1, <1>2, <2>1, <2>2
  <2>3. CASE i \in DOMAIN mem[h].view /\ mem'[h].view[i] = mem[h].view[i]
    BY <2>1, <2>3 DEF Kept, NoneAfter, Keeps
  <2> QED BY <1>3, <2>2, <2>3
<1> QED BY <1>0, <1>1, <1>2, <1>3, SameKeeper

(* A PATCH writes back a row without its components; it sets end_date only when *)
(* its copy has one.                                                            *)
LEMMA PatchesKeep ==
  ASSUME WriteInv, NEW h \in Handler, ModifyIncident(h) \/ ReOpenIncident(h), Newer(h), NEW c, NEW k, Kept(c, k)
  PROVE  StillKept(c, k)
<1>0. /\ TypeOK /\ RowsKept /\ OthersKept(h) /\ HasCopy(mem[h], mem[h].old) /\ UNCHANGED mem
      /\ RequestOK(mem[h])
  BY ModifyKeeps, ReOpenKeeps DEF KeptBy, WriteInv, TypeOK, Targets, ModifyIncident, ReOpenIncident
<1>1. PICK t : t = mem[h].old
  OBVIOUS
<1>2. /\ DOMAIN inc' = DOMAIN inc /\ t \in DOMAIN inc /\ inc'[t].comps = inc[t].comps
      /\ \A i \in DOMAIN inc : i # t => inc'[i] = inc[i]
      /\ ~inc[t].closed /\ ~mem[h].view[t].closed => ~inc'[t].closed
  <2>1. t \in DOMAIN inc /\ inc[t] \in Event /\ inc \in Seq(Event)
    BY <1>0, <1>1, CopyOK DEF HasCopy, TypeOK
  <2>2. CASE ModifyIncident(h)
    <3>1. PICK e \in Event :
             /\ inc' = [inc EXCEPT ![t] = e] /\ e.comps = inc[t].comps
             /\ e.closed = IF mem[h].status = "resolved" \/ (mem[h].view[t].closed /\ mem[h].status # "reopened")
                           THEN TRUE ELSE inc[t].closed
      BY <1>1, <2>2, ModifyIs
    <3>2. mem[h].status # "resolved"
      BY <2>2 DEF Newer, ModifyIncident
    <3>3. DOMAIN inc' = DOMAIN inc /\ inc'[t] = e /\ \A i \in DOMAIN inc : i # t => inc'[i] = inc[i]
      BY <2>1, <3>1, Updated
    <3>4. ~inc[t].closed /\ ~mem[h].view[t].closed => ~e.closed
      BY <3>1, <3>2
    <3> QED BY <2>1, <3>1, <3>3, <3>4
  <2>3. CASE ReOpenIncident(h)
    <3>1. PICK e : e = [inc[t] EXCEPT !.closed = FALSE]
      OBVIOUS
    <3>2. e \in Event /\ e.comps = inc[t].comps /\ ~e.closed
      BY <2>1, <3>1 DEF Event
    <3>3. inc' = [inc EXCEPT ![t] = e]
      BY <1>1, <2>1, <2>3, <3>1 DEF ReOpenIncident, Event
    <3>4. DOMAIN inc' = DOMAIN inc /\ inc'[t] = e /\ \A i \in DOMAIN inc : i # t => inc'[i] = inc[i]
      BY <2>1, <3>2, <3>3, Updated
    <3> QED BY <2>1, <3>2, <3>4
  <2> QED BY <2>2, <2>3
<1>3. \A i \in DOMAIN inc' : i > k /\ inc'[i].type = "incident" => c \notin inc'[i].comps
  BY <1>0, <1>2 DEF Kept, NoneAfter, RowsKept
<1>4. k # 0 => ~inc'[k].closed /\ c \in inc'[k].comps
  <2> SUFFICES ASSUME k # 0 PROVE ~inc'[k].closed /\ c \in inc'[k].comps
    OBVIOUS
  <2>1. k \in DOMAIN inc /\ ~inc[k].closed /\ c \in inc[k].comps
    BY DEF Kept, Keeps, Incidents, Active
  <2>2. k = t => ~mem[h].view[t].closed
    BY <1>0, <1>1 DEF Kept, Keeps, HasCopy
  <2> QED BY <1>2, <2>1, <2>2
<1>5. ASSUME NEW i \in DOMAIN mem'[h].view
      PROVE  /\ i > k /\ inc'[i].type = "incident" => c \notin mem'[h].view[i].comps
             /\ i = k => ~mem'[h].view[i].closed /\ c \in mem'[h].view[i].comps
  <2>1. i \in DOMAIN inc /\ i # 0 /\ inc'[i].type = inc[i].type /\ mem'[h].view[i] = mem[h].view[i]
    BY <1>0, <1>5, Rows DEF RequestOK, TypeOK, RowsKept
  <2> QED BY <1>0, <1>5, <2>1 DEF Kept, NoneAfter, Keeps
<1> QED BY <1>0, <1>3, <1>4, <1>5, SameKeeper

(* A new row e of h: if it is an incident with c it is the newest one, otherwise *)
(* nothing changes for c.                                                        *)
LEMMA InsertKeepsCover ==
  ASSUME WriteInv, NEW h \in Handler, RowsKept, OthersKept(h), NEW e \in Event, inc' = Append(inc, e),
         ~e.closed, RequestOK(mem[h])',
         \A i \in DOMAIN mem'[h].view : \/ i = Len(inc) + 1 /\ mem'[h].view[i] = e
                                        \/ i \in DOMAIN mem[h].view /\ mem'[h].view[i] = mem[h].view[i],
         NEW c, NEW k, Kept(c, k)
  PROVE  StillKept(c, k)
<1>0. TypeOK /\ RequestOK(mem[h])
  BY DEF WriteInv, TypeOK
<1>n. PICK n : n = Len(inc) + 1
  OBVIOUS
<1>1. /\ DOMAIN inc' = DOMAIN inc \cup {n} /\ n \notin DOMAIN inc /\ inc'[n] = e
      /\ \A i \in DOMAIN inc : inc'[i] = inc[i]
  BY <1>0, <1>n, Inserted DEF TypeOK
<1>2. DOMAIN mem'[h].view \subseteq DOMAIN inc' /\ DOMAIN mem[h].view \subseteq DOMAIN inc
  BY <1>0 DEF RequestOK
<1>3. CASE e.type = "incident" /\ c \in e.comps
  <2>1. Len(inc) + 1 \in DOMAIN mem'[h].view => mem'[h].view[Len(inc) + 1] = e
    BY <1>n, <1>1, <1>2
  <2> QED BY <1>0, <1>2, <1>3, <2>1, NewKeeper
<1>4. CASE ~(e.type = "incident" /\ c \in e.comps)
  <2>1. \A i \in DOMAIN inc' : i > k /\ inc'[i].type = "incident" => c \notin inc'[i].comps
    BY <1>1, <1>4 DEF Kept, NoneAfter
  <2>2. k # 0 => k \in DOMAIN inc /\ ~inc'[k].closed /\ c \in inc'[k].comps
    BY <1>1 DEF Kept, Keeps, Incidents, Active
  <2>3. ASSUME NEW i \in DOMAIN mem'[h].view
        PROVE  /\ i > k /\ inc'[i].type = "incident" => c \notin mem'[h].view[i].comps
               /\ i = k => ~mem'[h].view[i].closed /\ c \in mem'[h].view[i].comps
    <3>1. i # 0
      BY <1>0, <1>1, <1>2, <1>n, Rows DEF TypeOK
    <3>2. CASE i = n /\ mem'[h].view[i] = e
      BY <1>1, <1>4, <2>2, <3>1, <3>2
    <3>3. CASE i \in DOMAIN mem[h].view /\ mem'[h].view[i] = mem[h].view[i]
      BY <1>1, <1>2, <3>1, <3>3 DEF Kept, NoneAfter, Keeps
    <3> QED BY <1>n, <2>3, <3>2, <3>3
  <2> QED BY <1>0, <2>1, <2>2, <2>3, SameKeeper
<1> QED BY <1>3, <1>4

(* The source a of a move is saved without the moved components, which the newer *)
(* target b has: both from the copies of h.                                      *)
LEMMA SavesKeepCover ==
  ASSUME WriteInv, NEW h \in Handler, RowsKept, OthersKept(h),
         NEW n \in DOMAIN mem[h].view, NEW o \in DOMAIN mem[h].view, o < n, NEW a \in Event, NEW b \in Event,
         SaveBoth(n, b, o, a),
         inc[n].type = "incident", inc[o].type = "incident",
         b.comps = mem[h].view[n].comps, b.closed = mem[h].view[n].closed,
         a.comps \subseteq mem[h].view[o].comps,
         NEW c, NEW k, Kept(c, k),
         c \notin mem[h].view[n].comps /\ c \in mem[h].view[o].comps /\ ~mem[h].view[o].closed
           => c \in a.comps /\ ~a.closed,
         \A i \in DOMAIN mem'[h].view :
           /\ i \in DOMAIN mem[h].view
           /\ \/ mem'[h].view[i] = mem[h].view[i]
              \/ i = n /\ mem'[h].view[i] = b
              \/ i = o /\ mem'[h].view[i] = a
  PROVE  StillKept(c, k)
<1>0. TypeOK /\ RequestOK(mem[h]) /\ DOMAIN mem[h].view \subseteq DOMAIN inc /\ inc \in Seq(Event)
  BY DEF WriteInv, TypeOK, RequestOK
<1>1. /\ n \in DOMAIN inc /\ o \in DOMAIN inc /\ n \in Nat /\ o \in Nat /\ n # o /\ n # 0 /\ o # 0
      /\ k \in Nat
  BY <1>0, Rows DEF Kept
<1>2. /\ DOMAIN inc' = DOMAIN inc /\ inc'[n] = b /\ inc'[o] = a
      /\ \A i \in DOMAIN inc : i # n /\ i # o => inc'[i] = inc[i]
  BY <1>0, <1>1, SaveBothIs
<1>3. \A i \in DOMAIN mem[h].view : i > k /\ inc[i].type = "incident" => c \notin mem[h].view[i].comps
  BY DEF Kept, NoneAfter
<1>4. k # 0 /\ k \in DOMAIN mem[h].view => ~mem[h].view[k].closed /\ c \in mem[h].view[k].comps
  BY DEF Kept, Keeps
<1>5. (n > k => c \notin b.comps) /\ (o > k => c \notin a.comps)
  BY <1>3
<1>6. (n = k => c \in b.comps /\ ~b.closed)
  BY <1>1, <1>4
<1>7. (o = k => c \in a.comps /\ ~a.closed)
  <2> SUFFICES ASSUME o = k PROVE c \in a.comps /\ ~a.closed
    OBVIOUS
  <2>1. c \in mem[h].view[o].comps /\ ~mem[h].view[o].closed
    BY <1>1, <1>4
  <2>2. n > k
    BY <1>1
  <2>3. c \notin mem[h].view[n].comps
    BY <1>3, <2>2
  <2> QED BY <2>1, <2>3
<1>8. \A i \in DOMAIN inc' : i > k /\ inc'[i].type = "incident" => c \notin inc'[i].comps
  BY <1>2, <1>5 DEF Kept, NoneAfter
<1>9. k # 0 => ~inc'[k].closed /\ c \in inc'[k].comps
  <2> SUFFICES ASSUME k # 0 PROVE ~inc'[k].closed /\ c \in inc'[k].comps
    OBVIOUS
  <2>1. k \in DOMAIN inc /\ ~inc[k].closed /\ c \in inc[k].comps
    BY DEF Kept, Keeps, Incidents, Active
  <2> QED BY <1>2, <1>6, <1>7, <2>1
<1>10. ASSUME NEW i \in DOMAIN mem'[h].view
       PROVE  /\ i > k /\ inc'[i].type = "incident" => c \notin mem'[h].view[i].comps
              /\ i = k => ~mem'[h].view[i].closed /\ c \in mem'[h].view[i].comps
  <2>1. /\ i \in DOMAIN mem[h].view /\ i # 0 /\ inc'[i].type = inc[i].type
        /\ \/ mem'[h].view[i] = mem[h].view[i]
           \/ i = n /\ mem'[h].view[i] = b
           \/ i = o /\ mem'[h].view[i] = a
    BY <1>0, <1>10, Rows DEF RowsKept
  <2>2. CASE mem'[h].view[i] = mem[h].view[i]
    BY <1>3, <1>4, <2>1, <2>2
  <2>3. CASE i = n /\ mem'[h].view[i] = b
    BY <1>5, <1>6, <2>3
  <2>4. CASE i = o /\ mem'[h].view[i] = a
    BY <1>5, <1>7, <2>4
  <2> QED BY <2>1, <2>2, <2>3, <2>4
<1> QED BY <1>0, <1>8, <1>9, <1>10, SameKeeper

LEMMA ExtractSaveCovers ==
  ASSUME WriteInv, NEW h \in Handler, ExtractSave(h), Newer(h)
  PROVE  Newer(h)' /\ \A c, k : Kept(c, k) => StillKept(c, k)
<1>0. TypeOK /\ RequestOK(mem[h]) /\ HasCopy(mem[h], mem[h].old) /\ mem[h].op # "system"
  BY DEF WriteInv, TypeOK, ExtractSave, Targets, Newer
<1>e. PICK e : e = Extracted(mem[h])
  OBVIOUS
<1>k. PICK k : k = Len(inc) + 1
  OBVIOUS
<1>1. PICK n : /\ mem'[h] = n /\ n.op = mem[h].op /\ n.comp = mem[h].comp /\ n.old = mem[h].old /\ n.new = k
               /\ n.view = Put(mem[h].view, One(k, e))
  BY <1>e, <1>k, ExtractSaveIs
<1>2. /\ RowsKept /\ OthersKept(h) /\ RequestOK(mem[h])' /\ pc'[h] = "extract_tx"
      /\ e \in Event /\ inc' = Append(inc, e) /\ ~e.closed /\ e.comps = mem[h].comp
  <2>1. ~e.closed /\ e.comps = mem[h].comp
    BY <1>e DEF Extracted
  <2> QED BY <1>e, <2>1, ExtractSaveIs DEF KeptBy
<1>3. k \notin DOMAIN inc /\ DOMAIN mem[h].view \subseteq DOMAIN inc /\ \A i \in DOMAIN inc : i < k
  BY <1>0, <1>k, Rows DEF TypeOK, RequestOK
<1>4. /\ DOMAIN n.view = DOMAIN mem[h].view \cup {k} /\ n.view[k] = e
      /\ \A i \in DOMAIN mem[h].view : n.view[i] = mem[h].view[i]
  BY <1>1, <1>3 DEF Put, One
<1>5. Newer(h)'
  <2>1. mem[h].old < k
    BY <1>0, <1>3 DEF HasCopy
  <2> QED BY <1>0, <1>1, <1>2, <1>4, <2>1 DEF Newer
<1>6. \A i \in DOMAIN mem'[h].view : \/ i = Len(inc) + 1 /\ mem'[h].view[i] = e
                                     \/ i \in DOMAIN mem[h].view /\ mem'[h].view[i] = mem[h].view[i]
  BY <1>1, <1>4, <1>k
<1> QED BY <1>2, <1>5, <1>6, InsertKeepsCover

LEMMA ExtractTxCovers ==
  ASSUME WriteInv, NEW h \in Handler, ExtractTx(h), Newer(h)
  PROVE  Newer(h)' /\ \A c, k : Kept(c, k) => StillKept(c, k)
<1>0. /\ TypeOK /\ RequestOK(mem[h]) /\ HasCopy(mem[h], mem[h].old) /\ HasCopy(mem[h], mem[h].new)
      /\ mem[h].op # "system" /\ mem[h].old < mem[h].new /\ mem[h].view[mem[h].new].comps = mem[h].comp
  BY DEF WriteInv, TypeOK, ExtractTx, Targets, Newer
<1> DEFINE m == mem[h]  n == m.new  o == m.old
<1>a. PICK a : a = MovedFrom(m.view[o], m.comp, FALSE)
  OBVIOUS
<1>b. PICK b : b = m.view[n]
  OBVIOUS
<1>1. /\ RowsKept /\ OthersKept(h) /\ SaveBoth(n, b, o, a) /\ pc'[h] = "respond"
      /\ mem'[h] = Answer(m, n)
  BY <1>0, <1>a, <1>b, ExtractTxIs DEF KeptBy
<1>2. mem'[h].view = m.view
  BY <1>0, <1>1, AnswerIs DEF RequestOK
<1>3. /\ m.view[o] \in Event /\ b \in Event /\ inc[n].type = "incident" /\ inc[o].type = "incident"
      /\ n \in DOMAIN m.view /\ o \in DOMAIN m.view
  BY <1>0, <1>b DEF HasCopy, RequestOK
<1>4. a \in Event /\ a.comps = m.view[o].comps \ m.comp /\ a.closed = m.view[o].closed
  <2>1. a = [m.view[o] EXCEPT !.comps = @ \ m.comp]
    BY <1>a DEF MovedFrom
  <2>2. m.comp \in SUBSET Component
    BY <1>0 DEF RequestOK
  <2>3. a \in Event
    BY <1>a, <1>3, <2>2, MovedType
  <2> QED BY <1>3, <2>1, <2>3 DEF Event
<1>5. Newer(h)'
  BY <1>1 DEF Newer
<1>6. ASSUME NEW c, NEW k, Kept(c, k) PROVE StillKept(c, k)
  <2>1. c \notin m.view[n].comps /\ c \in m.view[o].comps /\ ~m.view[o].closed => c \in a.comps /\ ~a.closed
    BY <1>0, <1>4
  <2>2. a.comps \subseteq m.view[o].comps /\ b.comps = m.view[n].comps /\ b.closed = m.view[n].closed
    BY <1>4, <1>b
  <2>3. \A i \in DOMAIN mem'[h].view : i \in DOMAIN m.view /\ mem'[h].view[i] = m.view[i]
    BY <1>2
  <2> QED BY <1>0, <1>1, <1>3, <1>4, <1>6, <2>1, <2>2, <2>3, SavesKeepCover
<1> QED BY <1>5, <1>6

LEMMA CreateRegularCovers ==
  ASSUME WriteInv, NEW h \in Handler, CreateRegular(h), Newer(h)
  PROVE  Newer(h)' /\ \A c, k : Kept(c, k) => StillKept(c, k)
<1>0. TypeOK /\ RequestOK(mem[h])
  BY DEF WriteInv, TypeOK
<1>e. PICK e : e = Regular(mem[h])
  OBVIOUS
<1>k. PICK k : k = Len(inc) + 1
  OBVIOUS
<1>1. PICK n : /\ mem'[h] = n /\ RequestOK(n)'
               /\ \/ n.todo = {} /\ n.view = mem[h].view
                  \/ /\ n.todo = mem[h].todo /\ n.new = k
                     /\ n.view = Put(mem[h].view, One(k, e))
  BY <1>e, <1>k, CreateRegularIs
<1>2. /\ RowsKept /\ OthersKept(h) /\ pc'[h] = "relocate"
      /\ e \in Event /\ inc' = Append(inc, e) /\ ~e.closed /\ e.comps = mem[h].todo
  <2>1. ~e.closed /\ e.comps = mem[h].todo
    BY <1>e DEF Regular, NewEvent
  <2> QED BY <1>e, <2>1, CreateRegularIs
<1>3. k \notin DOMAIN inc /\ DOMAIN mem[h].view \subseteq DOMAIN inc /\ \A i \in DOMAIN inc : i <= k
  BY <1>0, <1>k, Rows DEF TypeOK, RequestOK
<1>4. ASSUME n.view = Put(mem[h].view, One(k, e))
      PROVE  /\ DOMAIN n.view = DOMAIN mem[h].view \cup {k} /\ n.view[k] = e
             /\ \A i \in DOMAIN mem[h].view : n.view[i] = mem[h].view[i]
  BY <1>3, <1>4 DEF Put, One
<1>5. Newer(h)'
  <2>1. CASE n.todo = {}
    BY <1>1, <1>2, <2>1 DEF Newer
  <2>2. CASE n.todo = mem[h].todo /\ n.new = k /\ n.view = Put(mem[h].view, One(k, e))
    <3>1. n.todo \subseteq n.view[n.new].comps
      BY <1>2, <1>4, <2>2
    <3>2. \A i \in DOMAIN n.view : i <= n.new
      <4>1. k <= k
        BY <1>0, <1>k, Rows DEF TypeOK
      <4> QED BY <1>3, <1>4, <2>2, <4>1
    <3> QED BY <1>1, <1>2, <3>1, <3>2 DEF Newer
  <2> QED BY <1>1, <2>1, <2>2
<1>6. \A i \in DOMAIN mem'[h].view : \/ i = Len(inc) + 1 /\ mem'[h].view[i] = e
                                     \/ i \in DOMAIN mem[h].view /\ mem'[h].view[i] = mem[h].view[i]
  BY <1>1, <1>4, <1>k
<1>7. RequestOK(mem[h])'
  BY <1>1
<1> QED BY <1>2, <1>5, <1>6, <1>7, InsertKeepsCover

LEMMA RelocateCovers ==
  ASSUME WriteInv, NEW h \in Handler, Relocate(h), Newer(h)
  PROVE  Newer(h)' /\ \A c, k : Kept(c, k) => StillKept(c, k)
<1> DEFINE m == mem[h]
<1>0. /\ TypeOK /\ RequestOK(m) /\ HasCopy(m, m.new) /\ m.todo \subseteq m.view[m.new].comps
      /\ \A i \in DOMAIN m.view : i <= m.new
  BY DEF WriteInv, TypeOK, Targets, Relocate, Newer
<1>1. PICK c \in m.todo : \E n : mem'[h] = n /\ Relocated(m, c, n)
  BY RelocateIs
<1>2. PICK n : mem'[h] = n /\ Relocated(m, c, n)
  BY <1>1
<1>3. RowsKept /\ OthersKept(h) /\ pc'[h] = "relocate"
  BY RelocateIs
<1>t. PICK t : t = m.new
  OBVIOUS
<1>4. /\ t \in DOMAIN m.view /\ inc[t].type = "incident" /\ t \in DOMAIN inc
      /\ m.view[t] \in Event /\ c \in m.view[t].comps
  BY <1>0, <1>t DEF HasCopy, RequestOK
<1>5. CASE UNCHANGED inc /\ n.view = m.view
  <2>1. Newer(h)'
    BY <1>0, <1>2, <1>3, <1>5 DEF Newer, Relocated
  <2>2. \A i \in DOMAIN mem'[h].view : i \in DOMAIN m.view /\ mem'[h].view[i] = m.view[i]
    BY <1>2, <1>5
  <2> QED BY <1>3, <1>5, <2>1, <2>2, ReadsKeep
<1>6. ASSUME NEW i \in DOMAIN m.view, RelocatedFrom(m, c, i, n)
      PROVE  Newer(h)' /\ \A d, k : Kept(d, k) => StillKept(d, k)
  <2>1. i # t /\ m.view[i].type = "incident" /\ c \in m.view[i].comps
    BY <1>6, <1>t DEF RelocatedFrom, Holders
  <2>2. i \in DOMAIN inc /\ m.view[i] \in Event /\ inc[i].type = "incident"
    BY <1>0, <2>1 DEF RequestOK
  <2>3. i < t
    <3>1. i <= t /\ i \in Nat /\ t \in Nat
      BY <1>0, <1>4, <1>t, <2>2, Rows DEF TypeOK
    <3> QED BY <2>1, <3>1
  <2>4. PICK b : b = MovedTo(m.view[t], {c})
    OBVIOUS
  <2>5. PICK a : a = MovedFrom(m.view[i], {c}, CloseSource(m.view[i]))
    OBVIOUS
  <2>6. /\ SaveBoth(t, b, i, a) /\ DOMAIN n.view = DOMAIN m.view /\ n.view[t] = b /\ n.view[i] = a
        /\ \A j \in DOMAIN m.view : j # i /\ j # t => n.view[j] = m.view[j]
    BY <1>6, <1>t, <2>4, <2>5 DEF RelocatedFrom
  <2>7. {c} \in SUBSET Component /\ CloseSource(m.view[i]) \in BOOLEAN
    BY <1>0 DEF CloseSource, RequestOK
  <2>8. a \in Event /\ b \in Event
    BY <1>4, <2>2, <2>4, <2>5, <2>7, MovedType
  <2>9. b.comps = m.view[t].comps /\ b.closed = m.view[t].closed
    <3>1. m.view[t].comps \cup {c} = m.view[t].comps
      BY <1>4
    <3>2. b = [m.view[t] EXCEPT !.comps = @ \cup {c}]
      BY <2>4 DEF MovedTo
    <3> QED BY <1>4, <3>1, <3>2 DEF Event
  <2>10. /\ a.comps \subseteq m.view[i].comps
         /\ \A d : d # c /\ d \in m.view[i].comps /\ ~m.view[i].closed => d \in a.comps /\ ~a.closed
    <3>1. CASE CloseSource(m.view[i])
      <4>1. IsFiniteSet(m.view[i].comps)
        BY <2>2, IncidentsAssumption, FS_Subset DEF Event
      <4>2. m.view[i].comps = {c}
        BY <2>1, <3>1, <4>1, FS_Singleton DEF CloseSource
      <4>3. a = [m.view[i] EXCEPT !.closed = TRUE, !.status = "resolved"]
        BY <2>5, <3>1 DEF MovedFrom
      <4>4. a.comps = m.view[i].comps
        BY <2>2, <4>3 DEF Event
      <4> QED BY <4>2, <4>4
    <3>2. CASE ~CloseSource(m.view[i])
      <4>1. a = [m.view[i] EXCEPT !.comps = @ \ {c}]
        BY <2>5, <3>2 DEF MovedFrom
      <4>2. a.comps = m.view[i].comps \ {c} /\ a.closed = m.view[i].closed
        BY <2>2, <4>1 DEF Event
      <4> QED BY <4>2
    <3> QED BY <3>1, <3>2
  <2>11. Newer(h)'
    <3>1. n.new = t /\ n.todo \subseteq m.todo
      BY <1>2, <1>t DEF Relocated
    <3>2. n.todo \subseteq n.view[n.new].comps /\ \A j \in DOMAIN n.view : j <= n.new
      BY <1>0, <1>t, <2>6, <2>9, <3>1
    <3> QED BY <1>2, <1>3, <3>2 DEF Newer
  <2>12. ASSUME NEW d, NEW k, Kept(d, k) PROVE StillKept(d, k)
    <3>1. d \notin m.view[t].comps /\ d \in m.view[i].comps /\ ~m.view[i].closed => d \in a.comps /\ ~a.closed
      BY <1>4, <2>10
    <3>2. \A j \in DOMAIN mem'[h].view :
           /\ j \in DOMAIN m.view
           /\ \/ mem'[h].view[j] = m.view[j]
              \/ j = t /\ mem'[h].view[j] = b
              \/ j = i /\ mem'[h].view[j] = a
      BY <1>2, <2>6
    <3> QED BY <1>3, <1>4, <2>2, <2>3, <2>6, <2>8, <2>9, <2>10, <2>12, <3>1, <3>2, SavesKeepCover
  <2> QED BY <2>11, <2>12
<1> QED BY <1>2, <1>5, <1>6 DEF Relocated

\* The request n that handler h has accepted.
Started(h, n) ==
  /\ UNCHANGED inc /\ pc[h] = "idle" /\ mem'[h] = n
  /\ n.res = <<>> /\ n.err = {}
  /\ \/ /\ pc'[h] = "next" /\ "system" \in Ops /\ n.op = "system" /\ DOMAIN n.view = {}
     \/ /\ pc'[h] = "open" /\ n.op \in {"regular", "maintenance"} /\ n.comp = n.todo
        /\ n.view = Copies(Active)
     \/ /\ pc'[h] = "extract" /\ "extract" \in Ops /\ n.op = "extract" /\ n.old \in DOMAIN inc
        /\ n.todo = {} /\ n.view = Copies({n.old})
     \/ /\ pc'[h] = "patch" /\ n.op = "patch" /\ n.status \in PatchStatus /\ n.old \in DOMAIN inc
        /\ n.view = Copies({n.old})

(* What a handler holds when it has accepted a request. *)
LEMMA StartIs ==
  ASSUME WriteInv, NEW h \in Handler, Starts(h)
  PROVE  \E n : Started(h, n)
<1>0. TypeOK /\ DOMAIN mem = Handler /\ DOMAIN pc = Handler
  BY DEF WriteInv, TypeOK
<1>1. CASE PostSystem(h)
  <2>1. PICK C \in SUBSET Component, k \in Impact :
         mem' = [mem EXCEPT ![h] = [NoRequest EXCEPT !.op = "system", !.todo = C, !.impact = k]]
    BY <1>1 DEF PostSystem
  <2>2. PICK n : n = [NoRequest EXCEPT !.op = "system", !.todo = C, !.impact = k]
    OBVIOUS
  <2>3. DOMAIN <<>> = {}
    OBVIOUS
  <2>4. n.op = "system" /\ n.res = <<>> /\ n.err = {} /\ n.view = <<>>
    BY <2>2 DEF NoRequest
  <2>5. mem'[h] = n /\ pc'[h] = "next" /\ pc[h] = "idle" /\ UNCHANGED inc /\ "system" \in Ops
    BY <1>0, <1>1, <2>1, <2>2 DEF PostSystem, Go, Accept
  <2> QED BY <2>3, <2>4, <2>5 DEF Started
<1>2. ASSUME NEW op \in {"regular", "maintenance"}, PostRegular(h, op) PROVE \E n : Started(h, n)
  <2>1. PICK C \in SUBSET Component, k \in Impact \cup {0} :
          mem' = [mem EXCEPT ![h] = [NoRequest EXCEPT !.op = op, !.todo = C, !.comp = C,
                                                      !.impact = k, !.view = Copies(Active)]]
    BY <1>2 DEF PostRegular
  <2>2. PICK n : n = [NoRequest EXCEPT !.op = op, !.todo = C, !.comp = C, !.impact = k, !.view = Copies(Active)]
    OBVIOUS
  <2>3. n.op = op /\ n.res = <<>> /\ n.err = {} /\ n.view = Copies(Active) /\ n.comp = n.todo
    BY <2>2 DEF NoRequest
  <2>4. mem'[h] = n /\ pc'[h] = "open" /\ pc[h] = "idle" /\ UNCHANGED inc
    BY <1>0, <1>2, <2>1, <2>2 DEF PostRegular, Go, Accept
  <2> QED BY <2>3, <2>4 DEF Started
<1>3. CASE PostExtract(h)
  <2>1. PICK i \in DOMAIN inc : \E C \in SUBSET inc[i].comps :
          mem' = [mem EXCEPT ![h] = [NoRequest EXCEPT !.op = "extract", !.comp = C, !.old = i,
                                       !.impact = inc[i].impact, !.view = Copies({i})]]
    BY <1>3 DEF PostExtract
  <2>2. PICK C \in SUBSET inc[i].comps :
          mem' = [mem EXCEPT ![h] = [NoRequest EXCEPT !.op = "extract", !.comp = C, !.old = i,
                                       !.impact = inc[i].impact, !.view = Copies({i})]]
    BY <2>1
  <2>3. PICK n : n = [NoRequest EXCEPT !.op = "extract", !.comp = C, !.old = i,
                                       !.impact = inc[i].impact, !.view = Copies({i})]
    OBVIOUS
  <2>4. n.op = "extract" /\ n.res = <<>> /\ n.err = {} /\ n.view = Copies({i}) /\ n.old = i /\ n.todo = {}
    BY <2>3 DEF NoRequest
  <2>5. mem'[h] = n /\ pc'[h] = "extract" /\ pc[h] = "idle" /\ UNCHANGED inc /\ "extract" \in Ops
    BY <1>0, <1>3, <2>2, <2>3 DEF PostExtract, Go, Accept
  <2> QED BY <2>4, <2>5 DEF Started
<1>4. CASE PatchIncident(h)
  <2>1. PICK i \in DOMAIN inc, s \in PatchStatus, k \in Impact :
          mem' = [mem EXCEPT ![h] = [NoRequest EXCEPT !.op = "patch", !.old = i, !.status = s,
                                                      !.impact = k, !.view = Copies({i})]]
    BY <1>4 DEF PatchIncident
  <2>2. PICK n : n = [NoRequest EXCEPT !.op = "patch", !.old = i, !.status = s,
                                       !.impact = k, !.view = Copies({i})]
    OBVIOUS
  <2>3. /\ n.op = "patch" /\ n.res = <<>> /\ n.err = {} /\ n.view = Copies({i}) /\ n.old = i
        /\ n.status = s
    BY <2>2 DEF NoRequest
  <2>4. mem'[h] = n /\ pc'[h] = "patch" /\ pc[h] = "idle" /\ UNCHANGED inc
    BY <1>0, <1>4, <2>1, <2>2 DEF PatchIncident, Go, Accept
  <2> QED BY <2>3, <2>4 DEF Started
<1> QED BY <1>1, <1>2, <1>3, <1>4 DEF Starts

LEMMA StartCovers ==
  ASSUME "system" \notin Ops, "resolved" \notin PatchStatus, WriteInv, NEW h \in Handler, Starts(h)
  PROVE  Newer(h)' /\ \A c, k : Kept(c, k) => StillKept(c, k)
<1>0. TypeOK /\ OthersKept(h)
  BY HandlerKeeps DEF KeptBy, WriteInv
<1>1. PICK n : Started(h, n)
  BY StartIs
<1>2. Newer(h)'
  BY <1>1 DEF Started, Newer
<1>3. UNCHANGED inc /\ mem'[h] = n
  BY <1>1 DEF Started
<1>4. \A i \in DOMAIN mem'[h].view : i \in DOMAIN inc /\ mem'[h].view[i] = inc[i]
  <2>1. PICK S \in SUBSET DOMAIN inc : n.view = Copies(S)
    BY <1>1 DEF Started, Active
  <2> QED BY <1>0, <1>3, <2>1, CopiesOK
<1> QED BY <1>0, <1>2, <1>3, <1>4, ReadsKeep

LEMMA FinishCovers ==
  ASSUME WriteInv, NEW h \in Handler, Respond(h) \/ Fail(h)
  PROVE  Newer(h)' /\ \A c, k : Kept(c, k) => StillKept(c, k)
<1>0. TypeOK /\ OthersKept(h)
  BY HandlerKeeps DEF KeptBy, WriteInv, Serves
<1>1. mem'[h] = NoRequest /\ pc'[h] = "idle" /\ UNCHANGED inc
  BY <1>0 DEF Respond, Fail, Finish, Go, TypeOK
<1>2. Newer(h)'
  BY <1>1 DEF Newer
<1>3. DOMAIN mem'[h].view = {}
  <2>1. DOMAIN <<>> = {}
    OBVIOUS
  <2>2. NoRequest.view = <<>>
    BY DEF NoRequest
  <2> QED BY <1>1, <2>1, <2>2
<1> QED BY <1>0, <1>1, <1>2, <1>3, ReadsKeep

LEMMA ServeCovers ==
  ASSUME WriteInv, NEW h \in Handler, Serves(h), Newer(h)
  PROVE  Newer(h)' /\ \A c, k : Kept(c, k) => StillKept(c, k)
<1>0. TypeOK /\ OthersKept(h) /\ DOMAIN pc = Handler
  BY HandlerKeeps DEF KeptBy, WriteInv, TypeOK
<1>1. \/ ExtractSave(h) \/ ExtractTx(h) \/ CreateRegular(h) \/ Relocate(h)
      \/ ModifyIncident(h) \/ ReOpenIncident(h) \/ Complete(h) \/ Respond(h)
  BY DEF Serves, Newer, ProcessSystem, FindTarget, AddComponentToIncident, CreateSystem, MoveComponent,
    IncreaseIncidentImpact, MarkSystem
<1>2. CASE ModifyIncident(h) \/ ReOpenIncident(h)
  <2>1. pc'[h] \in {"reopen", "respond"}
    BY <1>0, <1>2 DEF ModifyIncident, ReOpenIncident, Go
  <2>2. Newer(h)'
    BY <2>1 DEF Newer
  <2> QED BY <1>2, <2>2, PatchesKeep
<1>3. CASE Complete(h)
  <2>1. pc'[h] = "respond" /\ UNCHANGED <<inc, mem>>
    BY <1>0, <1>3 DEF Complete, Go
  <2>2. Newer(h)'
    BY <2>1 DEF Newer
  <2>3. \A i \in DOMAIN mem'[h].view : i \in DOMAIN mem[h].view /\ mem'[h].view[i] = mem[h].view[i]
    BY <2>1
  <2> QED BY <1>0, <2>1, <2>2, <2>3, ReadsKeep
<1> QED BY <1>1, <1>2, <1>3, FinishCovers, ExtractSaveCovers, ExtractTxCovers, CreateRegularCovers, RelocateCovers

(* A maintenance that ends is no incident. *)
LEMMA EndCovers ==
  ASSUME WriteInv, NEW i \in DOMAIN inc, EndMaintenance(i), NEW c, NEW k, Kept(c, k)
  PROVE  Kept(c, k)'
<1>1. /\ DOMAIN inc' = DOMAIN inc /\ inc[i].type = "maintenance"
      /\ \A j \in DOMAIN inc : j # i => inc'[j] = inc[j]
      /\ \A j \in DOMAIN inc : inc'[j].type = inc[j].type
  BY EndIs DEF WriteInv
<1>2. UNCHANGED <<pc, mem>> /\ \A h \in Handler : DOMAIN mem[h].view \subseteq DOMAIN inc
  BY DEF EndMaintenance, WriteInv, TypeOK, RequestOK
<1>3. NoneAfter(c, k)'
  BY <1>1, <1>2 DEF Kept, NoneAfter
<1>4. Keeps(c, k) => Keeps(c, k)'
  <2> SUFFICES ASSUME Keeps(c, k) PROVE Keeps(c, k)'
    OBVIOUS
  <2>1. k \in DOMAIN inc /\ inc[k].type = "incident" /\ ~inc[k].closed /\ c \in inc[k].comps
    BY DEF Keeps, Incidents, Active
  <2>2. k \in DOMAIN inc' /\ inc'[k] = inc[k]
    BY <1>1, <2>1
  <2> QED BY <1>2, <2>1, <2>2 DEF Keeps, Incidents, Active
<1> QED BY <1>1, <1>3, <1>4 DEF Kept

(* Every step keeps the newest incident of a component, or stores a newer one. *)
LEMMA CoverKept ==
  ASSUME "system" \notin Ops, "resolved" \notin PatchStatus, WriteInv, CoverInv, [Next]_vars
  PROVE  (\A h \in Handler : Newer(h)') /\ \A c, k : Kept(c, k) => StillKept(c, k)
<1>0. TypeOK /\ \A h \in Handler : Newer(h)
  BY DEF WriteInv, CoverInv
<1>1. ASSUME NEW h \in Handler, Starts(h) \/ Serves(h) \/ Fail(h)
      PROVE  (\A g \in Handler : Newer(g)') /\ \A c, k : Kept(c, k) => StillKept(c, k)
  <2>1. Newer(h)' /\ \A c, k : Kept(c, k) => StillKept(c, k)
    BY <1>0, <1>1, StartCovers, ServeCovers, FinishCovers
  <2>2. OthersKept(h)
    BY <1>1, HandlerKeeps DEF KeptBy
  <2>3. ASSUME NEW g \in Handler, g # h PROVE Newer(g)'
    <3>1. mem'[g] = mem[g] /\ pc'[g] = pc[g] /\ Newer(g)
      BY <1>0, <2>2, <2>3 DEF OthersKept
    <3> QED BY <3>1 DEF Newer
  <2> QED BY <2>1, <2>3
<1>2. ASSUME NEW i \in DOMAIN inc, EndMaintenance(i)
      PROVE  (\A g \in Handler : Newer(g)') /\ \A c, k : Kept(c, k) => StillKept(c, k)
  <2>1. \A g \in Handler : Newer(g)'
    BY <1>0, <1>2 DEF EndMaintenance, Newer
  <2>2. \A c, k : Kept(c, k) => Kept(c, k)'
    BY <1>2, EndCovers
  <2> QED BY <2>1, <2>2 DEF StillKept
<1>3. CASE UNCHANGED vars
  <2>1. \A g \in Handler : Newer(g)'
    BY <1>0, <1>3 DEF Newer
  <2>2. ASSUME NEW c, NEW k, Kept(c, k) PROVE Kept(c, k)'
    BY <1>3, <2>2 DEF Kept, NoneAfter, Keeps, Incidents, Active
  <2> QED BY <2>1, <2>2 DEF StillKept
<1> QED BY <1>1, <1>2, <1>3, NextIs

(* The newest incident that covers a component is the one that matters: any *)
(* incident that covers it now is not newer.                                *)
LEMMA KeeperCovers ==
  ASSUME WriteInv, NEW c, NEW k, Kept(c, k)
  PROVE  Covered(c) <=> k # 0
<1>1. k # 0 => Covered(c)
  BY DEF Kept, Keeps, Covered
<1>2. Covered(c) => k # 0
  <2> SUFFICES ASSUME Covered(c), k = 0 PROVE FALSE
    OBVIOUS
  <2>1. PICK i \in DOMAIN inc : inc[i].type = "incident" /\ c \in inc[i].comps
    BY DEF Covered, Incidents, Active
  <2>2. i > 0
    BY Rows DEF WriteInv, TypeOK
  <2> QED BY <2>1, <2>2 DEF Kept, NoneAfter
<1> QED BY <1>1, <1>2

-----------------------------------------------------------------------------
(* Requests served one at a time *)

\* FindTarget leaves the request n: with a target and its copy, or without one.
TargetFound(h, n) ==
  /\ mem'[h] = n /\ n.op = mem[h].op /\ n.todo = mem[h].todo /\ n.comp = mem[h].comp
  /\ n.impact = mem[h].impact /\ n.old = mem[h].old /\ n.res = mem[h].res /\ n.err = mem[h].err
  /\ \/ \E t \in Incidents :
          /\ inc[t].system /\ inc[t].impact = mem[h].impact
          /\ n.new = t /\ n.view = Put(Copies({t}), mem[h].view)
          /\ n.close => Cardinality(inc[t].comps) = 1
          /\ pc'[h] = IF mem[h].old = 0 THEN "add" ELSE "move"
     \/ /\ \A t \in Incidents : ~(inc[t].system /\ inc[t].impact = mem[h].impact)
        /\ n = mem[h]
        /\ pc'[h] = IF mem[h].old = 0 THEN "create"
                    ELSE IF Cardinality(mem[h].view[mem[h].old].comps) = 1 THEN "raise" ELSE "extract"

(* What FindTarget does. *)
LEMMA FindTargetIs ==
  ASSUME WriteInv, NEW h \in Handler, FindTarget(h)
  PROVE  /\ KeptBy(h) /\ UNCHANGED inc /\ pc[h] = "target"
         /\ \E n : TargetFound(h, n)
<1>0. DOMAIN mem = Handler /\ DOMAIN pc = Handler /\ DOMAIN mem[h] = DOMAIN NoRequest
  BY DEF WriteInv, TypeOK, RequestOK
<1>1. KeptBy(h) /\ UNCHANGED inc /\ pc[h] = "target"
  BY FindTargetKeeps DEF FindTarget
<1>2. CASE \E t \in Incidents :
             /\ inc[t].system /\ inc[t].impact = mem[h].impact
             /\ mem' = [mem EXCEPT ![h].new = t, ![h].view = Put(Copies({t}), mem[h].view),
                                   ![h].close = Cardinality(inc[t].comps) = 1]
             /\ Go(h, IF mem[h].old = 0 THEN "add" ELSE "move")
  <2>1. PICK t \in Incidents :
             /\ inc[t].system /\ inc[t].impact = mem[h].impact
             /\ mem' = [mem EXCEPT ![h].new = t, ![h].view = Put(Copies({t}), mem[h].view),
                                   ![h].close = Cardinality(inc[t].comps) = 1]
             /\ Go(h, IF mem[h].old = 0 THEN "add" ELSE "move")
    BY <1>2
  <2>v. PICK v : v = Put(Copies({t}), mem[h].view)
    OBVIOUS
  <2>b. PICK b : b = (Cardinality(inc[t].comps) = 1)
    OBVIOUS
  <2>2. mem' = [mem EXCEPT ![h].new = t, ![h].view = v, ![h].close = b]
    BY <2>1, <2>v, <2>b
  <2>3. PICK n : n = [mem[h] EXCEPT !.new = t, !.view = v, !.close = b]
    OBVIOUS
  <2>4. mem'[h] = n
    BY <1>0, <2>2, <2>3
  <2>5. /\ n.op = mem[h].op /\ n.todo = mem[h].todo /\ n.comp = mem[h].comp
        /\ n.impact = mem[h].impact /\ n.old = mem[h].old /\ n.res = mem[h].res /\ n.err = mem[h].err
        /\ n.new = t /\ n.view = v /\ n.close = b
    BY <1>0, <2>3, Fields
  <2>6. pc'[h] = IF mem[h].old = 0 THEN "add" ELSE "move"
    BY <1>0, <2>1 DEF Go
  <2>7. n.close => Cardinality(inc[t].comps) = 1
    BY <2>5, <2>b
  <2>8. TargetFound(h, n)
    BY <2>1, <2>4, <2>5, <2>6, <2>7, <2>v DEF TargetFound
  <2> QED BY <1>1, <2>8
<1>3. CASE /\ \A t \in Incidents : ~(inc[t].system /\ inc[t].impact = mem[h].impact)
           /\ UNCHANGED mem
           /\ Go(h, IF mem[h].old = 0 THEN "create"
                    ELSE IF Cardinality(mem[h].view[mem[h].old].comps) = 1 THEN "raise" ELSE "extract")
  <2>1. TargetFound(h, mem[h])
    BY <1>0, <1>3 DEF Go, TargetFound
  <2> QED BY <1>1, <2>1
<1> QED BY <1>2, <1>3 DEF FindTarget

\* Row t becomes e, an incident.
RowBecomes(t, e) ==
  /\ t \in DOMAIN inc /\ inc[t].type = "incident" /\ e \in Event /\ e.type = "incident"
  /\ DOMAIN inc' = DOMAIN inc /\ inc'[t] = e /\ \A i \in DOMAIN inc : i # t => inc'[i] = inc[i]

(* AddComponentToIncident, when its version is still the stored one. *)
LEMMA AddComponentIs ==
  ASSUME WriteInv, NEW h \in Handler, AddComponentToIncident(h)
  PROVE  /\ KeptBy(h) /\ pc[h] = "add"
         /\ \/ pc'[h] = "idle" /\ UNCHANGED inc
            \/ /\ pc'[h] = "next" /\ mem'[h] = Answer(mem[h], mem[h].new)
               /\ \E e : /\ RowBecomes(mem[h].new, e)
                         /\ e.system = inc[mem[h].new].system /\ e.impact = inc[mem[h].new].impact
                         /\ e.closed = inc[mem[h].new].closed
                         /\ e.comps = inc[mem[h].new].comps \cup mem[h].comp
<1>0. /\ TypeOK /\ RequestOK(mem[h]) /\ pc[h] = "add" /\ HasCopy(mem[h], mem[h].new) /\ KeptBy(h)
      /\ DOMAIN mem = Handler /\ DOMAIN pc = Handler
  BY AddComponentKeeps DEF AddComponentToIncident, WriteInv, TypeOK, Targets
<1> DEFINE m == mem[h]
<1>t. PICK t : t = m.new
  OBVIOUS
<1>1. t \in DOMAIN inc /\ inc[t] \in Event /\ inc[t].type = "incident" /\ inc \in Seq(Event)
  BY <1>0, <1>t, CopyOK DEF HasCopy, TypeOK
<1>2. CASE /\ inc' = [inc EXCEPT ![t].comps = @ \cup m.comp, ![t].version = @ + 1]
           /\ mem' = [mem EXCEPT ![h] = Answer(m, t)] /\ Go(h, "next")
  <2>1. PICK e : e = [inc[t] EXCEPT !.comps = @ \cup m.comp, !.version = @ + 1]
    OBVIOUS
  <2>2. inc[t].comps \cup m.comp \in SUBSET Component /\ inc[t].version + 1 \in Int
    BY <1>0, <1>1 DEF Event, RequestOK
  <2>3. /\ e \in Event /\ e.type = "incident" /\ e.system = inc[t].system /\ e.impact = inc[t].impact
        /\ e.closed = inc[t].closed /\ e.comps = inc[t].comps \cup m.comp
    BY <1>1, <2>1, <2>2 DEF Event
  <2>4. inc' = [inc EXCEPT ![t] = e]
    BY <1>1, <1>2, <2>1 DEF Event
  <2>5. RowBecomes(t, e)
    BY <1>1, <2>3, <2>4, Updated DEF RowBecomes
  <2>6. mem'[h] = Answer(m, t) /\ pc'[h] = "next"
    BY <1>0, <1>2 DEF Go
  <2> QED BY <1>0, <1>t, <2>3, <2>5, <2>6
<1>3. CASE Finish(h) /\ UNCHANGED inc
  BY <1>0, <1>3 DEF Finish, Go
<1> QED BY <1>t, <1>2, <1>3 DEF AddComponentToIncident

LEMMA CreateSystemIs ==
  ASSUME WriteInv, NEW h \in Handler, CreateSystem(h)
  PROVE  /\ KeptBy(h) /\ pc[h] = "create" /\ pc'[h] = "next" /\ mem'[h] = Answer(mem[h], Len(inc) + 1)
         /\ \E e \in Event : /\ inc' = Append(inc, e) /\ e.type = "incident" /\ e.system /\ ~e.closed
                             /\ e.impact = mem[h].impact /\ e.comps = mem[h].comp
<1>0. TypeOK /\ RequestOK(mem[h]) /\ DOMAIN mem = Handler /\ DOMAIN pc = Handler
  BY DEF WriteInv, TypeOK
<1>1. PICK e : e = NewEvent("incident", TRUE, mem[h].impact, mem[h].comp)
  OBVIOUS
<1>2. e \in Event /\ e.type = "incident" /\ e.system /\ ~e.closed /\ e.impact = mem[h].impact /\ e.comps = mem[h].comp
  <2>1. mem[h].impact \in 0..3 /\ mem[h].comp \in SUBSET Component
    BY <1>0 DEF RequestOK
  <2>2. "detected" \in Statuses
    BY DEF Statuses, OpenStatus
  <2>3. PICK s \in Statuses : s = "detected"
    BY <2>2
  <2>4. e = [type |-> "incident", system |-> TRUE, impact |-> mem[h].impact, comps |-> mem[h].comp,
             closed |-> FALSE, version |-> 2, status |-> s]
    BY <1>1, <2>3 DEF NewEvent
  <2> QED BY ONLY <2>1, <2>3, <2>4, NewEventIs
<1>3. inc' = Append(inc, e)
  BY <1>1 DEF CreateSystem
<1> QED BY <1>0, <1>2, <1>3, CreateSystemKeeps DEF CreateSystem, Go

LEMMA IncreaseIs ==
  ASSUME WriteInv, NEW h \in Handler, IncreaseIncidentImpact(h)
  PROVE  /\ KeptBy(h) /\ pc[h] = "raise" /\ pc'[h] = "next" /\ mem'[h] = Answer(mem[h], mem[h].old)
         /\ \E e : /\ RowBecomes(mem[h].old, e)
                   /\ e.system = inc[mem[h].old].system /\ e.impact = mem[h].impact
                   /\ e.closed = inc[mem[h].old].closed /\ e.comps = inc[mem[h].old].comps
<1>0. TypeOK /\ RequestOK(mem[h]) /\ HasCopy(mem[h], mem[h].old) /\ DOMAIN mem = Handler /\ DOMAIN pc = Handler
  BY DEF IncreaseIncidentImpact, WriteInv, TypeOK, Targets
<1> DEFINE m == mem[h]
<1>t. PICK t : t = m.old
  OBVIOUS
<1>c. PICK c : c = m.view[t]
  OBVIOUS
<1>1. /\ t \in DOMAIN inc /\ inc[t] \in Event /\ inc[t].type = "incident" /\ inc \in Seq(Event)
      /\ c \in Event /\ m.impact \in 0..3
  BY <1>0, <1>t, <1>c, CopyOK DEF HasCopy, TypeOK, RequestOK
<1>2. PICK e : e = [inc[t] EXCEPT !.impact = m.impact, !.status = c.status, !.version = c.version]
  OBVIOUS
<1>3. /\ e \in Event /\ e.type = "incident" /\ e.system = inc[t].system /\ e.impact = m.impact
      /\ e.closed = inc[t].closed /\ e.comps = inc[t].comps
  BY <1>1, <1>2 DEF Event
<1>4. inc' = [inc EXCEPT ![t] = e]
  BY <1>1, <1>2, <1>t, <1>c DEF IncreaseIncidentImpact, Event
<1>5. RowBecomes(t, e)
  BY <1>1, <1>3, <1>4, Updated DEF RowBecomes
<1> QED BY <1>0, <1>t, <1>3, <1>5, IncreaseKeeps DEF IncreaseIncidentImpact, Go

LEMMA MarkSystemIs ==
  ASSUME WriteInv, NEW h \in Handler, MarkSystem(h)
  PROVE  /\ KeptBy(h) /\ pc[h] = "mark" /\ pc'[h] = "next" /\ mem'[h] = Answer(mem[h], mem[h].new)
         /\ \E e : /\ RowBecomes(mem[h].new, e)
                   /\ e.impact = mem[h].view[mem[h].new].impact
                   /\ e.closed = inc[mem[h].new].closed /\ e.comps = inc[mem[h].new].comps
<1>0. TypeOK /\ RequestOK(mem[h]) /\ HasCopy(mem[h], mem[h].new) /\ DOMAIN mem = Handler /\ DOMAIN pc = Handler
  BY DEF MarkSystem, WriteInv, TypeOK, Targets
<1> DEFINE m == mem[h]
<1>t. PICK t : t = m.new
  OBVIOUS
<1>c. PICK c : c = m.view[t]
  OBVIOUS
<1>1. /\ t \in DOMAIN inc /\ inc[t] \in Event /\ inc[t].type = "incident" /\ inc \in Seq(Event) /\ c \in Event
  BY <1>0, <1>t, <1>c, CopyOK DEF HasCopy, TypeOK
<1>2. PICK e : e = [inc[t] EXCEPT !.system = TRUE, !.version = c.version + 1, !.status = c.status,
                                  !.impact = c.impact]
  OBVIOUS
<1>3. /\ e \in Event /\ e.type = "incident" /\ e.impact = c.impact
      /\ e.closed = inc[t].closed /\ e.comps = inc[t].comps
  <2>1. c.version + 1 \in Int /\ c.status \in Statuses /\ c.impact \in 0..3
    BY <1>1 DEF Event
  <2> QED BY <1>1, <1>2, <2>1 DEF Event
<1>4. inc' = [inc EXCEPT ![t] = e]
  BY <1>1, <1>2, <1>t, <1>c DEF MarkSystem, Event
<1>5. RowBecomes(t, e)
  BY <1>1, <1>3, <1>4, Updated DEF RowBecomes
<1> QED BY <1>0, <1>t, <1>c, <1>3, <1>5, MarkSystemKeeps DEF MarkSystem, Go

\* Incident r is open and, for a request of the system, at its impact or not the
\* system's: it may stand in the answer to m for the components it has.
Answers(m, r) ==
  /\ inc[r].type = "incident" /\ ~inc[r].closed
  /\ m.op = "system" => ~inc[r].system \/ inc[r].impact >= m.impact

\* A step spoils no incident that may stand in an answer to m.
AnswersKept(m) ==
  \A r \in DOMAIN inc : Answers(m, r) =>
    r \in DOMAIN inc' /\ Answers(m, r)' /\ inc[r].comps \subseteq inc'[r].comps

(* A true answer stays true in a step that spoils none. *)
LEMMA AnswerStays ==
  ASSUME NEW m, AnswersKept(m), NEW d, TrueAnswer(m, d), DOMAIN inc \subseteq DOMAIN inc',
         NEW n, n.op = m.op, n.op = "system" => n.impact = m.impact, n.res[d] = m.res[d]
  PROVE  TrueAnswer(n, d)'
<1>1. PICK r : r = m.res[d]
  OBVIOUS
<1>2. r \in DOMAIN inc /\ (m.op # "maintenance" => Answers(m, r) /\ d \in inc[r].comps)
  BY <1>1 DEF TrueAnswer, Answers
<1>3. m.op # "maintenance" => r \in DOMAIN inc' /\ Answers(m, r)' /\ d \in inc'[r].comps
  BY <1>2 DEF AnswersKept
<1>4. m.op # "maintenance" =>
        /\ inc'[r].type = "incident" /\ ~inc'[r].closed /\ d \in inc'[r].comps
        /\ m.op = "system" => ~inc'[r].system \/ inc'[r].impact >= m.impact
  BY <1>3 DEF Answers
<1>5. r \in DOMAIN inc' /\ n.res[d] = r
  BY <1>1, <1>2
<1> QED BY <1>4, <1>5 DEF TrueAnswer

(* A component of a system request gets its answer and the next one is due. *)
LEMMA SystemAnswers ==
  ASSUME WriteInv, NEW h \in Handler, RowsKept, NEW m, m = mem[h], SerialStep(h),
         pc[h] \in {"add", "create", "raise", "mark", "move"}, pc'[h] = "next",
         NEW i \in DOMAIN inc', mem'[h] = Answer(m, i), AnswersKept(m), Answers(m, i)',
         m.comp \subseteq inc'[i].comps
  PROVE  SerialStep(h)'
<1>0. RequestOK(m)
  BY DEF WriteInv, TypeOK
<1>1. PICK n : n = Answer(m, i)
  OBVIOUS
<1>2. /\ n.op = m.op /\ n.todo = m.todo /\ n.impact = m.impact /\ n.err = m.err
      /\ DOMAIN n.res = DOMAIN m.res \cup m.comp /\ \A c \in m.comp : n.res[c] = i
      /\ \A c \in DOMAIN m.res \ m.comp : n.res[c] = m.res[c]
  BY <1>0, <1>1, AnswerIs DEF RequestOK
<1>3. m.op = "system" /\ m.comp \cap m.todo = {} /\ m.todo \cap DOMAIN m.res = {}
  BY DEF SerialStep, SystemStep
<1>4. mem'[h] = n
  BY <1>1
<1>5. SystemStep(h)'
  <2>1. n.todo \cap DOMAIN n.res = {}
    BY <1>2, <1>3
  <2> QED BY <1>2, <1>3, <1>4, <2>1 DEF SystemStep
<1>6. RegularStep(h)'
  BY DEF RegularStep
<1>7. ASSUME NEW c \in DOMAIN n.res \ n.err PROVE TrueAnswer(n, c)'
  <2>1. CASE c \in m.comp
    <3>1. n.res[c] = i /\ c \in inc'[i].comps
      BY <1>2, <2>1
    <3>2. /\ inc'[i].type = "incident" /\ ~inc'[i].closed
          /\ m.op = "system" => ~inc'[i].system \/ inc'[i].impact >= m.impact
      BY DEF Answers
    <3> QED BY <1>2, <3>1, <3>2 DEF TrueAnswer
  <2>2. CASE c \notin m.comp
    <3>1. c \in DOMAIN m.res \ m.err /\ n.res[c] = m.res[c]
      BY <1>2, <1>7, <2>2
    <3>2. TrueAnswer(m, c)
      BY <3>1 DEF SerialStep, Answered
    <3> QED BY <1>2, <3>1, <3>2, AnswerStays DEF RowsKept
  <2> QED BY <2>1, <2>2
<1>8. Answered(h)'
  BY <1>4, <1>7 DEF Answered
<1> QED BY <1>5, <1>6, <1>8 DEF SerialStep

LEMMA AddComponentServes ==
  ASSUME WriteInv, NEW h \in Handler, AddComponentToIncident(h), SerialStep(h), pc'[h] # "idle"
  PROVE  SerialStep(h)'
<1>m. PICK m : m = mem[h]
  OBVIOUS
<1>t. PICK t : t = m.new
  OBVIOUS
<1>0. KeptBy(h) /\ pc[h] = "add" /\ pc'[h] = "next" /\ mem'[h] = Answer(m, t)
  BY <1>m, <1>t, AddComponentIs
<1>1. PICK e : /\ RowBecomes(t, e) /\ e.system = inc[t].system /\ e.impact = inc[t].impact
               /\ e.closed = inc[t].closed /\ e.comps = inc[t].comps \cup m.comp
  BY <1>m, <1>t, AddComponentIs
<1>2. ~inc[t].closed /\ inc[t].impact = m.impact /\ inc[t].system /\ m.impact \in 0..3
  BY <1>0, <1>m, <1>t DEF SerialStep, SystemStep, WriteInv, TypeOK, RequestOK
<1>3. AnswersKept(m)
  BY <1>1 DEF AnswersKept, Answers, RowBecomes
<1>4. Answers(m, t)' /\ t \in DOMAIN inc' /\ m.comp \subseteq inc'[t].comps
  BY <1>1, <1>2 DEF Answers, RowBecomes
<1> QED BY <1>0, <1>m, <1>3, <1>4, SystemAnswers DEF KeptBy

LEMMA CreateSystemServes ==
  ASSUME WriteInv, NEW h \in Handler, CreateSystem(h), SerialStep(h)
  PROVE  SerialStep(h)'
<1>m. PICK m : m = mem[h]
  OBVIOUS
<1>t. PICK t : t = Len(inc) + 1
  OBVIOUS
<1>0. KeptBy(h) /\ pc[h] = "create" /\ pc'[h] = "next" /\ mem'[h] = Answer(m, t) /\ inc \in Seq(Event)
  BY <1>m, <1>t, CreateSystemIs DEF WriteInv, TypeOK
<1>1. PICK e \in Event : /\ inc' = Append(inc, e) /\ e.type = "incident" /\ e.system /\ ~e.closed
                         /\ e.impact = m.impact /\ e.comps = m.comp
  BY <1>m, CreateSystemIs
<1>2. t \in DOMAIN inc' /\ inc'[t] = e /\ \A i \in DOMAIN inc : i \in DOMAIN inc' /\ inc'[i] = inc[i]
  BY <1>0, <1>1, <1>t, Inserted
<1>3. AnswersKept(m)
  BY <1>2 DEF AnswersKept, Answers
<1>4. Answers(m, t)' /\ m.comp \subseteq inc'[t].comps
  <2>1. m.impact \in 0..3
    BY <1>m DEF WriteInv, TypeOK, RequestOK
  <2> QED BY <1>1, <1>2, <2>1 DEF Answers
<1> QED BY <1>0, <1>m, <1>2, <1>3, <1>4, SystemAnswers DEF KeptBy

LEMMA IncreaseServes ==
  ASSUME WriteInv, NEW h \in Handler, IncreaseIncidentImpact(h), SerialStep(h)
  PROVE  SerialStep(h)'
<1>m. PICK m : m = mem[h]
  OBVIOUS
<1>t. PICK t : t = m.old
  OBVIOUS
<1>0. KeptBy(h) /\ pc[h] = "raise" /\ pc'[h] = "next" /\ mem'[h] = Answer(m, t)
  BY <1>m, <1>t, IncreaseIs
<1>1. PICK e : /\ RowBecomes(t, e) /\ e.system = inc[t].system /\ e.impact = m.impact
               /\ e.closed = inc[t].closed /\ e.comps = inc[t].comps
  BY <1>m, <1>t, IncreaseIs
<1>2. ~inc[t].closed /\ m.comp \subseteq inc[t].comps /\ m.impact \in 0..3
  BY <1>0, <1>m, <1>t DEF SerialStep, SystemStep, WriteInv, TypeOK, RequestOK
<1>3. AnswersKept(m)
  BY <1>1, <1>2 DEF AnswersKept, Answers, RowBecomes
<1>4. Answers(m, t)' /\ t \in DOMAIN inc' /\ m.comp \subseteq inc'[t].comps
  BY <1>1, <1>2 DEF Answers, RowBecomes
<1> QED BY <1>0, <1>m, <1>3, <1>4, SystemAnswers DEF KeptBy

LEMMA MarkSystemServes ==
  ASSUME WriteInv, NEW h \in Handler, MarkSystem(h), SerialStep(h)
  PROVE  SerialStep(h)'
<1>m. PICK m : m = mem[h]
  OBVIOUS
<1>t. PICK t : t = m.new
  OBVIOUS
<1>0. KeptBy(h) /\ pc[h] = "mark" /\ pc'[h] = "next" /\ mem'[h] = Answer(m, t)
  BY <1>m, <1>t, MarkSystemIs
<1>1. PICK e : /\ RowBecomes(t, e) /\ e.impact = m.view[t].impact
               /\ e.closed = inc[t].closed /\ e.comps = inc[t].comps
  BY <1>m, <1>t, MarkSystemIs
<1>2. /\ ~inc[t].closed /\ m.comp = inc[t].comps /\ m.view[t].impact = m.impact /\ m.impact \in 0..3
  BY <1>0, <1>m, <1>t DEF SerialStep, SystemStep, WriteInv, TypeOK, RequestOK
<1>3. AnswersKept(m)
  BY <1>1, <1>2 DEF AnswersKept, Answers, RowBecomes
<1>4. Answers(m, t)' /\ t \in DOMAIN inc' /\ m.comp \subseteq inc'[t].comps
  BY <1>1, <1>2 DEF Answers, RowBecomes
<1> QED BY <1>0, <1>m, <1>3, <1>4, SystemAnswers DEF KeptBy

(* The rows of source and target after MoveComponent, when its copies are fresh. *)
LEMMA MoveIs ==
  ASSUME WriteInv, NEW h \in Handler, MoveComponent(h), SerialStep(h), NEW m, m = mem[h]
  PROVE  /\ KeptBy(h) /\ pc[h] = "move" /\ pc'[h] = "next" /\ mem'[h] = Answer(m, m.new)
         /\ m.new \in DOMAIN inc /\ m.old \in DOMAIN inc /\ m.new # m.old /\ DOMAIN inc' = DOMAIN inc
         /\ inc'[m.new] = MovedTo(inc[m.new], m.comp)
         /\ inc'[m.old] = MovedFrom(inc[m.old], m.comp, m.close)
         /\ \A i \in DOMAIN inc : i # m.new /\ i # m.old => inc'[i] = inc[i]
<1>0. /\ TypeOK /\ RequestOK(m) /\ HasCopy(m, m.new) /\ HasCopy(m, m.old) /\ pc[h] = "move"
      /\ Fresh(m) /\ SystemStep(h) /\ DOMAIN mem = Handler /\ DOMAIN pc = Handler /\ KeptBy(h)
  BY MoveComponentKeeps DEF MoveComponent, WriteInv, TypeOK, Targets, SerialStep
<1>1. mem'[h] = Answer(m, m.new) /\ pc'[h] = "next"
  BY <1>0 DEF MoveComponent, Go
<1>b. PICK b : b = MovedTo(m.view[m.new], m.comp)
  OBVIOUS
<1>a. PICK a : a = MovedFrom(m.view[m.old], m.comp, m.close)
  OBVIOUS
<1>2. SaveBoth(m.new, b, m.old, a)
  BY <1>a, <1>b DEF MoveComponent
<1>3. /\ m.new \in DOMAIN inc /\ m.old \in DOMAIN inc /\ m.view[m.new] = inc[m.new] /\ m.view[m.old] = inc[m.old]
      /\ m.view[m.new] \in Event /\ m.view[m.old] \in Event /\ m.comp \in SUBSET Component /\ m.close \in BOOLEAN
  BY <1>0 DEF HasCopy, RequestOK, Fresh
<1>4. a \in Event /\ b \in Event
  BY <1>3, <1>a, <1>b, MovedType
<1>5. m.new # m.old
  <2>1. inc[m.old].impact < m.impact /\ inc[m.new].impact = m.impact
    BY <1>0 DEF SystemStep
  <2>2. m.impact \in 0..3
    BY <1>0 DEF RequestOK
  <2> QED BY <2>1, <2>2
<1>6. inc \in Seq(Event)
  BY <1>0 DEF TypeOK
<1>7. /\ DOMAIN inc' = DOMAIN inc /\ inc'[m.new] = b /\ inc'[m.old] = a
      /\ \A i \in DOMAIN inc : i # m.new /\ i # m.old => inc'[i] = inc[i]
  BY <1>2, <1>3, <1>4, <1>5, <1>6, SaveBothIs
<1> QED BY <1>0, <1>1, <1>3, <1>5, <1>7, <1>a, <1>b

LEMMA MoveServes ==
  ASSUME WriteInv, NEW h \in Handler, MoveComponent(h), SerialStep(h)
  PROVE  SerialStep(h)'
<1>m. PICK m : m = mem[h]
  OBVIOUS
<1>t. PICK t : t = m.new
  OBVIOUS
<1>0. /\ KeptBy(h) /\ pc[h] = "move" /\ pc'[h] = "next" /\ mem'[h] = Answer(m, t)
      /\ t \in DOMAIN inc /\ m.old \in DOMAIN inc /\ t # m.old /\ DOMAIN inc' = DOMAIN inc
      /\ inc'[t] = MovedTo(inc[t], m.comp)
      /\ \A i \in DOMAIN inc : i # t /\ i # m.old => inc'[i] = inc[i]
  BY <1>m, <1>t, MoveIs
<1>1. /\ inc[m.old].system /\ inc[m.old].impact < m.impact /\ inc[t].impact = m.impact /\ ~inc[t].closed
      /\ m.op = "system"
  BY <1>0, <1>m, <1>t DEF SerialStep, SystemStep
<1>2. inc[t] \in Event /\ inc[m.old] \in Event /\ m.impact \in 0..3 /\ inc[t].type = "incident"
  BY <1>0, <1>m, <1>t, Rows DEF WriteInv, TypeOK, RequestOK, Targets, HasCopy
<1>3. /\ inc'[t].type = "incident" /\ inc'[t].closed = inc[t].closed /\ inc'[t].system = inc[t].system
      /\ inc'[t].impact = inc[t].impact /\ inc'[t].comps = inc[t].comps \cup m.comp
  BY <1>0, <1>2 DEF MovedTo, Event
<1>4. ~Answers(m, m.old)
  <2>1. ~(inc[m.old].impact >= m.impact)
    BY <1>1, <1>2 DEF Event
  <2> QED BY <1>1, <2>1 DEF Answers
<1>5. AnswersKept(m)
  <2> SUFFICES ASSUME NEW r \in DOMAIN inc, Answers(m, r)
               PROVE  r \in DOMAIN inc' /\ Answers(m, r)' /\ inc[r].comps \subseteq inc'[r].comps
    BY DEF AnswersKept
  <2>1. r # m.old
    BY <1>4
  <2>2. CASE r = t
    BY <1>0, <1>3, <2>2 DEF Answers
  <2>3. CASE r # t
    BY <1>0, <2>1, <2>3 DEF Answers
  <2> QED BY <2>2, <2>3
<1>6. Answers(m, t)' /\ t \in DOMAIN inc' /\ m.comp \subseteq inc'[t].comps
  BY <1>0, <1>1, <1>2, <1>3 DEF Answers
<1> QED BY <1>0, <1>m, <1>5, <1>6, SystemAnswers DEF KeptBy

(* A handler starts its next component, or answers it from the events it finds. *)
LEMMA ProcessSystemServes ==
  ASSUME WriteInv, NEW h \in Handler, ProcessSystem(h), SerialStep(h)
  PROVE  SerialStep(h)'
<1>0. /\ TypeOK /\ RequestOK(mem[h]) /\ pc[h] = "next" /\ UNCHANGED inc
      /\ DOMAIN mem = Handler /\ DOMAIN pc = Handler
  BY DEF ProcessSystem, WriteInv, TypeOK
<1>1. PICK c \in mem[h].todo : \E n : Processed(h, c, n)
  BY ProcessSystemIs
<1>2. PICK n : Processed(h, c, n)
  BY <1>1
<1>m. PICK m : m = mem[h]
  OBVIOUS
<1>s. PICK s : s = Serving(m, c)
  OBVIOUS
<1>3. /\ s.op = m.op /\ s.todo = m.todo \ {c} /\ s.comp = {c} /\ s.impact = m.impact /\ s.old = 0
      /\ s.res = m.res /\ s.err = m.err /\ DOMAIN s.view = {} /\ RequestOK(s) /\ DOMAIN s = DOMAIN NoRequest
  <2>1. RequestOK(m) /\ c \in m.todo
    BY <1>0, <1>1, <1>m
  <2> QED BY <1>s, <2>1, ServingIs DEF RequestOK
<1>4. /\ m.op = "system" /\ m.todo \cap DOMAIN m.res = {}
      /\ \A d \in DOMAIN m.res \ m.err : TrueAnswer(m, d)
  BY <1>0, <1>m DEF SerialStep, SystemStep, Answered
<1>5. mem'[h] = n
  BY <1>0, <1>2 DEF Processed
<1>6. ASSUME NEW i \in EventsOf(c), NEW e, n.op = m.op, n.todo = s.todo, n.impact = m.impact, n.err = m.err \cup e,
             DOMAIN n.res = DOMAIN m.res \cup {c}, n.res[c] = i, pc' = pc,
             \A d \in DOMAIN m.res \ {c} : n.res[d] = m.res[d],
             c \in e \/ Answers(m, i)
      PROVE  SerialStep(h)'
  <2>1. pc'[h] = "next"
    BY <1>0, <1>6
  <2>2. SystemStep(h)'
    <3>1. n.todo \cap DOMAIN n.res = {}
      BY <1>3, <1>4, <1>6
    <3> QED BY <1>4, <1>5, <1>6, <2>1, <3>1 DEF SystemStep
  <2>3. RegularStep(h)'
    BY <2>1 DEF RegularStep
  <2>4. ASSUME NEW d \in DOMAIN n.res \ n.err PROVE TrueAnswer(n, d)'
    <3>1. CASE d = c
      <4>1. Answers(m, i) /\ n.res[d] = i /\ i \in DOMAIN inc /\ d \in inc[i].comps
        BY <1>6, <2>4, <3>1 DEF EventsOf, Active
      <4>2. /\ inc[i].type = "incident" /\ ~inc[i].closed
            /\ m.op = "system" => ~inc[i].system \/ inc[i].impact >= m.impact
        BY <4>1 DEF Answers
      <4> QED BY <1>0, <1>6, <4>1, <4>2 DEF TrueAnswer
    <3>2. CASE d # c
      <4>1. d \in DOMAIN m.res \ m.err /\ n.res[d] = m.res[d]
        BY <1>6, <2>4, <3>2
      <4>2. TrueAnswer(m, d)
        BY <1>4, <4>1
      <4> QED BY <1>0, <1>6, <4>1, <4>2 DEF TrueAnswer
    <3> QED BY <3>1, <3>2
  <2>5. Answered(h)'
    BY <1>5, <2>1, <2>4 DEF Answered
  <2> QED BY <2>1, <2>2, <2>3, <2>5 DEF SerialStep
<1>7. ASSUME NEW i \in EventsOf(c), NEW a, a = Answer(s, i)
      PROVE  /\ a.op = m.op /\ a.todo = s.todo /\ a.impact = m.impact /\ a.err = m.err
             /\ DOMAIN a.res = DOMAIN m.res \cup {c} /\ a.res[c] = i /\ DOMAIN a = DOMAIN NoRequest
             /\ \A d \in DOMAIN m.res \ {c} : a.res[d] = m.res[d]
  BY <1>3, <1>7, AnswerIs
<1>8. CASE \E i \in StopsOf(c) : /\ n = [Answer(s, i) EXCEPT !.err = @ \cup
                                         IF inc[i].type = "maintenance" THEN {c} ELSE {}]
                                 /\ pc' = pc
  <2>1. PICK i \in StopsOf(c) : /\ n = [Answer(s, i) EXCEPT !.err = @ \cup
                                         IF inc[i].type = "maintenance" THEN {c} ELSE {}]
                                /\ pc' = pc
    BY <1>8
  <2>2. PICK a : a = Answer(s, i)
    OBVIOUS
  <2>3. PICK e : e = IF inc[i].type = "maintenance" THEN {c} ELSE {}
    OBVIOUS
  <2>4. i \in EventsOf(c)
    BY <2>1 DEF StopsOf
  <2>5. n = [a EXCEPT !.err = @ \cup e]
    BY <2>1, <2>2, <2>3
  <2>6. /\ n.op = a.op /\ n.todo = a.todo /\ n.impact = a.impact /\ n.err = a.err \cup e /\ n.res = a.res
    BY <1>7, <2>2, <2>4, <2>5, Fields
  <2>7. c \in e \/ Answers(m, i)
    <3>1. inc[i] \in Event /\ ~inc[i].closed
      BY <1>0, <2>4, Rows DEF EventsOf, Active, TypeOK
    <3>2. CASE inc[i].type = "maintenance"
      BY <2>3, <3>2
    <3>3. CASE inc[i].type # "maintenance"
      BY <2>1, <3>1, <3>3 DEF StopsOf, Event, Answers
    <3> QED BY <3>2, <3>3
  <2> QED BY <1>6, <1>7, <2>1, <2>2, <2>4, <2>6, <2>7
<1>9. CASE EventsOf(c) = {} /\ n = s /\ Go(h, "target")
  <2>1. pc'[h] = "target"
    BY <1>0, <1>9 DEF Go
  <2>2. Fresh(mem[h])'
    BY <1>3, <1>5, <1>9 DEF Fresh
  <2>3. SystemStep(h)'
    <3>1. s.comp \cap s.todo = {} /\ (s.comp \cup s.todo) \cap DOMAIN s.res = {}
      BY <1>1, <1>3, <1>4, <1>m
    <3> QED BY <1>3, <1>4, <1>5, <1>9, <2>1, <3>1 DEF SystemStep
  <2>4. RegularStep(h)'
    BY <2>1 DEF RegularStep
  <2>5. \A d \in DOMAIN s.res \ s.err : TrueAnswer(s, d)'
    BY <1>0, <1>3, <1>4 DEF TrueAnswer
  <2>6. Answered(h)'
    BY <1>5, <1>9, <2>1, <2>5 DEF Answered
  <2> QED BY <2>2, <2>3, <2>4, <2>6 DEF SerialStep
<1>10. CASE \E i \in EventsOf(c) : /\ StopsOf(c) = {} /\ inc[i].impact >= mem[h].impact
                                   /\ n = Answer(s, i) /\ pc' = pc
  <2>1. PICK i \in EventsOf(c) : /\ StopsOf(c) = {} /\ inc[i].impact >= mem[h].impact
                                 /\ n = Answer(s, i) /\ pc' = pc
    BY <1>10
  <2>2. inc[i] \in Event /\ ~inc[i].closed
    BY <1>0, <2>1, Rows DEF EventsOf, Active, TypeOK
  <2>3. Answers(m, i)
    <3>1. inc[i].type # "maintenance"
      BY <2>1 DEF StopsOf
    <3> QED BY <1>m, <2>1, <2>2, <3>1 DEF Event, Answers
  <2>4. n.err = m.err \cup {}
    BY <1>7, <2>1
  <2> QED BY <1>6, <1>7, <2>1, <2>3, <2>4
<1>11. CASE \E i \in EventsOf(c) : /\ StopsOf(c) = {} /\ inc[i].impact < mem[h].impact
                                   /\ n = [s EXCEPT !.old = i, !.view = Copies({i})]
                                   /\ Go(h, "target")
  <2>1. PICK i \in EventsOf(c) : /\ StopsOf(c) = {} /\ inc[i].impact < mem[h].impact
                                 /\ n = [s EXCEPT !.old = i, !.view = Copies({i})]
                                 /\ Go(h, "target")
    BY <1>11
  <2>2. i \in DOMAIN inc /\ inc[i].system /\ ~inc[i].closed /\ c \in inc[i].comps
    BY <2>1 DEF EventsOf, StopsOf, Active
  <2>3. pc'[h] = "target"
    BY <1>0, <2>1 DEF Go
  <2>4. PICK v : v = Copies({i})
    OBVIOUS
  <2>5. DOMAIN v = {i} /\ v[i] = inc[i]
    BY <1>0, <2>2, <2>4, CopiesOK
  <2>6. /\ n.op = s.op /\ n.todo = s.todo /\ n.comp = s.comp /\ n.impact = s.impact /\ n.res = s.res /\ n.err = s.err
        /\ n.old = i /\ n.view = v
    BY <1>3, <2>1, <2>4, Fields
  <2>7. Fresh(mem[h])'
    BY <1>0, <1>5, <2>5, <2>6 DEF Fresh
  <2>8. SystemStep(h)'
    <3>1. n.comp \cap n.todo = {} /\ (n.comp \cup n.todo) \cap DOMAIN n.res = {}
      BY <1>1, <1>3, <1>4, <1>m, <2>6
    <3>2. inc'[i].impact < n.impact /\ inc'[i].system /\ n.comp \subseteq inc'[i].comps /\ ~inc'[i].closed
      BY <1>0, <1>3, <1>m, <2>1, <2>2, <2>6
    <3> QED BY <1>3, <1>4, <1>5, <2>3, <2>6, <3>1, <3>2 DEF SystemStep
  <2>9. RegularStep(h)'
    BY <2>3 DEF RegularStep
  <2>10. \A d \in DOMAIN n.res \ n.err : TrueAnswer(n, d)'
    BY <1>0, <1>3, <1>4, <2>6 DEF TrueAnswer
  <2>11. Answered(h)'
    BY <1>5, <2>3, <2>10 DEF Answered
  <2> QED BY <2>7, <2>8, <2>9, <2>11 DEF SerialStep
<1> QED BY <1>2, <1>m, <1>s, <1>8, <1>9, <1>10, <1>11 DEF Processed

LEMMA FindTargetServes ==
  ASSUME WriteInv, NEW h \in Handler, FindTarget(h), SerialStep(h)
  PROVE  SerialStep(h)'
<1>m. PICK m : m = mem[h]
  OBVIOUS
<1>0. TypeOK /\ UNCHANGED inc /\ pc[h] = "target" /\ Targets(h) /\ RequestOK(m)
  BY <1>m, FindTargetIs DEF WriteInv, TypeOK
<1>1. PICK n : /\ mem'[h] = n /\ n.op = m.op /\ n.todo = m.todo /\ n.comp = m.comp
               /\ n.impact = m.impact /\ n.old = m.old /\ n.res = m.res /\ n.err = m.err
               /\ \/ \E t \in Incidents :
                       /\ inc[t].system /\ inc[t].impact = m.impact
                       /\ n.new = t /\ n.view = Put(Copies({t}), m.view)
                       /\ (n.close => Cardinality(inc[t].comps) = 1)
                       /\ pc'[h] = IF m.old = 0 THEN "add" ELSE "move"
                  \/ /\ n = m
                     /\ pc'[h] \in {"create", "raise", "extract"}
                     /\ (pc'[h] = "create") <=> (m.old = 0)
  <2>1. PICK n : TargetFound(h, n)
    BY FindTargetIs
  <2>2. pc'[h] = (IF mem[h].old = 0 THEN "create"
                  ELSE IF Cardinality(mem[h].view[mem[h].old].comps) = 1 THEN "raise" ELSE "extract")
          => pc'[h] \in {"create", "raise", "extract"} /\ ((pc'[h] = "create") <=> (mem[h].old = 0))
    OBVIOUS
  <2>3. CASE /\ n = mem[h]
             /\ pc'[h] = IF mem[h].old = 0 THEN "create"
                         ELSE IF Cardinality(mem[h].view[mem[h].old].comps) = 1 THEN "raise" ELSE "extract"
    BY <1>m, <2>1, <2>2, <2>3 DEF TargetFound
  <2>4. CASE \E t \in Incidents :
          /\ inc[t].system /\ inc[t].impact = mem[h].impact
          /\ n.new = t /\ n.view = Put(Copies({t}), mem[h].view)
          /\ n.close => Cardinality(inc[t].comps) = 1
          /\ pc'[h] = IF mem[h].old = 0 THEN "add" ELSE "move"
    <3>1. /\ mem'[h] = n /\ n.op = mem[h].op /\ n.todo = mem[h].todo /\ n.comp = mem[h].comp
          /\ n.impact = mem[h].impact /\ n.old = mem[h].old /\ n.res = mem[h].res /\ n.err = mem[h].err
      BY <2>1 DEF TargetFound
    <3>2. PICK t \in Incidents :
          /\ inc[t].system /\ inc[t].impact = mem[h].impact
          /\ n.new = t /\ n.view = Put(Copies({t}), mem[h].view)
          /\ n.close => Cardinality(inc[t].comps) = 1
          /\ pc'[h] = IF mem[h].old = 0 THEN "add" ELSE "move"
      BY <2>4
    <3> QED BY <1>m, <3>1, <3>2
  <2> QED BY <2>1, <2>3, <2>4 DEF TargetFound
<1>2. /\ Fresh(m) /\ m.op = "system" /\ m.comp \cap m.todo = {} /\ (m.comp \cup m.todo) \cap DOMAIN m.res = {}
      /\ m.old # 0 => /\ inc[m.old].system /\ inc[m.old].impact < m.impact
                      /\ m.comp \subseteq inc[m.old].comps /\ ~inc[m.old].closed
      /\ \A d \in DOMAIN m.res \ m.err : TrueAnswer(m, d)
  BY <1>0, <1>m DEF SerialStep, SystemStep, Answered
<1>3. \A d \in DOMAIN n.res \ n.err : TrueAnswer(n, d)'
  BY <1>0, <1>1, <1>2 DEF TrueAnswer
<1>4. pc'[h] \in {"add", "move", "create", "raise", "extract"}
  BY <1>1
<1>5. Answered(h)'
  BY <1>1, <1>2, <1>3, <1>4 DEF Answered
<1>6. RegularStep(h)'
  BY <1>4 DEF RegularStep
<1>7. CASE \E t \in Incidents :
             /\ inc[t].system /\ inc[t].impact = m.impact
             /\ n.new = t /\ n.view = Put(Copies({t}), m.view)
             /\ (n.close => Cardinality(inc[t].comps) = 1)
             /\ pc'[h] = IF m.old = 0 THEN "add" ELSE "move"
  <2>1. PICK t \in Incidents :
             /\ inc[t].system /\ inc[t].impact = m.impact
             /\ n.new = t /\ n.view = Put(Copies({t}), m.view)
             /\ (n.close => Cardinality(inc[t].comps) = 1)
             /\ pc'[h] = IF m.old = 0 THEN "add" ELSE "move"
    BY <1>7
  <2>2. t \in DOMAIN inc /\ inc[t].type = "incident" /\ ~inc[t].closed
    BY <2>1 DEF Incidents, Active
  <2>3. PICK w : w = Copies({t})
    OBVIOUS
  <2>4. DOMAIN w = {t} /\ w[t] = inc[t]
    BY <1>0, <2>2, <2>3, CopiesOK
  <2>5. PICK u : u = m.view
    OBVIOUS
  <2>6. n.view = Put(w, u) /\ DOMAIN n.view = DOMAIN u \cup {t}
    BY <2>1, <2>3, <2>4, <2>5 DEF Put
  <2>7. \A i \in DOMAIN u : n.view[i] = u[i]
    BY <2>6 DEF Put
  <2>8. \A i \in DOMAIN u : inc[i].type = "incident" => u[i] = inc[i]
    BY <1>2, <2>5 DEF Fresh
  <2>9. n.view[t] = inc[t]
    <3>1. CASE t \in DOMAIN u
      BY <2>2, <2>7, <2>8, <3>1
    <3>2. CASE t \notin DOMAIN u
      BY <2>4, <2>6, <3>2 DEF Put
    <3> QED BY <3>1, <3>2
  <2>10. Fresh(mem[h])'
    BY <1>0, <1>1, <2>6, <2>7, <2>8, <2>9 DEF Fresh
  <2>11. SystemStep(h)'
    <3>1. pc'[h] \in {"add", "move"} /\ (pc'[h] = "move" => m.old # 0)
      BY <2>1
    <3>2. pc'[h] = "move" => inc'[n.old].system /\ inc'[n.old].impact < n.impact
      BY <1>0, <1>1, <1>2, <3>1
    <3>3. inc'[n.new].system /\ ~inc'[n.new].closed /\ inc'[n.new].impact = n.impact /\ n.view[n.new] = inc'[n.new]
      BY <1>0, <1>1, <2>1, <2>2, <2>9
    <3>4. n.op = "system" /\ n.comp \cap n.todo = {} /\ (n.comp \cup n.todo) \cap DOMAIN n.res = {}
      BY <1>1, <1>2
    <3>5. n.close => Cardinality(inc'[n.new].comps) = 1
      BY <1>0, <1>1, <2>1
    <3> QED BY <1>1, <3>1, <3>2, <3>3, <3>4, <3>5 DEF SystemStep
  <2> QED BY <1>5, <1>6, <2>10, <2>11 DEF SerialStep
<1>8. CASE n = m /\ pc'[h] \in {"create", "raise", "extract"} /\ ((pc'[h] = "create") <=> (m.old = 0))
  <2>1. Fresh(mem[h])'
    BY <1>0, <1>1, <1>2, <1>8 DEF Fresh
  <2>2. SystemStep(h)'
    BY <1>0, <1>1, <1>2, <1>8 DEF SystemStep
  <2> QED BY <1>5, <1>6, <2>1, <2>2 DEF SerialStep
<1> QED BY <1>1, <1>7, <1>8

LEMMA ExtractSaveServes ==
  ASSUME WriteInv, NEW h \in Handler, ExtractSave(h), SerialStep(h)
  PROVE  SerialStep(h)'
<1>m. PICK m : m = mem[h]
  OBVIOUS
<1>0. /\ TypeOK /\ pc[h] = "extract" /\ RequestOK(m) /\ HasCopy(m, m.old) /\ inc \in Seq(Event)
      /\ m.old \in DOMAIN inc
  BY <1>m DEF WriteInv, TypeOK, Targets, ExtractSave, RequestOK, HasCopy
<1>e. PICK e : e = Extracted(m)
  OBVIOUS
<1>k. PICK k : k = Len(inc) + 1
  OBVIOUS
<1>1. PICK n : /\ mem'[h] = n /\ n.op = m.op /\ n.todo = m.todo /\ n.comp = m.comp
               /\ n.impact = m.impact /\ n.res = m.res /\ n.err = m.err /\ n.old = m.old /\ n.new = k
               /\ n.view = Put(m.view, One(k, e))
  BY <1>m, <1>e, <1>k, ExtractSaveIs
<1>2. pc'[h] = "extract_tx" /\ e \in Event /\ inc' = Append(inc, e)
  BY <1>m, <1>e, ExtractSaveIs
<1>3. e.impact = m.impact /\ e.comps = m.comp /\ ~e.closed
  BY <1>e DEF Extracted
<1>4. k \in DOMAIN inc' /\ k \notin DOMAIN inc /\ inc'[k] = e /\ \A i \in DOMAIN inc : i \in DOMAIN inc' /\ inc'[i] = inc[i]
  BY <1>0, <1>2, <1>k, Inserted
<1>5. /\ DOMAIN n.view = DOMAIN m.view \cup {k} /\ n.view[k] = e
      /\ \A i \in DOMAIN m.view : i \in DOMAIN inc /\ n.view[i] = m.view[i]
  <2>1. DOMAIN m.view \subseteq DOMAIN inc
    BY <1>0 DEF RequestOK
  <2> QED BY <1>1, <1>4, <2>1 DEF Put, One
<1>6. /\ Fresh(m) /\ m.comp \cap m.todo = {} /\ (m.comp \cup m.todo) \cap DOMAIN m.res = {}
      /\ m.op = "system" => inc[m.old].system /\ inc[m.old].impact < m.impact
      /\ m.op # "system" => DOMAIN m.res = {}
      /\ \A d \in DOMAIN m.res \ m.err : TrueAnswer(m, d)
  BY <1>0, <1>m DEF SerialStep, SystemStep, Answered
<1>7. Fresh(mem[h])'
  BY <1>1, <1>4, <1>5, <1>6 DEF Fresh
<1>8. SystemStep(h)'
  BY <1>0, <1>1, <1>2, <1>3, <1>4, <1>5, <1>6 DEF SystemStep
<1>9. RegularStep(h)'
  BY <1>2 DEF RegularStep
<1>10. Answered(h)'
  <2>1. \A d \in DOMAIN n.res \ n.err : TrueAnswer(n, d)'
    BY <1>1, <1>4, <1>6 DEF TrueAnswer
  <2> QED BY <1>1, <1>2, <1>6, <2>1 DEF Answered
<1> QED BY <1>7, <1>8, <1>9, <1>10 DEF SerialStep

\* The rows of source and target after the second save of an extraction.
ExtractedRows(m) ==
  /\ m.new \in DOMAIN inc /\ m.old \in DOMAIN inc /\ m.new # m.old /\ DOMAIN inc' = DOMAIN inc
  /\ inc[m.new].type = "incident" /\ inc[m.old].type = "incident"
  /\ inc'[m.new] = inc[m.new] /\ inc'[m.old] = MovedFrom(inc[m.old], m.comp, FALSE)
  /\ \A i \in DOMAIN inc : i # m.new /\ i # m.old => inc'[i] = inc[i]

LEMMA ExtractTxRows ==
  ASSUME WriteInv, NEW h \in Handler, ExtractTx(h), SerialStep(h)
  PROVE  KeptBy(h) /\ pc[h] = "extract_tx" /\ ExtractedRows(mem[h])
<1>m. PICK m : m = mem[h]
  OBVIOUS
<1>0. /\ TypeOK /\ RequestOK(m) /\ HasCopy(m, m.new) /\ HasCopy(m, m.old) /\ pc[h] = "extract_tx"
      /\ Fresh(m) /\ SystemStep(h) /\ inc \in Seq(Event)
  BY <1>m DEF ExtractTx, WriteInv, TypeOK, Targets, SerialStep
<1>b. PICK b : b = m.view[m.new]
  OBVIOUS
<1>a. PICK a : a = MovedFrom(m.view[m.old], m.comp, FALSE)
  OBVIOUS
<1>1. SaveBoth(m.new, b, m.old, a) /\ KeptBy(h)
  BY <1>m, <1>a, <1>b, ExtractTxIs
<1>2. /\ m.new \in DOMAIN inc /\ m.old \in DOMAIN inc /\ m.view[m.new] = inc[m.new] /\ m.view[m.old] = inc[m.old]
      /\ m.view[m.new] \in Event /\ m.view[m.old] \in Event /\ m.comp \in SUBSET Component
      /\ inc[m.new].type = "incident" /\ inc[m.old].type = "incident"
  BY <1>0 DEF HasCopy, RequestOK, Fresh
<1>3. a \in Event /\ b \in Event
  BY <1>2, <1>a, <1>b, MovedType
<1>4. m.new # m.old
  BY <1>0, <1>m DEF SystemStep
<1>5. /\ DOMAIN inc' = DOMAIN inc /\ inc'[m.new] = b /\ inc'[m.old] = a
      /\ \A i \in DOMAIN inc : i # m.new /\ i # m.old => inc'[i] = inc[i]
  BY <1>0, <1>1, <1>2, <1>3, <1>4, SaveBothIs
<1>6. ExtractedRows(m)
  BY <1>2, <1>4, <1>5, <1>a, <1>b DEF ExtractedRows
<1> QED BY <1>0, <1>1, <1>6, <1>m

LEMMA ExtractTxServes ==
  ASSUME WriteInv, NEW h \in Handler, ExtractTx(h), SerialStep(h)
  PROVE  SerialStep(h)'
<1>m. PICK m : m = mem[h]
  OBVIOUS
<1>t. PICK t : t = m.new
  OBVIOUS
<1>o. PICK o : o = m.old
  OBVIOUS
<1>0. /\ pc[h] = "extract_tx" /\ t \in DOMAIN inc /\ o \in DOMAIN inc /\ t # o /\ DOMAIN inc' = DOMAIN inc
      /\ inc[t].type = "incident" /\ inc'[t] = inc[t]
      /\ \A i \in DOMAIN inc : i # t /\ i # o => inc'[i] = inc[i]
  <2>1. pc[h] = "extract_tx" /\ ExtractedRows(m)
    BY <1>m, ExtractTxRows
  <2> QED BY <1>t, <1>o, <2>1 DEF ExtractedRows
<1>1. /\ m.comp \cap m.todo = {} /\ (m.comp \cup m.todo) \cap DOMAIN m.res = {}
      /\ m.op = "system" => inc[o].system /\ inc[o].impact < m.impact
      /\ m.op # "system" => DOMAIN m.res = {}
      /\ ~inc[t].closed /\ inc[t].impact = m.impact /\ m.view[t] = inc[t] /\ inc[t].comps = m.comp
      /\ \A d \in DOMAIN m.res \ m.err : TrueAnswer(m, d)
  BY <1>0, <1>m, <1>t, <1>o DEF SerialStep, SystemStep, Answered
<1>2. RequestOK(m) /\ inc[o] \in Event /\ m.impact \in 0..3
  BY <1>0, <1>m, Rows DEF WriteInv, TypeOK, RequestOK
<1>3. CASE m.op = "system"
  <2>1. mem'[h] = m /\ pc'[h] = "mark"
    BY <1>3, <1>m, ExtractTxIs
  <2>2. SystemStep(h)'
    BY <1>0, <1>1, <1>3, <1>t, <2>1 DEF SystemStep
  <2>3. RegularStep(h)'
    BY <2>1 DEF RegularStep
  <2>4. ~Answers(m, o)
    <3>1. ~(inc[o].impact >= m.impact)
      BY <1>1, <1>2, <1>3 DEF Event
    <3> QED BY <1>1, <1>3, <3>1 DEF Answers
  <2>5. AnswersKept(m)
    <3> SUFFICES ASSUME NEW r \in DOMAIN inc, Answers(m, r)
                 PROVE  r \in DOMAIN inc' /\ Answers(m, r)' /\ inc[r].comps \subseteq inc'[r].comps
      BY DEF AnswersKept
    <3>1. inc'[r] = inc[r]
      BY <1>0, <2>4
    <3> QED BY <1>0, <3>1 DEF Answers
  <2>6. ASSUME NEW d \in DOMAIN m.res \ m.err PROVE TrueAnswer(m, d)'
    BY <1>0, <1>1, <2>5, <2>6, AnswerStays
  <2>7. Answered(h)'
    BY <2>1, <2>6 DEF Answered
  <2> QED BY <2>1, <2>2, <2>3, <2>7 DEF SerialStep
<1>4. CASE m.op # "system"
  <2>1. PICK n : n = Answer(m, t)
    OBVIOUS
  <2>2. mem'[h] = n /\ pc'[h] = "respond"
    BY <1>4, <1>m, <1>t, <2>1, ExtractTxIs
  <2>3. DOMAIN n.res = m.comp /\ (\A c \in m.comp : n.res[c] = t) /\ n.op = m.op
    <3>1. DOMAIN m = DOMAIN NoRequest
      BY <1>2 DEF RequestOK
    <3>2. DOMAIN n.res = DOMAIN m.res \cup m.comp /\ (\A c \in m.comp : n.res[c] = t) /\ n.op = m.op
      BY <2>1, <3>1, AnswerIs
    <3> QED BY <1>1, <1>4, <3>2
  <2>4. \A d \in DOMAIN n.res : TrueAnswer(n, d)'
    BY <1>0, <1>1, <1>4, <2>3 DEF TrueAnswer
  <2>5. Answered(h)'
    BY <2>2, <2>4 DEF Answered
  <2>6. SystemStep(h)' /\ RegularStep(h)'
    BY <2>2 DEF SystemStep, RegularStep
  <2> QED BY <2>2, <2>5, <2>6 DEF SerialStep
<1> QED BY <1>3, <1>4

LEMMA CreateRegularServes ==
  ASSUME WriteInv, NEW h \in Handler, CreateRegular(h), SerialStep(h)
  PROVE  SerialStep(h)'
<1>m. PICK m : m = mem[h]
  OBVIOUS
<1>0. TypeOK /\ pc[h] = "open" /\ RequestOK(m) /\ inc \in Seq(Event) /\ DOMAIN m.view \subseteq DOMAIN inc
  BY <1>m DEF WriteInv, TypeOK, CreateRegular, RequestOK
<1>e. PICK e : e = Regular(m)
  OBVIOUS
<1>k. PICK k : k = Len(inc) + 1
  OBVIOUS
<1>1. PICK n : /\ mem'[h] = n /\ n.op = m.op /\ n.err = m.err
               /\ \/ /\ n.todo = {} /\ n.view = m.view /\ n.res = Answer(m, k).res
                  \/ /\ ~Skips(m) /\ n.todo = m.todo /\ n.new = k /\ n.res = m.res
                     /\ n.view = Put(m.view, One(k, e))
  BY <1>m, <1>e, <1>k, CreateRegularIs
<1>2. pc'[h] = "relocate" /\ e \in Event /\ inc' = Append(inc, e)
  BY <1>m, <1>e, CreateRegularIs
<1>3. e.comps = m.todo /\ ~e.closed /\ (m.op = "regular" => e.type = "incident")
  BY <1>e DEF Regular, NewEvent
<1>4. /\ DOMAIN inc' = DOMAIN inc \cup {k} /\ k \notin DOMAIN inc /\ inc'[k] = e
      /\ \A i \in DOMAIN inc : inc'[i] = inc[i]
  BY <1>0, <1>2, <1>k, Inserted
<1>5. /\ Fresh(m) /\ m.op \in {"regular", "maintenance"} /\ m.res = <<>> /\ m.comp = m.todo
      /\ Incidents \subseteq DOMAIN m.view
  BY <1>0, <1>m DEF SerialStep, RegularStep
<1>r. DOMAIN m.res = {}
  <2>1. DOMAIN <<>> = {}
    OBVIOUS
  <2> QED BY <1>5, <2>1
<1>6. SystemStep(h)'
  BY <1>2 DEF SystemStep
<1>7. CASE n.todo = {} /\ n.view = m.view /\ n.res = Answer(m, k).res
  <2>1. Fresh(mem[h])'
    BY <1>0, <1>1, <1>4, <1>5, <1>7 DEF Fresh
  <2>2. RegularStep(h)'
    BY <1>1, <1>2, <1>5, <1>7 DEF RegularStep
  <2>3. DOMAIN n.res = m.comp /\ \A c \in m.comp : n.res[c] = k
    <3>1. DOMAIN m = DOMAIN NoRequest
      BY <1>0 DEF RequestOK
    <3>2. PICK a : a = Answer(m, k)
      OBVIOUS
    <3>3. DOMAIN a.res = DOMAIN m.res \cup m.comp /\ \A c \in m.comp : a.res[c] = k
      BY <3>1, <3>2, AnswerIs
    <3> QED BY <1>7, <1>r, <3>2, <3>3
  <2>4. \A d \in DOMAIN n.res : TrueAnswer(n, d)'
    BY <1>1, <1>3, <1>4, <1>5, <2>3 DEF TrueAnswer
  <2>5. Answered(h)'
    BY <1>1, <1>2, <2>4 DEF Answered
  <2> QED BY <1>6, <2>1, <2>2, <2>5 DEF SerialStep
<1>8. CASE /\ ~Skips(m) /\ n.todo = m.todo /\ n.new = k /\ n.res = m.res
           /\ n.view = Put(m.view, One(k, e))
  <2>1. /\ DOMAIN n.view = DOMAIN m.view \cup {k} /\ n.view[k] = e
        /\ \A i \in DOMAIN m.view : n.view[i] = m.view[i]
    BY <1>0, <1>4, <1>8 DEF Put, One
  <2>2. Fresh(mem[h])'
    BY <1>0, <1>1, <1>4, <1>5, <2>1 DEF Fresh
  <2>3. Incidents' \subseteq DOMAIN n.view
    BY <1>4, <1>5, <2>1 DEF Incidents, Active
  <2>4. RegularStep(h)'
    BY <1>1, <1>2, <1>3, <1>4, <1>5, <1>8, <1>r, <2>3 DEF RegularStep
  <2>5. Answered(h)'
    BY <1>1, <1>2, <1>8, <1>r DEF Answered
  <2> QED BY <1>6, <2>2, <2>4, <2>5 DEF SerialStep
<1> QED BY <1>1, <1>7, <1>8

\* The rows after component c is relocated from incident i.
MovedRows(m, c, i, n) ==
  /\ m.new \in DOMAIN inc /\ i \in DOMAIN inc /\ m.new # i /\ DOMAIN inc' = DOMAIN inc
  /\ inc[m.new].type = "incident" /\ inc[i].type = "incident" /\ c \in inc[i].comps
  /\ inc'[m.new] = MovedTo(inc[m.new], {c}) /\ inc'[m.new] = n.view[m.new]
  /\ inc'[i] = MovedFrom(inc[i], {c}, CloseSource(inc[i])) /\ inc'[i] = n.view[i]
  /\ \A j \in DOMAIN inc : j # m.new /\ j # i => inc'[j] = inc[j]

LEMMA RelocatedRows ==
  ASSUME TypeOK, NEW m, RequestOK(m), HasCopy(m, m.new), Fresh(m),
         NEW c \in m.todo, NEW n, NEW i \in DOMAIN m.view, RelocatedFrom(m, c, i, n)
  PROVE  MovedRows(m, c, i, n)
<1>0. inc \in Seq(Event)
  BY DEF TypeOK
<1>b. PICK b : b = MovedTo(m.view[m.new], {c})
  OBVIOUS
<1>a. PICK a : a = MovedFrom(m.view[i], {c}, CloseSource(m.view[i]))
  OBVIOUS
<1>1. /\ SaveBoth(m.new, b, i, a) /\ n.view[m.new] = b /\ n.view[i] = a
      /\ i # m.new /\ m.view[i].type = "incident" /\ c \in m.view[i].comps
  BY <1>a, <1>b DEF RelocatedFrom, Holders
<1>2. /\ m.new \in DOMAIN inc /\ i \in DOMAIN inc /\ m.view[m.new] \in Event /\ m.view[i] \in Event
      /\ inc[m.new].type = "incident" /\ inc[i].type = "incident" /\ {c} \in SUBSET Component
      /\ m.new \in DOMAIN m.view
  BY <1>0, <1>1 DEF HasCopy, RequestOK
<1>3. m.view[m.new] = inc[m.new] /\ m.view[i] = inc[i]
  BY <1>0, <1>2 DEF Fresh
<1>4. a \in Event /\ b \in Event
  <2>1. CloseSource(m.view[i]) \in BOOLEAN
    BY DEF CloseSource
  <2> QED BY <1>2, <1>a, <1>b, <2>1, MovedType
<1>5. /\ DOMAIN inc' = DOMAIN inc /\ inc'[m.new] = b /\ inc'[i] = a
      /\ \A j \in DOMAIN inc : j # m.new /\ j # i => inc'[j] = inc[j]
  BY <1>0, <1>1, <1>2, <1>4, SaveBothIs
<1> QED BY <1>1, <1>2, <1>3, <1>5, <1>a, <1>b DEF MovedRows

LEMMA RelocateServes ==
  ASSUME WriteInv, NEW h \in Handler, Relocate(h), SerialStep(h)
  PROVE  SerialStep(h)'
<1>m. PICK m : m = mem[h]
  OBVIOUS
<1>0. TypeOK /\ pc[h] = "relocate" /\ m.todo # {} /\ RequestOK(m) /\ HasCopy(m, m.new)
  BY <1>m DEF WriteInv, TypeOK, Relocate, Targets
<1>1. PICK c \in m.todo : \E n : mem'[h] = n /\ Relocated(m, c, n)
  BY <1>m, RelocateIs
<1>2. PICK n : mem'[h] = n /\ Relocated(m, c, n)
  BY <1>1
<1>3. pc'[h] = "relocate"
  BY RelocateIs
<1>4. /\ Fresh(m) /\ m.op \in {"regular", "maintenance"} /\ Incidents \subseteq DOMAIN m.view
      /\ ~inc[m.new].closed /\ m.todo \subseteq inc[m.new].comps
      /\ \A d \in DOMAIN m.res : m.res[d] = m.new
      /\ m.todo \cap DOMAIN m.res = {}
      /\ \A d \in DOMAIN m.res \ m.err : TrueAnswer(m, d)
  BY <1>0, <1>m DEF SerialStep, RegularStep, Answered
<1>5. /\ n.op = m.op /\ n.err = m.err /\ n.new = m.new /\ n.todo = m.todo \ {c}
      /\ DOMAIN n.res = DOMAIN m.res \cup {c} /\ n.res[c] = m.new
      /\ \A d \in DOMAIN m.res : d # c => n.res[d] = m.res[d]
  BY <1>2 DEF Relocated
<1>6. SystemStep(h)'
  BY <1>3 DEF SystemStep
<1>7. ASSUME DOMAIN inc' = DOMAIN inc, DOMAIN n.view = DOMAIN m.view, Incidents' \subseteq Incidents,
             Fresh(n)', inc'[m.new].type = "incident", ~inc'[m.new].closed,
             inc[m.new].comps \subseteq inc'[m.new].comps
      PROVE  SerialStep(h)'
  <2>1. Fresh(mem[h])'
    BY <1>2, <1>7 DEF Fresh
  <2>2. RegularStep(h)'
    <3>1. n.todo \subseteq inc'[n.new].comps /\ n.todo \cap DOMAIN n.res = {} /\ \A d \in DOMAIN n.res : n.res[d] = n.new
      BY <1>4, <1>5, <1>7
    <3> QED BY <1>2, <1>3, <1>4, <1>5, <1>7, <3>1 DEF RegularStep
  <2>3. ASSUME NEW d \in DOMAIN n.res \ n.err PROVE TrueAnswer(n, d)'
    <3>1. n.res[d] = m.new
      BY <1>4, <1>5
    <3>2. m.op # "maintenance" => d \in inc[m.new].comps
      BY <1>1, <1>4, <1>5, <2>3 DEF TrueAnswer
    <3>3. m.new \in DOMAIN inc'
      BY <1>0, <1>7 DEF HasCopy, RequestOK
    <3> QED BY <1>4, <1>5, <1>7, <3>1, <3>2, <3>3 DEF TrueAnswer
  <2>4. Answered(h)'
    BY <1>2, <1>3, <2>3 DEF Answered
  <2> QED BY <1>6, <2>1, <2>2, <2>4 DEF SerialStep
<1>8. CASE n.view = m.view /\ UNCHANGED inc
  <2>1. Fresh(n)' /\ Incidents' = Incidents
    BY <1>4, <1>8 DEF Fresh, Incidents, Active
  <2>2. inc[m.new].type = "incident"
    BY <1>0 DEF HasCopy
  <2> QED BY <1>4, <1>7, <1>8, <2>1, <2>2
<1>9. ASSUME NEW i \in DOMAIN m.view, RelocatedFrom(m, c, i, n) PROVE SerialStep(h)'
  <2>t. PICK t : t = m.new
    OBVIOUS
  <2>1. /\ t \in DOMAIN inc /\ i \in DOMAIN inc /\ t # i /\ DOMAIN inc' = DOMAIN inc
        /\ inc[t].type = "incident" /\ inc[i].type = "incident"
        /\ inc'[t] = MovedTo(inc[t], {c}) /\ inc'[t] = n.view[t]
        /\ inc'[i] = MovedFrom(inc[i], {c}, CloseSource(inc[i])) /\ inc'[i] = n.view[i]
        /\ \A j \in DOMAIN inc : j # t /\ j # i => inc'[j] = inc[j]
    <3>1. RelocatedFrom(m, c, i, n)
      BY <1>9
    <3>2. MovedRows(m, c, i, n)
      BY <1>0, <1>4, <3>1, RelocatedRows
    <3> QED BY <2>t, <3>2 DEF MovedRows
  <2>2. /\ DOMAIN n.view = DOMAIN m.view
        /\ \A j \in DOMAIN m.view : j # i /\ j # t => n.view[j] = m.view[j]
    BY <1>9, <2>t DEF RelocatedFrom
  <2>3. inc[t] \in Event /\ inc[i] \in Event
    BY <1>0, <2>1, Rows DEF TypeOK
  <2>4. inc'[t].type = "incident" /\ inc'[t].closed = inc[t].closed /\ inc'[t].comps = inc[t].comps \cup {c}
    BY <2>1, <2>3 DEF MovedTo, Event
  <2>5. inc'[i].type = "incident" /\ (inc[i].closed => inc'[i].closed)
    <3>1. CASE CloseSource(inc[i])
      <4>1. inc'[i] = [inc[i] EXCEPT !.closed = TRUE, !.status = "resolved"]
        BY <2>1, <3>1 DEF MovedFrom
      <4> QED BY <2>1, <2>3, <4>1 DEF Event
    <3>2. CASE ~CloseSource(inc[i])
      <4>1. inc'[i] = [inc[i] EXCEPT !.comps = @ \ {c}]
        BY <2>1, <3>2 DEF MovedFrom
      <4> QED BY <2>1, <2>3, <4>1 DEF Event
    <3> QED BY <3>1, <3>2
  <2>6. Incidents' \subseteq Incidents
    BY <2>1, <2>4, <2>5 DEF Incidents, Active
  <2>7. Fresh(n)'
    <3> SUFFICES ASSUME NEW j \in DOMAIN n.view, inc'[j].type = "incident" PROVE n.view[j] = inc'[j]
      BY DEF Fresh
    <3>1. CASE j = t \/ j = i
      BY <2>1, <3>1
    <3>2. CASE j # t /\ j # i
      <4>1. j \in DOMAIN m.view /\ j \in DOMAIN inc
        BY <1>0, <2>2 DEF RequestOK
      <4>2. inc'[j] = inc[j] /\ n.view[j] = m.view[j]
        BY <2>1, <2>2, <3>2, <4>1
      <4> QED BY <1>4, <4>1, <4>2 DEF Fresh
    <3> QED BY <3>1, <3>2
  <2> QED BY <1>4, <1>7, <2>t, <2>1, <2>2, <2>4, <2>6, <2>7
<1> QED BY <1>2, <1>8, <1>9 DEF Relocated

(* A PATCH has given no answer to spoil. *)
LEMMA PatchServes ==
  ASSUME WriteInv, NEW h \in Handler, ModifyIncident(h) \/ ReOpenIncident(h), SerialStep(h)
  PROVE  SerialStep(h)'
<1>1. mem'[h] = mem[h] /\ pc'[h] \in {"reopen", "respond"}
  BY DEF ModifyIncident, ReOpenIncident, Go, WriteInv, TypeOK
<1>2. DOMAIN mem[h].res = {}
  BY DEF ModifyIncident, ReOpenIncident, SerialStep, Answered
<1>3. SystemStep(h)' /\ RegularStep(h)' /\ Answered(h)'
  BY <1>1, <1>2 DEF SystemStep, RegularStep, Answered
<1> QED BY <1>1, <1>3 DEF SerialStep

LEMMA CompleteServes ==
  ASSUME WriteInv, NEW h \in Handler, Complete(h), SerialStep(h)
  PROVE  SerialStep(h)'
<1>1. mem'[h] = mem[h] /\ pc'[h] = "respond" /\ UNCHANGED inc
  BY DEF Complete, Go, WriteInv, TypeOK
<1>2. SystemStep(h)' /\ RegularStep(h)'
  BY <1>1 DEF SystemStep, RegularStep
<1>3. Answered(h)'
  BY <1>1 DEF SerialStep, Answered, TrueAnswer
<1> QED BY <1>1, <1>2, <1>3 DEF SerialStep

LEMMA ServesSerial ==
  ASSUME WriteInv, NEW h \in Handler, Serves(h), SerialStep(h), pc'[h] # "idle"
  PROVE  SerialStep(h)'
<1>1. ~Respond(h)
  BY DEF Respond, Finish, Go, WriteInv, TypeOK
<1> QED BY <1>1, ProcessSystemServes, FindTargetServes, AddComponentServes, CreateSystemServes, MoveServes,
  IncreaseServes, ExtractSaveServes, ExtractTxServes, MarkSystemServes, CreateRegularServes, RelocateServes,
  PatchServes, CompleteServes DEF Serves

(* A request starts with fresh copies and no answers. *)
LEMMA StartsSerial ==
  ASSUME WriteInv, NEW h \in Handler, Starts(h)
  PROVE  SerialStep(h)'
<1>1. PICK n : Started(h, n)
  BY StartIs
<1>2. TypeOK /\ UNCHANGED inc /\ mem'[h] = n /\ n.res = <<>> /\ n.err = {} /\ pc'[h] \in {"next", "open", "extract", "patch"}
  BY <1>1 DEF Started, WriteInv
<1>3. DOMAIN n.res = {}
  <2>1. DOMAIN <<>> = {}
    OBVIOUS
  <2> QED BY <1>2, <2>1
<1>4. Fresh(n)
  <2>1. CASE DOMAIN n.view = {}
    BY <2>1 DEF Fresh
  <2>2. CASE \E S \in SUBSET DOMAIN inc : n.view = Copies(S)
    <3>1. PICK S \in SUBSET DOMAIN inc : n.view = Copies(S)
      BY <2>2
    <3> QED BY <1>2, <3>1, CopiesOK DEF Fresh
  <2> QED BY <1>1, <2>1, <2>2 DEF Started, Active
<1>5. Fresh(mem[h])'
  BY <1>2, <1>4 DEF Fresh
<1>6. SystemStep(h)'
  <2>1. (pc'[h] = "next" => n.op = "system") /\ (pc'[h] = "extract" => n.op = "extract" /\ n.todo = {})
    BY <1>1 DEF Started
  <2> QED BY <1>2, <1>3, <2>1 DEF SystemStep
<1>7. RegularStep(h)'
  <2>1. pc'[h] = "open" => /\ n.op \in {"regular", "maintenance"} /\ n.comp = n.todo
                           /\ n.view = Copies(Active)
    BY <1>1 DEF Started
  <2>2. DOMAIN Copies(Active) = Active /\ Incidents \subseteq Active /\ Incidents' = Incidents
    BY <1>2 DEF Copies, Active, Incidents
  <2> QED BY <1>2, <2>1, <2>2 DEF RegularStep
<1>8. Answered(h)'
  BY <1>2, <1>3 DEF Answered
<1> QED BY <1>5, <1>6, <1>7, <1>8 DEF SerialStep

(* The end of a maintenance does not concern a request on incidents. *)
LEMMA EndSerial ==
  ASSUME WriteInv, NEW i \in DOMAIN inc, EndMaintenance(i), NEW h \in Handler, SerialStep(h)
  PROVE  SerialStep(h)'
<1>0. /\ DOMAIN inc' = DOMAIN inc /\ inc[i].type = "maintenance"
      /\ \A j \in DOMAIN inc : inc'[j].type = inc[j].type
      /\ \A j \in DOMAIN inc : j # i => inc'[j] = inc[j]
      /\ UNCHANGED <<pc, mem>>
  BY EndIs DEF WriteInv, EndMaintenance
<1>m. PICK m : m = mem[h]
  OBVIOUS
<1>1. RequestOK(m) /\ Targets(h) /\ mem'[h] = m /\ pc'[h] = pc[h] /\ DOMAIN m.view \subseteq DOMAIN inc
  BY <1>0, <1>m DEF WriteInv, TypeOK, RequestOK
<1>2. \A j \in DOMAIN inc : inc[j].type = "incident" => inc'[j] = inc[j]
  BY <1>0
<1>3. Fresh(m) => Fresh(mem[h])'
  BY <1>0, <1>1, <1>2 DEF Fresh
<1>4. \A j : HasCopy(m, j) => inc'[j] = inc[j]
  BY <1>1, <1>2 DEF HasCopy
<1>5. SystemStep(h)'
  <2>1. /\ pc[h] = "target" /\ m.old # 0 => inc'[m.old] = inc[m.old]
        /\ pc[h] \in {"raise", "move", "extract", "extract_tx"} => inc'[m.old] = inc[m.old]
        /\ pc[h] \in {"add", "move", "extract_tx", "mark"} => inc'[m.new] = inc[m.new]
    BY <1>1, <1>4, <1>m DEF Targets
  <2>2. SystemStep(h)
    BY DEF SerialStep
  <2> QED BY <1>1, <1>m, <2>1, <2>2 DEF SystemStep
<1>6. RegularStep(h)'
  <2>1. pc[h] = "relocate" /\ m.todo # {} => inc'[m.new] = inc[m.new]
    BY <1>1, <1>4, <1>m DEF Targets
  <2>2. Incidents' = Incidents
    BY <1>0, <1>2 DEF Incidents, Active
  <2>3. RegularStep(h)
    BY DEF SerialStep
  <2> QED BY <1>1, <1>m, <2>1, <2>2, <2>3 DEF RegularStep
<1>7. Answered(h)'
  <2>1. Answered(h)
    BY DEF SerialStep
  <2>2. ASSUME NEW d, TrueAnswer(m, d) PROVE TrueAnswer(m, d)'
    BY <1>0, <1>2, <2>2 DEF TrueAnswer
  <2> QED BY <1>1, <1>m, <2>1, <2>2 DEF Answered
<1> QED BY <1>1, <1>3, <1>5, <1>6, <1>7, <1>m DEF SerialStep

(* One request at a time, so far, and it is served by the only busy handler. *)
LEMMA SerialKept == WriteInv /\ SerialInv /\ [Next]_vars => SerialInv'
<1> SUFFICES ASSUME WriteInv, SerialInv, [Next]_vars, Serial',
                    NEW g \in Handler, pc'[g] # "idle"
             PROVE  (\A f \in Handler \ {g} : pc'[f] = "idle") /\ SerialStep(g)'
  BY DEF SerialInv
<1>0. TypeOK /\ overlaps \in Nat /\ fails \in Nat /\ overlaps' \in Nat /\ fails' \in Nat
  BY WriteKept DEF WriteInv, TypeOK
<1>1. ASSUME NEW h \in Handler, Starts(h) \/ Serves(h) \/ Fail(h)
      PROVE  (\A f \in Handler \ {g} : pc'[f] = "idle") /\ SerialStep(g)'
  <2>1. OthersKept(h)
    BY <1>1, HandlerKeeps DEF KeptBy
  <2>2. ~Fail(h)
    <3> SUFFICES ASSUME Fail(h) PROVE FALSE
      OBVIOUS
    <3>1. fails' = fails + 1
      BY DEF Fail
    <3>2. overlaps' + fails' = 0
      BY DEF Serial
    <3>3. \A x, y \in Nat : x + (y + 1) # 0
      OBVIOUS
    <3> QED BY <1>0, <3>1, <3>2, <3>3
  <2>3. CASE Starts(h)
    <3>1. overlaps' = (IF \A f \in Handler : pc[f] = "idle" THEN overlaps ELSE overlaps + 1) /\ fails' = fails
      BY <1>0, <2>3, Counted
    <3>2. \A f \in Handler : pc[f] = "idle"
      BY <1>0, <3>1 DEF Serial
    <3>3. \A f \in Handler : f # h => pc'[f] = "idle"
      BY <2>1, <3>2 DEF OthersKept
    <3>4. g = h
      BY <3>3
    <3> QED BY <2>3, <3>3, <3>4, StartsSerial
  <2>4. CASE Serves(h)
    <3>1. Serial /\ pc[h] # "idle"
      BY <1>0, <2>4, Counted DEF Serial
    <3>2. (\A f \in Handler \ {h} : pc[f] = "idle") /\ SerialStep(h)
      BY <3>1 DEF SerialInv
    <3>3. \A f \in Handler : f # h => pc'[f] = "idle"
      BY <2>1, <3>2 DEF OthersKept
    <3>4. g = h
      BY <3>3
    <3> QED BY <2>4, <3>2, <3>3, <3>4, ServesSerial
  <2> QED BY <1>1, <2>2, <2>3, <2>4
<1>2. ASSUME NEW i \in DOMAIN inc, EndMaintenance(i)
      PROVE  (\A f \in Handler \ {g} : pc'[f] = "idle") /\ SerialStep(g)'
  <2>1. UNCHANGED <<pc, mem, overlaps, fails>>
    BY <1>2 DEF EndMaintenance
  <2>2. (\A f \in Handler \ {g} : pc[f] = "idle") /\ SerialStep(g)
    BY <2>1 DEF SerialInv, Serial
  <2> QED BY <1>2, <2>1, <2>2, EndSerial
<1>3. CASE UNCHANGED vars
  <2>1. (\A f \in Handler \ {g} : pc[f] = "idle") /\ SerialStep(g)
    BY <1>3 DEF SerialInv, Serial
  <2> QED BY <1>3, <2>1 DEF SerialStep, Fresh, SystemStep, RegularStep, Incidents, Active, Answered, TrueAnswer
<1> QED BY <1>1, <1>2, <1>3, NextIs

(* Requests served one at a time and to the end work on fresh copies. *)
THEOREM SerialSound == Spec => []SerialInv
<1>1. Init => SerialInv
  BY DEF Init, SerialInv
<1> QED BY <1>1, SerialKept, WritesSound, PTL DEF Spec

(* Requests served one at a time get a true response, over any sequence of them: a *)
(* component answered without an error is covered by the open incident named, and  *)
(* for a system incident by one that is not the system's or has the impact asked   *)
(* for, whatever later components of the request did to it.                        *)
THEOREM ResponsesTrue == Spec => []ResponseTrue
<1>1. SerialInv => ResponseTrue
  <2> SUFFICES ASSUME SerialInv, NEW h \in Handler, Serial, pc[h] = "respond",
                      mem[h].op # "maintenance", NEW c \in DOMAIN mem[h].res \ mem[h].err
               PROVE  LET e == inc[mem[h].res[c]]
                      IN /\ ~e.closed /\ c \in e.comps
                         /\ mem[h].op = "system" => ~e.system \/ e.impact >= mem[h].impact
    BY DEF ResponseTrue
  <2>1. SerialStep(h)
    BY DEF SerialInv
  <2>2. TrueAnswer(mem[h], c)
    BY <2>1 DEF SerialStep, Answered
  <2> QED BY <2>2 DEF TrueAnswer
<1> QED BY <1>1, SerialSound, PTL

-----------------------------------------------------------------------------
(* Coverage *)

\* Row i stays open if it is an open incident, and loses no component.
RowKeeps(i) ==
  /\ i \in DOMAIN inc' /\ inc'[i].type = inc[i].type /\ inc[i].comps \subseteq inc'[i].comps
  /\ inc[i].type = "incident" /\ ~inc[i].closed => ~inc'[i].closed

LEMMA AllKeep ==
  ASSUME NEW c, Covered(c), \A i \in DOMAIN inc : RowKeeps(i)
  PROVE  Covered(c)'
BY DEF Covered, Incidents, Active, RowKeeps

(* Only the incident o can give a component up. *)
LEMMA OthersKeep ==
  ASSUME NEW c, Covered(c), NEW o, \A i \in DOMAIN inc : i # o => RowKeeps(i)
  PROVE  Covered(c)' \/ (o \in Incidents /\ c \in inc[o].comps)
BY DEF Covered, Incidents, Active, RowKeeps

LEMMA SameKeeps ==
  ASSUME NEW i, i \in DOMAIN inc', inc'[i] = inc[i]
  PROVE  RowKeeps(i)
BY DEF RowKeeps

LEMMA InsertStaysCovered ==
  ASSUME WriteInv, NEW e \in Event, inc' = Append(inc, e), NEW c, Covered(c)
  PROVE  Covered(c)'
<1>1. \A i \in DOMAIN inc : i \in DOMAIN inc' /\ inc'[i] = inc[i]
  BY Inserted DEF WriteInv, TypeOK
<1> QED BY <1>1, SameKeeps, AllKeep

LEMMA RowStaysCovered ==
  ASSUME NEW t, NEW e, RowBecomes(t, e), e.closed => inc[t].closed, inc[t].comps \subseteq e.comps,
         NEW c, Covered(c)
  PROVE  Covered(c)'
<1>1. RowKeeps(t)
  BY DEF RowBecomes, RowKeeps
<1>2. \A i \in DOMAIN inc : i # t => RowKeeps(i)
  BY SameKeeps DEF RowBecomes
<1> QED BY <1>1, <1>2, AllKeep

(* A source that is not closed keeps what is not moved. *)
LEMMA SourceKeeps ==
  ASSUME NEW e \in Event, NEW C, NEW a, a = [e EXCEPT !.comps = e.comps \ C]
  PROVE  a.comps = e.comps \ C /\ a.closed = e.closed /\ a.type = e.type
BY DEF Event

(* The rows after a move of the components C from o to n, as a whole or of a source *)
(* that is not closed.                                                              *)
LEMMA MovedStaysCovered ==
  ASSUME WriteInv, NEW n \in DOMAIN inc, NEW o \in DOMAIN inc, n # o, DOMAIN inc' = DOMAIN inc, NEW C,
         NEW close \in BOOLEAN, inc[n].type = "incident", ~inc[n].closed,
         inc'[n].type = "incident", ~inc'[n].closed, inc'[n].comps = inc[n].comps \cup C,
         inc'[o] = MovedFrom(inc[o], C, close),
         \A i \in DOMAIN inc : i # n /\ i # o => inc'[i] = inc[i],
         NEW c, Covered(c)
  PROVE  Covered(c)' \/ (close /\ c \in inc[o].comps /\ c \notin C)
<1>0. inc[o] \in Event
  BY Rows DEF WriteInv, TypeOK
<1>1. RowKeeps(n) /\ \A i \in DOMAIN inc : i # n /\ i # o => RowKeeps(i)
  BY SameKeeps DEF RowKeeps
<1>2. Covered(c)' \/ (o \in Incidents /\ c \in inc[o].comps)
  BY <1>1, OthersKeep
<1>3. c \in C => Covered(c)'
  BY DEF Covered, Incidents, Active
<1>4. CASE close = FALSE /\ o \in Incidents /\ c \in inc[o].comps /\ c \notin C
  <2>1. inc'[o].comps = inc[o].comps \ C /\ inc'[o].closed = inc[o].closed /\ inc'[o].type = inc[o].type
    <3>1. inc'[o] = [inc[o] EXCEPT !.comps = inc[o].comps \ C]
      BY <1>4 DEF MovedFrom
    <3>2. PICK e \in Event : e = inc[o]
      BY <1>0
    <3>3. PICK a : a = inc'[o]
      OBVIOUS
    <3>4. a.comps = e.comps \ C /\ a.closed = e.closed /\ a.type = e.type
      BY <3>1, <3>2, <3>3, SourceKeeps
    <3> QED BY <3>2, <3>3, <3>4
  <2>2. o \in Incidents' /\ c \in inc'[o].comps
    BY <1>4, <2>1 DEF Incidents, Active
  <2> QED BY <2>2 DEF Covered
<1> QED BY <1>2, <1>3, <1>4

\* The step of h keeps component c covered, or withdraws it.
StaysCovered(h, c) == Covered(c) => Covered(c)' \/ Withdraws(h, c)

LEMMA UnchangedStaysCovered ==
  ASSUME UNCHANGED inc, NEW h, NEW c
  PROVE  StaysCovered(h, c)
BY DEF StaysCovered, Covered, Incidents, Active

LEMMA MoveStaysCovered ==
  ASSUME WriteInv, NEW h \in Handler, MoveComponent(h), SerialStep(h), NEW c
  PROVE  StaysCovered(h, c)
<1>m. PICK m : m = mem[h]
  OBVIOUS
<1>t. PICK t : t = m.new
  OBVIOUS
<1>0. /\ pc[h] = "move" /\ pc'[h] = "next" /\ m.close \in BOOLEAN
      /\ t \in DOMAIN inc /\ m.old \in DOMAIN inc /\ t # m.old /\ DOMAIN inc' = DOMAIN inc
      /\ inc'[t] = MovedTo(inc[t], m.comp) /\ inc'[m.old] = MovedFrom(inc[m.old], m.comp, m.close)
      /\ \A i \in DOMAIN inc : i # t /\ i # m.old => inc'[i] = inc[i]
  BY <1>m, <1>t, MoveIs DEF WriteInv, TypeOK, RequestOK
<1>1. ~inc[t].closed /\ (m.close => Cardinality(inc[t].comps) = 1)
  BY <1>0, <1>m, <1>t DEF SerialStep, SystemStep
<1>2. inc[t] \in Event /\ inc[t].type = "incident"
  BY <1>0, <1>m, <1>t, Rows DEF WriteInv, TypeOK, RequestOK, Targets, HasCopy
<1>3. /\ inc'[t].type = "incident" /\ inc'[t].closed = inc[t].closed
      /\ inc'[t].comps = inc[t].comps \cup m.comp
  BY <1>0, <1>2 DEF MovedTo, Event
<1>4. ASSUME Covered(c), ~Covered(c)' PROVE m.close /\ c \in inc[m.old].comps /\ c \notin m.comp
  BY <1>0, <1>1, <1>2, <1>3, <1>4, MovedStaysCovered
<1>5. m.close /\ c \in inc[m.old].comps /\ c \notin m.comp => Withdraws(h, c)
  BY <1>0, <1>1, <1>m, <1>t DEF Withdraws
<1> QED BY <1>4, <1>5 DEF StaysCovered

LEMMA ExtractTxStaysCovered ==
  ASSUME WriteInv, NEW h \in Handler, ExtractTx(h), SerialStep(h), NEW c, Covered(c)
  PROVE  Covered(c)'
<1>m. PICK m : m = mem[h]
  OBVIOUS
<1>0. pc[h] = "extract_tx" /\ ExtractedRows(m)
  BY <1>m, ExtractTxRows
<1>1. ~inc[m.new].closed /\ inc[m.new].comps = m.comp
  BY <1>0, <1>m DEF SerialStep, SystemStep
<1>2. inc'[m.new].comps = inc[m.new].comps \cup m.comp /\ FALSE \in BOOLEAN
  BY <1>0, <1>1 DEF ExtractedRows
<1> QED BY <1>0, <1>1, <1>2, MovedStaysCovered DEF ExtractedRows

LEMMA RelocateStaysCovered ==
  ASSUME WriteInv, NEW h \in Handler, Relocate(h), SerialStep(h), NEW c, Covered(c)
  PROVE  Covered(c)'
<1>m. PICK m : m = mem[h]
  OBVIOUS
<1>0. TypeOK /\ RequestOK(m) /\ pc[h] = "relocate" /\ m.todo # {} /\ HasCopy(m, m.new) /\ Fresh(m)
  BY <1>m DEF Relocate, WriteInv, TypeOK, Targets, SerialStep
<1>1. ~inc[m.new].closed
  BY <1>0, <1>m DEF SerialStep, RegularStep
<1>2. PICK d \in m.todo : \E n : mem'[h] = n /\ Relocated(m, d, n)
  BY <1>m, RelocateIs
<1>3. PICK n : Relocated(m, d, n)
  BY <1>2
<1>4. CASE UNCHANGED inc
  BY <1>4 DEF Covered, Incidents, Active
<1>5. CASE \E i \in DOMAIN m.view : RelocatedFrom(m, d, i, n)
  <2>0. PICK i \in DOMAIN m.view : RelocatedFrom(m, d, i, n)
    BY <1>5
  <2>1. MovedRows(m, d, i, n)
    BY <1>0, <2>0, RelocatedRows
  <2>t. PICK t : t = m.new
    OBVIOUS
  <2>2. inc[t] \in Event /\ inc[i] \in Event
    BY <1>0, <2>1, <2>t, Rows DEF MovedRows, TypeOK
  <2>3. /\ inc'[t].type = "incident" /\ ~inc'[t].closed /\ inc'[t].comps = inc[t].comps \cup {d}
    <3>1. inc'[t] = MovedTo(inc[t], {d}) /\ inc[t].type = "incident"
      BY <2>1, <2>t DEF MovedRows
    <3>2. inc'[t] = [inc[t] EXCEPT !.comps = inc[t].comps \cup {d}]
      BY <3>1 DEF MovedTo
    <3> QED BY <1>1, <2>2, <2>t, <3>1, <3>2 DEF Event
  <2>b. PICK b \in BOOLEAN : b = CloseSource(inc[i])
    BY DEF CloseSource
  <2>4. Covered(c)' \/ (b /\ c \in inc[i].comps /\ c \notin {d})
    BY <1>1, <2>1, <2>3, <2>b, <2>t, MovedStaysCovered DEF MovedRows
  <2>5. b => inc[i].comps = {d}
    <3>1. IsFiniteSet(inc[i].comps) /\ d \in inc[i].comps
      BY <2>1, <2>2, IncidentsAssumption, FS_Subset DEF Event, MovedRows
    <3>2. CASE b
      <4>1. Cardinality(inc[i].comps) = 1
        BY <2>b, <3>2 DEF CloseSource
      <4> QED BY <3>1, <4>1, FS_Singleton
    <3> QED BY <3>2
  <2> QED BY <2>4, <2>5
<1> QED BY <1>3, <1>4, <1>5 DEF Relocated

LEMMA ModifyStaysCovered ==
  ASSUME WriteInv, NEW h \in Handler, ModifyIncident(h), SerialStep(h), NEW c
  PROVE  StaysCovered(h, c)
<1>t. PICK t : t = mem[h].old
  OBVIOUS
<1>0. /\ pc[h] = "patch" /\ pc'[h] # pc[h] /\ t \in DOMAIN inc /\ t \in DOMAIN mem[h].view
      /\ inc[t].type = "incident" /\ inc \in Seq(Event) /\ Fresh(mem[h])
  BY <1>t DEF ModifyIncident, Go, WriteInv, TypeOK, Targets, HasCopy, RequestOK, SerialStep
<1>1. PICK e \in Event :
         /\ inc' = [inc EXCEPT ![t] = e] /\ e.type = "incident" /\ e.comps = inc[t].comps
         /\ e.closed = IF mem[h].status = "resolved" \/ (mem[h].view[t].closed /\ mem[h].status # "reopened")
                       THEN TRUE ELSE inc[t].closed
  BY <1>t, ModifyIs
<1>2. RowBecomes(t, e)
  BY <1>0, <1>1, Updated DEF RowBecomes
<1>3. mem[h].view[t] = inc[t]
  BY <1>0 DEF Fresh
<1>4. CASE mem[h].status = "resolved"
  <2>1. \A i \in DOMAIN inc : i # t => RowKeeps(i)
    BY <1>2, SameKeeps DEF RowBecomes
  <2>2. Covered(c) => Covered(c)' \/ c \in inc[t].comps
    BY <2>1, OthersKeep
  <2>3. c \in inc[t].comps => Withdraws(h, c)
    BY <1>0, <1>4, <1>t DEF Withdraws
  <2> QED BY <2>2, <2>3 DEF StaysCovered
<1>5. CASE mem[h].status # "resolved"
  <2>1. e.closed => inc[t].closed
    BY <1>1, <1>3, <1>5
  <2> QED BY <1>1, <1>2, <2>1, RowStaysCovered DEF StaysCovered
<1> QED BY <1>4, <1>5

LEMMA ReOpenStaysCovered ==
  ASSUME WriteInv, NEW h \in Handler, ReOpenIncident(h), NEW c, Covered(c)
  PROVE  Covered(c)'
<1>t. PICK t : t = mem[h].old
  OBVIOUS
<1>0. t \in DOMAIN inc /\ inc[t] \in Event /\ inc \in Seq(Event) /\ inc[t].type = "incident"
  BY <1>t, Rows DEF ReOpenIncident, WriteInv, TypeOK, Targets, HasCopy, RequestOK
<1>1. PICK e : e = [inc[t] EXCEPT !.closed = FALSE]
  OBVIOUS
<1>2. e \in Event /\ e.type = "incident" /\ e.comps = inc[t].comps /\ ~e.closed
  BY <1>0, <1>1 DEF Event
<1>3. inc' = [inc EXCEPT ![t] = e]
  BY <1>0, <1>1, <1>t DEF ReOpenIncident
<1>4. RowBecomes(t, e)
  BY <1>0, <1>2, <1>3, Updated DEF RowBecomes
<1> QED BY <1>2, <1>4, RowStaysCovered

LEMMA EndStaysCovered ==
  ASSUME WriteInv, NEW i \in DOMAIN inc, EndMaintenance(i), NEW c, Covered(c)
  PROVE  Covered(c)'
<1>0. /\ DOMAIN inc' = DOMAIN inc /\ inc[i].type = "maintenance"
      /\ inc'[i] = [inc[i] EXCEPT !.closed = TRUE] /\ \A j \in DOMAIN inc : j # i => inc'[j] = inc[j]
  BY EndIs DEF WriteInv
<1>1. \A j \in DOMAIN inc : j # i => RowKeeps(j)
  BY <1>0, SameKeeps
<1>2. i \notin Incidents
  BY <1>0 DEF Incidents, Active
<1> QED BY <1>1, <1>2, OthersKeep

LEMMA ServesStaysCovered ==
  ASSUME WriteInv, NEW h \in Handler, Serves(h), SerialStep(h), NEW c
  PROVE  StaysCovered(h, c)
<1>1. CASE ProcessSystem(h) \/ FindTarget(h) \/ Complete(h) \/ Respond(h)
  <2>1. UNCHANGED inc
    BY <1>1 DEF ProcessSystem, FindTarget, Complete, Respond
  <2> QED BY <2>1, UnchangedStaysCovered
<1>2. CASE AddComponentToIncident(h)
  <2>1. CASE UNCHANGED inc
    BY <2>1, UnchangedStaysCovered
  <2>2. CASE \E e : /\ RowBecomes(mem[h].new, e) /\ e.closed = inc[mem[h].new].closed
                    /\ e.comps = inc[mem[h].new].comps \cup mem[h].comp
    <3>1. PICK e : /\ RowBecomes(mem[h].new, e) /\ e.closed = inc[mem[h].new].closed
                   /\ e.comps = inc[mem[h].new].comps \cup mem[h].comp
      BY <2>2
    <3>2. (e.closed => inc[mem[h].new].closed) /\ inc[mem[h].new].comps \subseteq e.comps
      BY <3>1
    <3> QED BY <3>1, <3>2, RowStaysCovered DEF StaysCovered
  <2> QED BY <1>2, <2>1, <2>2, AddComponentIs
<1>3. CASE CreateSystem(h) \/ ExtractSave(h) \/ CreateRegular(h)
  <2>1. \E e \in Event : inc' = Append(inc, e)
    BY <1>3, CreateSystemIs, ExtractSaveIs, CreateRegularIs
  <2> QED BY <2>1, InsertStaysCovered DEF StaysCovered
<1>4. CASE IncreaseIncidentImpact(h) \/ MarkSystem(h)
  <2>1. PICK t, e : RowBecomes(t, e) /\ e.closed = inc[t].closed /\ e.comps = inc[t].comps
    BY <1>4, IncreaseIs, MarkSystemIs
  <2> QED BY <2>1, RowStaysCovered DEF StaysCovered
<1> QED BY <1>1, <1>2, <1>3, <1>4, MoveStaysCovered, ExtractTxStaysCovered, RelocateStaysCovered, ModifyStaysCovered, ReOpenStaysCovered
        DEF Serves, StaysCovered

(* Served one at a time, requests leave no gap that they do not mean to. *)
LEMMA SerialCovers ==
  ASSUME WriteInv, SerialInv, Serial, [Next]_vars, NEW c, Covered(c)
  PROVE  Covered(c)' \/ \E h \in Handler : Withdraws(h, c)
<1>1. ASSUME NEW h \in Handler, Starts(h) \/ Serves(h) \/ Fail(h) PROVE StaysCovered(h, c)
  <2>1. CASE Starts(h) \/ Fail(h)
    <3>1. UNCHANGED inc
      BY <2>1, StartIs DEF Started, Fail
    <3> QED BY <3>1, UnchangedStaysCovered
  <2>2. CASE Serves(h)
    <3>1. SerialStep(h)
      BY <2>2, Counted DEF SerialInv, WriteInv
    <3> QED BY <2>2, <3>1, ServesStaysCovered
  <2> QED BY <1>1, <2>1, <2>2
<1>2. CASE UNCHANGED vars
  BY <1>2 DEF Covered, Incidents, Active
<1>3. CASE \E i \in DOMAIN inc : EndMaintenance(i)
  BY <1>3, EndStaysCovered
<1> QED BY <1>1, <1>2, <1>3, NextIs DEF StaysCovered

(* Without system reports and resolutions, nothing leaves a gap. *)
LEMMA CalmCovers ==
  ASSUME Calm
  PROVE  WriteInv /\ CoverInv /\ [Next]_vars => CoverInv' /\ \A c \in Component : Covered(c) => Covered(c)'
<1> SUFFICES ASSUME WriteInv, CoverInv, [Next]_vars
             PROVE  CoverInv' /\ \A c \in Component : Covered(c) => Covered(c)'
  OBVIOUS
<1>0. WriteInv'
  BY WriteKept
<1>1. (\A h \in Handler : Newer(h)') /\ \A c, k : Kept(c, k) => StillKept(c, k)
  BY CoverKept DEF Calm
<1>2. ASSUME NEW c \in Component
      PROVE  /\ (\E k \in {0} \cup DOMAIN inc : NoneAfter(c, k) /\ (k = 0 \/ Keeps(c, k)))'
             /\ Covered(c) => Covered(c)'
  <2>1. PICK k : Kept(c, k)
    BY <1>2 DEF CoverInv, Kept
  <2>2. PICK j : Kept(c, j)' /\ (k # 0 => j # 0)
    BY <1>1, <2>1 DEF StillKept
  <2>3. Covered(c) => k # 0
    BY <2>1, KeeperCovers
  <2>4. j # 0 => Covered(c)'
    BY <2>2 DEF Kept, Keeps, Covered
  <2> QED BY <2>2, <2>3, <2>4 DEF Kept
<1> QED BY <1>1, <1>2 DEF CoverInv

(* A component that an open incident covers stays covered unless a request withdraws *)
(* it (a PATCH resolves the incident, or the system moves another component out and  *)
(* closes it): over every sequence of requests served one at a time, those of the    *)
(* system included, and, without those and resolutions, over every interleaving of   *)
(* requests on stale copies and failures between their steps.                        *)
THEOREM CoverageNeverLost == Spec => CoverageKept
<1> DEFINE Step == Calm \/ Serial => \A c \in Component :
                     Covered(c) => Covered(c)' \/ \E h \in Handler : Withdraws(h, c)
<1>1. CASE Calm
  <2>1. Init => CoverInv
    <3> SUFFICES ASSUME Init PROVE CoverInv
      OBVIOUS
    <3>1. DOMAIN <<>> = {}
      OBVIOUS
    <3>2. DOMAIN inc = {} /\ \A h \in Handler : pc[h] = "idle" /\ DOMAIN mem[h].view = {}
      BY <3>1 DEF Init, NoRequest
    <3>3. \A c \in Component : NoneAfter(c, 0)
      BY <3>2 DEF NoneAfter
    <3> QED BY <3>2, <3>3 DEF CoverInv, Newer
  <2>2. WriteInv /\ CoverInv /\ [Next]_vars => CoverInv' /\ [Step]_vars
    BY <1>1, CalmCovers
  <2> HIDE DEF Step
  <2>3. Spec => [][Step]_vars
    BY <2>1, <2>2, WritesSound, PTL DEF Spec
  <2> QED BY <2>3 DEF CoverageKept, Step
<1>2. CASE ~Calm
  <2>1. WriteInv /\ SerialInv /\ [Next]_vars => [Step]_vars
    BY <1>2, SerialCovers
  <2> HIDE DEF Step
  <2>2. Spec => [][Step]_vars
    BY <2>1, WritesSound, SerialSound, PTL DEF Spec
  <2> QED BY <2>2 DEF CoverageKept, Step
<1> QED BY <1>1, <1>2

-----------------------------------------------------------------------------
(* One place *)

NoShare == \A i, j \in Incidents : ~Share(i, j)

\* The request of h shares components between open incidents only while it moves them.
Placed(h) == Sharing(h) /\ (pc[h] \notin {"extract_tx", "relocate"} => NoShare)

(* Open incidents that only close or give components up share less. *)
LEMMA SharesLess ==
  ASSUME \A i \in Incidents' : i \in Incidents /\ inc'[i].comps \subseteq inc[i].comps,
         NEW i \in Incidents', NEW j \in Incidents', Share(i, j)'
  PROVE  /\ i \in Incidents /\ j \in Incidents /\ Share(i, j)
         /\ inc'[i].comps \cap inc'[j].comps \subseteq inc[i].comps \cap inc[j].comps
BY DEF Share

LEMMA NoMoreShares ==
  ASSUME NoShare, \A i \in Incidents' : i \in Incidents /\ inc'[i].comps \subseteq inc[i].comps
  PROVE  NoShare'
BY SharesLess DEF NoShare

\* i is the new incident k, stored as e, and j an older one.
NewAndOld(k, e, i, j) == i = k /\ j \in Incidents /\ inc'[i] = e /\ inc'[j] = inc[j]

(* Where nothing is shared, only a new incident can share. *)
LEMMA InsertShares ==
  ASSUME inc \in Seq(Event), NEW e \in Event, inc' = Append(inc, e), NoShare, NEW k, k = Len(inc) + 1
  PROVE  \A i, j \in Incidents' : Share(i, j)' => NewAndOld(k, e, i, j) \/ NewAndOld(k, e, j, i)
<1> SUFFICES ASSUME NEW i \in Incidents', NEW j \in Incidents', Share(i, j)'
             PROVE  NewAndOld(k, e, i, j) \/ NewAndOld(k, e, j, i)
  OBVIOUS
<1>1. /\ DOMAIN inc' = DOMAIN inc \cup {k} /\ k \notin DOMAIN inc /\ inc'[k] = e
      /\ \A x \in DOMAIN inc : inc'[x] = inc[x]
  BY Inserted
<1>2. \A x \in Incidents' : x = k \/ (x \in Incidents /\ inc'[x] = inc[x])
  BY <1>1 DEF Incidents, Active
<1>3. i # j /\ inc'[i].comps \cap inc'[j].comps # {}
  BY DEF Share
<1>4. ~(i \in Incidents /\ inc'[i] = inc[i] /\ j \in Incidents /\ inc'[j] = inc[j])
  BY <1>3 DEF NoShare, Share
<1>5. CASE i = k
  <2>1. j \in Incidents /\ inc'[j] = inc[j]
    BY <1>2, <1>3, <1>5
  <2> QED BY <1>1, <1>5, <2>1 DEF NewAndOld
<1>6. CASE i # k
  <2>1. i \in Incidents /\ inc'[i] = inc[i]
    BY <1>2, <1>6
  <2>2. j = k
    BY <1>2, <1>4, <2>1
  <2> QED BY <1>1, <2>1, <2>2 DEF NewAndOld
<1> QED BY <1>5, <1>6

LEMMA ProcessSystemPlaces ==
  ASSUME WriteInv, NEW h \in Handler, ProcessSystem(h), Placed(h)
  PROVE  Placed(h)'
<1>0. /\ TypeOK /\ RequestOK(mem[h]) /\ pc[h] = "next" /\ UNCHANGED inc /\ NoShare
      /\ DOMAIN mem = Handler /\ DOMAIN pc = Handler
  BY DEF ProcessSystem, WriteInv, TypeOK, Placed
<1>1. PICK c \in mem[h].todo : \E n : Processed(h, c, n)
  BY ProcessSystemIs
<1>2. PICK n : Processed(h, c, n)
  BY <1>1
<1>s. PICK s : s = Serving(mem[h], c)
  OBVIOUS
<1>3. s.comp = {c} /\ s.old = 0 /\ DOMAIN s = DOMAIN NoRequest
  BY <1>0, <1>s, ServingIs DEF RequestOK
<1>4. NoShare'
  BY <1>0 DEF NoShare, Share, Incidents, Active
<1>5. mem'[h] = n
  BY <1>0, <1>2 DEF Processed
<1>6. CASE pc' = pc
  BY <1>0, <1>4, <1>6 DEF Placed, Sharing
<1>7. CASE EventsOf(c) = {} /\ n = s /\ Go(h, "target")
  <2>1. pc'[h] = "target"
    BY <1>0, <1>7 DEF Go
  <2>2. \A i \in Incidents' : n.comp \cap inc'[i].comps = {}
    BY <1>0, <1>3, <1>7 DEF Incidents, Active, EventsOf
  <2>3. Sharing(h)'
    BY <1>3, <1>5, <1>7, <2>1, <2>2 DEF Sharing
  <2> QED BY <1>4, <2>3 DEF Placed
<1>8. CASE \E i \in EventsOf(c) : /\ n = [s EXCEPT !.old = i, !.view = Copies({i})]
                                  /\ Go(h, "target")
  <2>1. PICK i \in EventsOf(c) : n = [s EXCEPT !.old = i, !.view = Copies({i})] /\ Go(h, "target")
    BY <1>8
  <2>2. pc'[h] = "target"
    BY <1>0, <2>1 DEF Go
  <2>3. i \in DOMAIN inc /\ c \in inc[i].comps /\ ~inc[i].closed
    BY <2>1 DEF EventsOf, Active
  <2>4. n.comp = {c} /\ n.old = i
    BY <1>3, <2>1, Fields
  <2>5. i # 0
    BY <1>0, <2>3, Rows DEF TypeOK
  <2>6. Sharing(h)'
    BY <1>0, <1>5, <2>2, <2>3, <2>4, <2>5 DEF Sharing
  <2> QED BY <1>4, <2>6 DEF Placed
<1> QED BY <1>2, <1>s, <1>6, <1>7, <1>8 DEF Processed

LEMMA FindTargetPlaces ==
  ASSUME WriteInv, NEW h \in Handler, FindTarget(h), Placed(h)
  PROVE  Placed(h)'
<1>m. PICK m : m = mem[h]
  OBVIOUS
<1>0. UNCHANGED inc /\ pc[h] = "target" /\ NoShare /\ Sharing(h)
  BY FindTargetIs DEF Placed
<1>1. /\ mem'[h].comp = m.comp /\ mem'[h].old = m.old
      /\ pc'[h] \in IF m.old = 0 THEN {"add", "create"} ELSE {"move", "raise", "extract"}
  <2>1. PICK n :
              /\ mem'[h] = n /\ n.comp = mem[h].comp /\ n.old = mem[h].old
              /\ \/ pc'[h] = IF mem[h].old = 0 THEN "add" ELSE "move"
                 \/ pc'[h] = IF mem[h].old = 0 THEN "create"
                             ELSE IF Cardinality(mem[h].view[mem[h].old].comps) = 1 THEN "raise"
                             ELSE "extract"
    BY FindTargetIs DEF TargetFound
  <2>2. CASE mem[h].old = 0
    BY <1>m, <2>1, <2>2
  <2>3. CASE mem[h].old # 0
    BY <1>m, <2>1, <2>3
  <2> QED BY <2>2, <2>3
<1>2. NoShare'
  BY <1>0 DEF NoShare, Share, Incidents, Active
<1>3. CASE m.old = 0
  <2>1. \A i \in Incidents : m.comp \cap inc[i].comps = {}
    BY <1>0, <1>3, <1>m DEF Sharing
  <2>2. \A i \in Incidents' : mem'[h].comp \cap inc'[i].comps = {}
    BY <1>0, <1>1, <2>1 DEF Incidents, Active
  <2>3. Sharing(h)'
    BY <1>1, <1>3, <2>2 DEF Sharing
  <2> QED BY <1>2, <2>3 DEF Placed
<1>4. CASE m.old # 0
  <2>1. m.comp \subseteq inc[m.old].comps /\ ~inc[m.old].closed
    BY <1>0, <1>4, <1>m DEF Sharing
  <2>2. Sharing(h)'
    BY <1>0, <1>1, <1>4, <2>1 DEF Sharing
  <2> QED BY <1>2, <2>2 DEF Placed
<1> QED BY <1>3, <1>4

LEMMA AddComponentPlaces ==
  ASSUME WriteInv, NEW h \in Handler, AddComponentToIncident(h), SerialStep(h), Placed(h)
  PROVE  Placed(h)'
<1>m. PICK m : m = mem[h]
  OBVIOUS
<1>t. PICK t : t = m.new
  OBVIOUS
<1>0. pc[h] = "add" /\ NoShare /\ (\A i \in Incidents : m.comp \cap inc[i].comps = {}) /\ ~inc[t].closed
  BY <1>m, <1>t, AddComponentIs DEF Placed, Sharing, SerialStep, SystemStep
<1>1. CASE pc'[h] = "idle" /\ UNCHANGED inc
  BY <1>0, <1>1 DEF Placed, Sharing, NoShare, Share, Incidents, Active
<1>2. CASE pc'[h] = "next" /\ \E e : /\ RowBecomes(t, e) /\ e.closed = inc[t].closed
                                     /\ e.comps = inc[t].comps \cup m.comp
  <2>1. PICK e : RowBecomes(t, e) /\ e.closed = inc[t].closed /\ e.comps = inc[t].comps \cup m.comp
    BY <1>2
  <2>2. /\ t \in Incidents /\ Incidents' = Incidents /\ inc'[t].comps = inc[t].comps \cup m.comp
        /\ \A i \in Incidents : i # t => inc'[i].comps = inc[i].comps
    BY <1>0, <2>1 DEF RowBecomes, Incidents, Active
  <2>3. NoShare'
    BY <1>0, <2>2 DEF NoShare, Share
  <2> QED BY <1>2, <2>3 DEF Placed, Sharing
<1> QED BY <1>m, <1>t, <1>1, <1>2, AddComponentIs

LEMMA CreateSystemPlaces ==
  ASSUME WriteInv, NEW h \in Handler, CreateSystem(h), Placed(h)
  PROVE  Placed(h)'
<1>0. /\ pc[h] = "create" /\ pc'[h] = "next" /\ NoShare /\ inc \in Seq(Event)
      /\ \A i \in Incidents : mem[h].comp \cap inc[i].comps = {}
  BY CreateSystemIs DEF Placed, Sharing, WriteInv, TypeOK
<1>1. PICK e \in Event : inc' = Append(inc, e) /\ e.comps = mem[h].comp
  BY CreateSystemIs
<1>k. PICK k : k = Len(inc) + 1
  OBVIOUS
<1>2. ASSUME NEW i \in Incidents', NEW j \in Incidents', Share(i, j)' PROVE FALSE
  <2>0. \A x, y \in Incidents' : Share(x, y)' => NewAndOld(k, e, x, y) \/ NewAndOld(k, e, y, x)
    BY <1>0, <1>1, <1>k, InsertShares
  <2>1. NewAndOld(k, e, i, j) \/ NewAndOld(k, e, j, i)
    BY <1>2, <2>0
  <2>2. inc'[i].comps \cap inc'[j].comps # {}
    BY <1>2 DEF Share
  <2> QED BY <1>0, <1>1, <2>1, <2>2 DEF NewAndOld
<1>3. NoShare'
  BY <1>2 DEF NoShare
<1> QED BY <1>0, <1>3 DEF Placed, Sharing

(* A write that leaves the components and the end of a row alone. *)
LEMMA RowPlaces ==
  ASSUME WriteInv, NEW h \in Handler, Placed(h), NEW t, NEW e, RowBecomes(t, e), e.comps = inc[t].comps,
         inc[t].closed => e.closed,
         pc[h] \notin {"extract_tx", "relocate"}, pc'[h] \in {"next", "respond"}
  PROVE  Placed(h)'
<1>1. \A i \in Incidents' : i \in Incidents /\ inc'[i].comps \subseteq inc[i].comps
  BY DEF RowBecomes, Incidents, Active
<1>2. NoShare'
  BY <1>1, NoMoreShares DEF Placed
<1> QED BY <1>2 DEF Placed, Sharing

LEMMA IncreasePlaces ==
  ASSUME WriteInv, NEW h \in Handler, IncreaseIncidentImpact(h), Placed(h)
  PROVE  Placed(h)'
<1>1. PICK e : /\ RowBecomes(mem[h].old, e) /\ e.closed = inc[mem[h].old].closed
               /\ e.comps = inc[mem[h].old].comps
  BY IncreaseIs
<1>2. pc[h] = "raise" /\ pc'[h] = "next"
  BY IncreaseIs
<1> QED BY <1>1, <1>2, RowPlaces

LEMMA MarkSystemPlaces ==
  ASSUME WriteInv, NEW h \in Handler, MarkSystem(h), Placed(h)
  PROVE  Placed(h)'
<1>1. PICK e : /\ RowBecomes(mem[h].new, e) /\ e.closed = inc[mem[h].new].closed
               /\ e.comps = inc[mem[h].new].comps
  BY MarkSystemIs
<1>2. pc[h] = "mark" /\ pc'[h] = "next"
  BY MarkSystemIs
<1> QED BY <1>1, <1>2, RowPlaces

LEMMA PatchPlaces ==
  ASSUME WriteInv, NEW h \in Handler, ModifyIncident(h), mem[h].status # "reopened", Placed(h)
  PROVE  Placed(h)'
<1>t. PICK t : t = mem[h].old
  OBVIOUS
<1>0. pc[h] = "patch" /\ pc'[h] = "respond" /\ t \in DOMAIN inc /\ inc[t].type = "incident" /\ inc \in Seq(Event)
  BY <1>t DEF ModifyIncident, Go, WriteInv, TypeOK, Targets, HasCopy, RequestOK
<1>1. PICK e \in Event :
         /\ inc' = [inc EXCEPT ![t] = e] /\ e.type = "incident" /\ e.comps = inc[t].comps
         /\ e.closed = IF mem[h].status = "resolved" \/ (mem[h].view[t].closed /\ mem[h].status # "reopened")
                       THEN TRUE ELSE inc[t].closed
  BY <1>t, ModifyIs
<1>2. RowBecomes(t, e)
  BY <1>0, <1>1, Updated DEF RowBecomes
<1>3. inc[t].closed => e.closed
  BY <1>1
<1> QED BY <1>0, <1>1, <1>2, <1>3, RowPlaces

(* What the source keeps after a move: nothing that is moved, unless it is closed. *)
LEMMA SourceLeft ==
  ASSUME NEW e \in Event, NEW C, NEW close \in BOOLEAN, NEW a, a = MovedFrom(e, C, close)
  PROVE  a.comps \subseteq e.comps /\ (e.closed => a.closed) /\ (a.closed \/ a.comps \cap C = {})
<1>1. CASE close = TRUE
  <2>1. a = [e EXCEPT !.closed = TRUE, !.status = "resolved"]
    BY <1>1 DEF MovedFrom
  <2> QED BY <2>1 DEF Event
<1>2. CASE close = FALSE
  <2>1. a = [e EXCEPT !.comps = e.comps \ C]
    BY <1>2 DEF MovedFrom
  <2>2. a.comps = e.comps \ C /\ a.closed = e.closed
    BY <2>1 DEF Event
  <2> QED BY <2>2
<1> QED BY <1>1, <1>2

LEMMA MovePlaces ==
  ASSUME WriteInv, NEW h \in Handler, MoveComponent(h), SerialStep(h), Placed(h)
  PROVE  Placed(h)'
<1>m. PICK m : m = mem[h]
  OBVIOUS
<1>t. PICK t : t = m.new
  OBVIOUS
<1>o. PICK o : o = m.old
  OBVIOUS
<1>0. /\ pc[h] = "move" /\ pc'[h] = "next" /\ t \in DOMAIN inc /\ o \in DOMAIN inc /\ t # o /\ DOMAIN inc' = DOMAIN inc
      /\ inc'[t] = MovedTo(inc[t], m.comp) /\ inc'[o] = MovedFrom(inc[o], m.comp, m.close)
      /\ \A i \in DOMAIN inc : i # t /\ i # o => inc'[i] = inc[i]
  <2>1. /\ pc[h] = "move" /\ pc'[h] = "next" /\ m.new \in DOMAIN inc /\ m.old \in DOMAIN inc /\ m.new # m.old
        /\ DOMAIN inc' = DOMAIN inc
        /\ inc'[m.new] = MovedTo(inc[m.new], m.comp) /\ inc'[m.old] = MovedFrom(inc[m.old], m.comp, m.close)
        /\ \A i \in DOMAIN inc : i # m.new /\ i # m.old => inc'[i] = inc[i]
    BY <1>m, MoveIs
  <2> QED BY <1>t, <1>o, <2>1
<1>1. /\ NoShare /\ m.comp \subseteq inc[o].comps /\ ~inc[o].closed /\ ~inc[t].closed
  BY <1>0, <1>m, <1>t, <1>o DEF Placed, Sharing, SerialStep, SystemStep
<1>2. /\ inc[t] \in Event /\ inc[o] \in Event /\ m.close \in BOOLEAN
      /\ inc[t].type = "incident" /\ inc[o].type = "incident"
  BY <1>0, <1>m, <1>t, <1>o, Rows DEF WriteInv, TypeOK, RequestOK, Targets, HasCopy
<1>3. t \in Incidents /\ o \in Incidents
  BY <1>0, <1>1, <1>2 DEF Incidents, Active
<1>4. inc'[t].comps = inc[t].comps \cup m.comp
  BY <1>0, <1>2 DEF MovedTo, Event
<1>5. inc'[o].comps \subseteq inc[o].comps /\ (inc'[o].closed \/ inc'[o].comps \cap m.comp = {})
  BY <1>0, <1>2, SourceLeft
<1>6. \A i \in Incidents' : i = t \/ (i = o /\ inc'[o].comps \cap m.comp = {})
                            \/ (i \in Incidents /\ i # t /\ i # o /\ inc'[i] = inc[i])
  BY <1>0, <1>5 DEF Incidents, Active
<1>7. \A i \in Incidents : (i # t => inc[i].comps \cap inc[t].comps = {}) /\ (i # o => inc[i].comps \cap inc[o].comps = {})
  BY <1>1, <1>3 DEF NoShare, Share
<1>8. \A i \in Incidents' : i # t => inc'[i].comps \cap inc'[t].comps = {}
  BY <1>0, <1>1, <1>3, <1>4, <1>5, <1>6, <1>7
<1>9. \A i, j \in Incidents' : i # t /\ j # t /\ i # j => inc'[i].comps \cap inc'[j].comps = {}
  <2> SUFFICES ASSUME NEW i \in Incidents', NEW j \in Incidents', i # t, j # t, i # j
               PROVE  inc'[i].comps \cap inc'[j].comps = {}
    OBVIOUS
  <2>1. CASE i = o
    BY <1>5, <1>6, <1>7, <2>1
  <2>2. CASE j = o
    BY <1>5, <1>6, <1>7, <2>2
  <2>3. CASE i # o /\ j # o
    BY <1>1, <1>6, <2>3 DEF NoShare, Share
  <2> QED BY <2>1, <2>2, <2>3
<1>10. NoShare'
  BY <1>8, <1>9 DEF NoShare, Share
<1> QED BY <1>0, <1>10 DEF Placed, Sharing

LEMMA ExtractSavePlaces ==
  ASSUME WriteInv, NEW h \in Handler, ExtractSave(h), Placed(h)
  PROVE  Placed(h)'
<1>m. PICK m : m = mem[h]
  OBVIOUS
<1>o. PICK o : o = m.old
  OBVIOUS
<1>k. PICK k : k = Len(inc) + 1
  OBVIOUS
<1>e. PICK e : e = Extracted(m)
  OBVIOUS
<1>0. /\ pc[h] = "extract" /\ NoShare /\ m.comp \subseteq inc[o].comps /\ ~inc[o].closed /\ inc \in Seq(Event)
      /\ o \in DOMAIN inc /\ inc[o].type = "incident"
  BY <1>m, <1>o DEF ExtractSave, Placed, Sharing, WriteInv, TypeOK, Targets, HasCopy, RequestOK
<1>1. PICK n : mem'[h] = n /\ n.comp = m.comp /\ n.old = o /\ n.new = k
  BY <1>m, <1>o, <1>k, ExtractSaveIs
<1>2. pc'[h] = "extract_tx" /\ e \in Event /\ inc' = Append(inc, e) /\ e.comps = m.comp
  <2>1. e.comps = m.comp
    BY <1>e DEF Extracted
  <2> QED BY <1>m, <1>e, <2>1, ExtractSaveIs
<1>3. inc'[o] = inc[o] /\ o \in Incidents
  BY <1>0, <1>2, Inserted DEF Incidents, Active
<1>4. \A i, j \in Incidents' : Share(i, j)' => NewAndOld(k, e, i, j) \/ NewAndOld(k, e, j, i)
  BY <1>0, <1>2, <1>k, InsertShares
<1>5. \A i \in Incidents : e.comps \cap inc[i].comps # {} => i = o
  BY <1>0, <1>2, <1>3 DEF NoShare, Share
<1>6. ASSUME NEW i \in Incidents', NEW j \in Incidents', Share(i, j)' PROVE {i, j} = {n.old, n.new}
  <2>1. inc'[i].comps \cap inc'[j].comps # {}
    BY <1>6 DEF Share
  <2>2. CASE NewAndOld(k, e, i, j)
    <3>1. i = k /\ j = o
      BY <1>5, <2>1, <2>2 DEF NewAndOld
    <3> QED BY <1>1, <3>1
  <2>3. CASE NewAndOld(k, e, j, i)
    <3>1. j = k /\ i = o
      BY <1>5, <2>1, <2>3 DEF NewAndOld
    <3> QED BY <1>1, <3>1
  <2> QED BY <1>4, <1>6, <2>2, <2>3
<1>7. Sharing(h)'
  BY <1>0, <1>1, <1>2, <1>3, <1>6 DEF Sharing
<1> QED BY <1>2, <1>7 DEF Placed

LEMMA ExtractTxPlaces ==
  ASSUME WriteInv, NEW h \in Handler, ExtractTx(h), SerialStep(h), Placed(h)
  PROVE  Placed(h)'
<1>m. PICK m : m = mem[h]
  OBVIOUS
<1>1. pc[h] = "extract_tx" /\ ExtractedRows(m) /\ pc'[h] \in {"mark", "respond"}
  BY <1>m, ExtractTxRows, ExtractTxIs
<1>t. PICK t : t = m.new
  OBVIOUS
<1>o. PICK o : o = m.old
  OBVIOUS
<1>2. /\ t \in DOMAIN inc /\ o \in DOMAIN inc /\ t # o /\ DOMAIN inc' = DOMAIN inc
      /\ inc'[t] = inc[t] /\ inc'[o] = MovedFrom(inc[o], m.comp, FALSE)
      /\ inc[o].type = "incident"
      /\ \A i \in DOMAIN inc : i # t /\ i # o => inc'[i] = inc[i]
  BY <1>1, <1>t, <1>o DEF ExtractedRows
<1>3. /\ inc[t].comps = m.comp
      /\ \A i, j \in Incidents : Share(i, j) => {i, j} = {o, t}
  BY <1>1, <1>m, <1>t, <1>o DEF Placed, Sharing, SerialStep, SystemStep
<1>4. inc[o] \in Event
  BY <1>2, Rows DEF WriteInv, TypeOK
<1>5. inc'[o].comps = inc[o].comps \ m.comp /\ inc'[o].closed = inc[o].closed
  <2>1. inc'[o] = [inc[o] EXCEPT !.comps = inc[o].comps \ m.comp]
    BY <1>2 DEF MovedFrom
  <2> QED BY <1>4, <2>1 DEF Event
<1>6. \A i \in Incidents' : i \in Incidents /\ inc'[i].comps \subseteq inc[i].comps
  BY <1>2, <1>5 DEF Incidents, Active
<1>7. ASSUME NEW i \in Incidents', NEW j \in Incidents', Share(i, j)' PROVE FALSE
  <2>1. i \in Incidents /\ j \in Incidents /\ Share(i, j)
    BY <1>6, <1>7, SharesLess
  <2>2. {i, j} = {o, t}
    BY <1>3, <2>1
  <2>3. inc'[o].comps \cap inc'[t].comps = {}
    BY <1>2, <1>3, <1>5
  <2>4. inc'[i].comps \cap inc'[j].comps # {} /\ i # j
    BY <1>7 DEF Share
  <2>5. (i = o /\ j = t) \/ (i = t /\ j = o)
    BY <2>2, <2>4
  <2> QED BY <2>3, <2>4, <2>5
<1>8. NoShare'
  BY <1>7 DEF NoShare
<1> QED BY <1>1, <1>8 DEF Placed, Sharing

LEMMA CreateRegularPlaces ==
  ASSUME WriteInv, NEW h \in Handler, CreateRegular(h), SerialStep(h), Placed(h)
  PROVE  Placed(h)'
<1>m. PICK m : m = mem[h]
  OBVIOUS
<1>e. PICK e : e = Regular(m)
  OBVIOUS
<1>k. PICK k : k = Len(inc) + 1
  OBVIOUS
<1>0. /\ pc[h] = "open" /\ NoShare /\ inc \in Seq(Event) /\ RequestOK(m) /\ DOMAIN m.view \subseteq DOMAIN inc
      /\ m.op \in {"regular", "maintenance"} /\ Incidents \subseteq DOMAIN m.view
      /\ \A i \in DOMAIN m.view : inc[i].type = "incident" => ~inc[i].closed
  BY <1>m DEF CreateRegular, Placed, Sharing, SerialStep, RegularStep, WriteInv, TypeOK, RequestOK
<1>1. PICK n : /\ mem'[h] = n
               /\ \/ Skips(m) /\ n.todo = {} /\ n.view = m.view
                  \/ ~Skips(m) /\ n.todo = m.todo /\ n.new = k /\ n.view = Put(m.view, One(k, e))
  BY <1>m, <1>e, <1>k, CreateRegularIs
<1>2. pc'[h] = "relocate" /\ e \in Event /\ inc' = Append(inc, e)
  BY <1>m, <1>e, CreateRegularIs
<1>3. e.comps = m.todo /\ ~e.closed /\ e.type = IF m.op = "regular" THEN "incident" ELSE "maintenance"
  BY <1>e DEF Regular, NewEvent
<1>4. \A i, j \in Incidents' : Share(i, j)' => NewAndOld(k, e, i, j) \/ NewAndOld(k, e, j, i)
  BY <1>0, <1>2, <1>k, InsertShares
<1>5. /\ DOMAIN inc' = DOMAIN inc \cup {k} /\ k \notin DOMAIN inc /\ inc'[k] = e
      /\ \A i \in DOMAIN inc : inc'[i] = inc[i]
  BY <1>0, <1>2, <1>k, Inserted
<1>6. CASE Skips(m) /\ n.todo = {} /\ n.view = m.view
  <2>1. Incidents = {} \/ k \notin Incidents'
    <3>1. CASE m.view = <<>>
      <4>1. DOMAIN <<>> = {}
        OBVIOUS
      <4> QED BY <1>0, <3>1, <4>1
    <3>2. CASE m.op # "regular"
      BY <1>3, <1>5, <3>2 DEF Incidents, Active
    <3> QED BY <1>6, <3>1, <3>2 DEF Skips
  <2>2. \A i, j \in Incidents' : ~Share(i, j)'
    BY <1>4, <2>1 DEF NewAndOld
  <2>3. Sharing(h)'
    BY <1>1, <1>2, <1>6, <2>2 DEF Sharing
  <2> QED BY <1>2, <2>3 DEF Placed
<1>7. CASE ~Skips(m) /\ n.todo = m.todo /\ n.new = k /\ n.view = Put(m.view, One(k, e))
  <2>1. DOMAIN n.view = DOMAIN m.view \cup {k}
    BY <1>7 DEF Put, One
  <2>2. \A i \in DOMAIN n.view : inc'[i].type = "incident" => ~inc'[i].closed
    BY <1>0, <1>3, <1>5, <2>1
  <2>3. ASSUME NEW i \in Incidents', NEW j \in Incidents', Share(i, j)'
        PROVE  n.new \in {i, j} /\ inc'[i].comps \cap inc'[j].comps \subseteq n.todo
    BY <1>3, <1>4, <1>7, <2>3 DEF NewAndOld
  <2>4. Sharing(h)'
    BY <1>1, <1>2, <2>2, <2>3 DEF Sharing
  <2> QED BY <1>2, <2>4 DEF Placed
<1> QED BY <1>1, <1>6, <1>7

LEMMA RelocatePlaces ==
  ASSUME WriteInv, NEW h \in Handler, Relocate(h), SerialStep(h), Placed(h)
  PROVE  Placed(h)'
<1>m. PICK m : m = mem[h]
  OBVIOUS
<1>t. PICK t : t = m.new
  OBVIOUS
<1>0. TypeOK /\ pc[h] = "relocate" /\ m.todo # {} /\ RequestOK(m) /\ HasCopy(m, m.new)
  BY <1>m DEF WriteInv, TypeOK, Relocate, Targets
<1>1. PICK c \in m.todo : \E n : mem'[h] = n /\ Relocated(m, c, n)
  BY <1>m, RelocateIs
<1>2. PICK n : mem'[h] = n /\ Relocated(m, c, n)
  BY <1>1
<1>3. pc'[h] = "relocate" /\ n.new = t /\ n.todo = m.todo \ {c}
  BY <1>2, <1>t, RelocateIs DEF Relocated
<1>4. Fresh(m) /\ Incidents \subseteq DOMAIN m.view /\ m.todo \subseteq inc[t].comps
  BY <1>0, <1>m, <1>t DEF SerialStep, RegularStep
<1>5. /\ \A i, j \in Incidents : Share(i, j) =>
             t \in {i, j} /\ inc[i].comps \cap inc[j].comps \subseteq m.todo
      /\ \A i \in DOMAIN m.view : inc[i].type = "incident" /\ inc[i].closed => inc[i].comps \cap m.todo = {}
  BY <1>0, <1>m, <1>t DEF Placed, Sharing
<1>6. ASSUME DOMAIN n.view = DOMAIN m.view,
             \A i \in Incidents' : i \in Incidents /\ inc'[i].comps \subseteq inc[i].comps
                                   /\ (i # t => c \notin inc'[i].comps),
             \A i \in DOMAIN n.view : inc'[i].type = "incident" /\ inc'[i].closed => inc'[i].comps \cap n.todo = {}
      PROVE  Placed(h)'
  <2>1. ASSUME NEW i \in Incidents', NEW j \in Incidents', Share(i, j)'
        PROVE  n.new \in {i, j} /\ inc'[i].comps \cap inc'[j].comps \subseteq n.todo
    <3>1. /\ i \in Incidents /\ j \in Incidents /\ Share(i, j)
          /\ inc'[i].comps \cap inc'[j].comps \subseteq inc[i].comps \cap inc[j].comps
      BY <1>6, <2>1, SharesLess
    <3>2. t \in {i, j} /\ inc[i].comps \cap inc[j].comps \subseteq m.todo
      BY <1>5, <3>1
    <3>3. i # j
      BY <2>1 DEF Share
    <3>4. c \notin inc'[i].comps \cap inc'[j].comps
      BY <1>6, <3>2, <3>3
    <3> QED BY <1>3, <3>1, <3>2, <3>4
  <2>2. Sharing(h)'
    BY <1>2, <1>3, <1>6, <2>1 DEF Sharing
  <2> QED BY <1>3, <2>2 DEF Placed
<1>7. CASE Holders(m, c) = {} /\ n.view = m.view /\ UNCHANGED inc
  <2>1. ASSUME NEW i \in Incidents, i # t PROVE c \notin inc[i].comps
    <3>1. i \in DOMAIN m.view /\ inc[i].type = "incident"
      BY <1>4 DEF Incidents
    <3>2. m.view[i] = inc[i]
      BY <1>4, <3>1 DEF Fresh
    <3>3. i \notin Holders(m, c)
      BY <1>7
    <3> QED BY <1>t, <2>1, <3>1, <3>2, <3>3 DEF Holders
  <2>2. Incidents' = Incidents
    BY <1>7 DEF Incidents, Active
  <2> QED BY <1>3, <1>5, <1>6, <1>7, <2>1, <2>2
<1>8. ASSUME NEW i \in DOMAIN m.view, RelocatedFrom(m, c, i, n) PROVE Placed(h)'
  <2>0. MovedRows(m, c, i, n) /\ DOMAIN n.view = DOMAIN m.view
    <3>1. RelocatedFrom(m, c, i, n)
      BY <1>8
    <3> QED BY <1>0, <1>4, <3>1, RelocatedRows DEF RelocatedFrom
  <2>1. /\ t \in DOMAIN inc /\ i \in DOMAIN inc /\ t # i /\ DOMAIN inc' = DOMAIN inc
        /\ inc[t].type = "incident" /\ inc[i].type = "incident" /\ c \in inc[i].comps
        /\ inc'[t] = MovedTo(inc[t], {c})
        /\ inc'[i] = MovedFrom(inc[i], {c}, CloseSource(inc[i]))
        /\ \A j \in DOMAIN inc : j # t /\ j # i => inc'[j] = inc[j]
    BY <1>t, <2>0 DEF MovedRows
  <2>2. inc[t] \in Event /\ inc[i] \in Event
    BY <1>0, <2>1, Rows DEF TypeOK
  <2>3. inc'[t].comps = inc[t].comps /\ inc'[t].closed = inc[t].closed
    <3>1. inc[t].comps \cup {c} = inc[t].comps
      BY <1>1, <1>4
    <3> QED BY <2>1, <2>2, <3>1 DEF MovedTo, Event
  <2>4. /\ inc'[i].comps \subseteq inc[i].comps /\ (inc[i].closed => inc'[i].closed)
        /\ inc'[i].closed \/ c \notin inc'[i].comps
    <3>1. CloseSource(inc[i]) \in BOOLEAN
      BY DEF CloseSource
    <3>2. PICK a : a = MovedFrom(inc[i], {c}, CloseSource(inc[i]))
      OBVIOUS
    <3>3. a.comps \subseteq inc[i].comps /\ (inc[i].closed => a.closed) /\ (a.closed \/ a.comps \cap {c} = {})
      BY <2>2, <3>1, <3>2, SourceLeft
    <3> QED BY <2>1, <3>2, <3>3
  <2>5. i \in Incidents
    <3>1. ~inc[i].closed
      BY <1>1, <1>5, <2>1
    <3> QED BY <2>1, <3>1 DEF Incidents, Active
  <2>6. ASSUME NEW j \in Incidents'
        PROVE  j \in Incidents /\ inc'[j].comps \subseteq inc[j].comps /\ (j # t => c \notin inc'[j].comps)
    <3>1. j \in Incidents /\ inc'[j].comps \subseteq inc[j].comps
      BY <2>1, <2>3, <2>4, <2>5, <2>6 DEF Incidents, Active
    <3>2. j # t /\ j # i => c \notin inc[j].comps
      <4> SUFFICES ASSUME j # t, j # i, c \in inc[j].comps PROVE FALSE
        OBVIOUS
      <4>1. Share(i, j)
        BY <2>1 DEF Share
      <4> QED BY <1>5, <2>1, <2>5, <3>1, <4>1
    <3>3. j = i => c \notin inc'[j].comps
      BY <2>4, <2>6 DEF Incidents, Active
    <3> QED BY <3>1, <3>2, <3>3
  <2>7. ASSUME NEW j \in DOMAIN n.view, inc'[j].type = "incident", inc'[j].closed
        PROVE  inc'[j].comps \cap n.todo = {}
    <3>1. j \in DOMAIN m.view /\ j \in DOMAIN inc
      BY <1>0, <2>0, <2>7 DEF RequestOK
    <3>2. CASE j # i
      <4>1. inc[j].type = "incident" /\ inc[j].closed /\ inc'[j].comps = inc[j].comps
        BY <2>1, <2>3, <2>7, <3>1, <3>2
      <4> QED BY <1>3, <1>5, <3>1, <4>1
    <3>3. CASE j = i
      <4>1. ~inc[i].closed
        BY <2>5 DEF Incidents, Active
      <4>2. CloseSource(inc[i])
        <5> SUFFICES ASSUME ~CloseSource(inc[i]) PROVE FALSE
          OBVIOUS
        <5>1. inc'[i] = [inc[i] EXCEPT !.comps = inc[i].comps \ {c}]
          BY <2>1 DEF MovedFrom
        <5>2. inc'[i].closed = inc[i].closed
          BY <2>2, <5>1 DEF Event
        <5> QED BY <2>7, <3>3, <4>1, <5>2
      <4>3. IsFiniteSet(inc[i].comps)
        BY <2>2, IncidentsAssumption, FS_Subset DEF Event
      <4>4. inc[i].comps = {c}
        BY <2>1, <4>2, <4>3, FS_Singleton DEF CloseSource
      <4> QED BY <1>3, <2>4, <3>3, <4>4
    <3> QED BY <3>2, <3>3
  <2> QED BY <1>6, <2>0, <2>6, <2>7
<1> QED BY <1>2, <1>7, <1>8 DEF Relocated

LEMMA CompletePlaces ==
  ASSUME WriteInv, NEW h \in Handler, Complete(h) \/ Respond(h), Placed(h)
  PROVE  Placed(h)'
<1>1. UNCHANGED inc /\ pc'[h] \in {"respond", "idle"}
  BY DEF Complete, Respond, Finish, Go, WriteInv, TypeOK
<1>2. NoShare
  <2>1. CASE pc[h] = "relocate"
    <3>1. mem[h].todo = {}
      BY <2>1 DEF Complete, Respond
    <3>2. \A i, j \in Incidents : Share(i, j) => inc[i].comps \cap inc[j].comps \subseteq {}
      BY <2>1, <3>1 DEF Placed, Sharing
    <3> QED BY <3>2 DEF NoShare, Share
  <2>2. CASE pc[h] # "relocate"
    BY <2>2 DEF Complete, Respond, Placed
  <2> QED BY <2>1, <2>2
<1>3. NoShare'
  BY <1>1, <1>2 DEF NoShare, Share, Incidents, Active
<1> QED BY <1>1, <1>3 DEF Placed, Sharing

LEMMA ServesPlaces ==
  ASSUME WriteInv, NEW h \in Handler, Serves(h), SerialStep(h), Placed(h), pc[h] # "reopen",
         pc[h] = "patch" => mem[h].status # "reopened"
  PROVE  Placed(h)'
<1>1. ~ReOpenIncident(h)
  BY DEF ReOpenIncident
<1>2. ModifyIncident(h) => mem[h].status # "reopened"
  BY DEF ModifyIncident
<1> QED BY <1>1, <1>2, ProcessSystemPlaces, FindTargetPlaces, AddComponentPlaces, CreateSystemPlaces, MovePlaces,
  IncreasePlaces, ExtractSavePlaces, ExtractTxPlaces, MarkSystemPlaces, CreateRegularPlaces, RelocatePlaces,
  PatchPlaces, CompletePlaces DEF Serves

LEMMA StartsPlaces ==
  ASSUME WriteInv, NEW h \in Handler, Starts(h), NoShare, "extract" \notin Ops
  PROVE  Placed(h)'
<1>1. PICK n : Started(h, n)
  BY StartIs
<1>2. UNCHANGED inc /\ mem'[h] = n /\ pc'[h] \in {"next", "open", "patch"} /\ TypeOK
  BY <1>1 DEF Started, WriteInv
<1>3. NoShare'
  BY <1>2 DEF NoShare, Share, Incidents, Active
<1>4. pc'[h] = "open" => \A i \in DOMAIN n.view : ~inc[i].closed
  <2>1. pc'[h] = "open" => n.view = Copies(Active)
    BY <1>1 DEF Started
  <2>2. DOMAIN Copies(Active) = Active
    BY DEF Copies
  <2> QED BY <2>1, <2>2 DEF Active
<1>5. Sharing(h)'
  BY <1>2, <1>4 DEF Sharing
<1> QED BY <1>3, <1>5 DEF Placed

LEMMA EndPlaces ==
  ASSUME WriteInv, NEW i \in DOMAIN inc, EndMaintenance(i)
  PROVE  (NoShare => NoShare') /\ \A h \in Handler : Sharing(h) => Sharing(h)'
<1>0. /\ DOMAIN inc' = DOMAIN inc /\ inc[i].type = "maintenance"
      /\ \A j \in DOMAIN inc : inc'[j].type = inc[j].type
      /\ \A j \in DOMAIN inc : j # i => inc'[j] = inc[j]
      /\ UNCHANGED <<pc, mem>>
  BY EndIs DEF WriteInv, EndMaintenance
<1>1. \A j \in DOMAIN inc : inc[j].type = "incident" => inc'[j] = inc[j]
  BY <1>0
<1>2. Incidents' = Incidents /\ \A j \in Incidents : inc'[j] = inc[j]
  BY <1>0, <1>1 DEF Incidents, Active
<1>3. \A j, k \in Incidents : Share(j, k)' <=> Share(j, k)
  BY <1>2 DEF Share
<1>4. NoShare => NoShare'
  BY <1>2, <1>3 DEF NoShare
<1>5. ASSUME NEW h \in Handler, Sharing(h) PROVE Sharing(h)'
  <2>1. Targets(h) /\ DOMAIN mem[h].view \subseteq DOMAIN inc
    BY DEF WriteInv, TypeOK, RequestOK
  <2>2. pc[h] \in {"move", "raise", "extract", "extract_tx"} \/ (pc[h] = "target" /\ mem[h].old # 0)
          => inc'[mem[h].old] = inc[mem[h].old]
    BY <1>1, <2>1 DEF Targets, HasCopy
  <2>3. \A j \in DOMAIN mem[h].view : inc'[j].type = "incident" => inc[j].type = "incident" /\ inc'[j] = inc[j]
    BY <1>0, <1>1, <2>1
  <2> QED BY <1>0, <1>2, <1>3, <1>5, <2>2, <2>3 DEF Sharing
<1> QED BY <1>4, <1>5

(* No handler is about to reopen an incident or extracts on request. *)
LEMMA OpKept ==
  ASSUME WriteInv, NEW h \in Handler, Serves(h), mem[h].op # "extract",
         pc[h] = "patch" => mem[h].status # "reopened"
  PROVE  mem'[h].op # "extract" /\ pc'[h] \notin {"patch", "reopen"}
<1>m. PICK m : m = mem[h]
  OBVIOUS
<1>0. DOMAIN m = DOMAIN NoRequest /\ RequestOK(m) /\ DOMAIN mem = Handler /\ DOMAIN pc = Handler
  BY <1>m DEF WriteInv, TypeOK, RequestOK
<1>1. \A i : Answer(m, i).op = m.op
  BY <1>0, AnswerIs
<1>2. CASE ProcessSystem(h)
  <2>1. PICK c \in m.todo : \E n : Processed(h, c, n)
    BY <1>2, <1>m, ProcessSystemIs
  <2>2. PICK n : Processed(h, c, n)
    BY <2>1
  <2>s. PICK s : s = Serving(m, c)
    OBVIOUS
  <2>3. s.op = m.op /\ DOMAIN s = DOMAIN NoRequest
    BY <1>0, <2>1, <2>s, ServingIs DEF RequestOK
  <2>4. \A i : Answer(s, i).op = m.op /\ DOMAIN Answer(s, i) = DOMAIN NoRequest
    BY <2>3, AnswerIs
  <2>5. n.op = m.op
    <3>1. CASE \E i \in StopsOf(c) : n = [Answer(s, i) EXCEPT !.err = @ \cup
                                            IF inc[i].type = "maintenance" THEN {c} ELSE {}]
      <4>1. PICK i \in StopsOf(c) : n = [Answer(s, i) EXCEPT !.err = @ \cup
                                            IF inc[i].type = "maintenance" THEN {c} ELSE {}]
        BY <3>1
      <4>2. PICK a : a = Answer(s, i)
        OBVIOUS
      <4>3. n.op = a.op
        BY <2>4, <4>1, <4>2, Fields
      <4> QED BY <2>4, <4>2, <4>3
    <3>2. CASE n = s
      BY <2>3, <3>2
    <3>3. CASE \E i \in EventsOf(c) : n = Answer(s, i)
      BY <2>4, <3>3
    <3>4. CASE \E i \in EventsOf(c) : n = [s EXCEPT !.old = i, !.view = Copies({i})]
      BY <2>3, <3>4, Fields
    <3> QED BY <1>m, <2>2, <2>s, <3>1, <3>2, <3>3, <3>4 DEF Processed
  <2>6. mem'[h] = n /\ pc'[h] \in {"next", "target"}
    BY <1>0, <1>2, <2>2 DEF Processed, Go, ProcessSystem
  <2> QED BY <1>m, <2>5, <2>6
<1>3. CASE FindTarget(h)
  <2>1. mem'[h].op = m.op /\ pc'[h] \in {"add", "move", "create", "raise", "extract"}
    <3>1. PICK n :
              /\ mem'[h] = n /\ n.op = mem[h].op
              /\ \/ pc'[h] = IF mem[h].old = 0 THEN "add" ELSE "move"
                 \/ pc'[h] = IF mem[h].old = 0 THEN "create"
                             ELSE IF Cardinality(mem[h].view[mem[h].old].comps) = 1 THEN "raise"
                             ELSE "extract"
      BY <1>3, FindTargetIs DEF TargetFound
    <3> QED BY <1>m, <3>1
  <2> QED BY <1>m, <2>1
<1>4. CASE AddComponentToIncident(h) \/ CreateSystem(h) \/ MoveComponent(h) \/ IncreaseIncidentImpact(h) \/ MarkSystem(h)
  <2>1. \/ pc'[h] = "next" /\ \E i : mem'[h] = Answer(m, i)
        \/ pc'[h] = "idle" /\ mem'[h] = NoRequest
    BY <1>0, <1>4, <1>m DEF AddComponentToIncident, CreateSystem, MoveComponent, IncreaseIncidentImpact, MarkSystem,
      Finish, Go
  <2>2. NoRequest.op # "extract"
    BY DEF NoRequest
  <2> QED BY <1>1, <1>m, <2>1, <2>2
<1>5. CASE ExtractSave(h)
  <2>1. PICK n : mem'[h] = n /\ n.op = m.op
    BY <1>5, <1>m, ExtractSaveIs
  <2>2. pc'[h] = "extract_tx"
    BY <1>5, ExtractSaveIs
  <2> QED BY <1>m, <2>1, <2>2
<1>6. CASE ExtractTx(h)
  <2>1. /\ mem'[h] = IF m.op = "system" THEN m ELSE Answer(m, m.new)
        /\ pc'[h] = IF m.op = "system" THEN "mark" ELSE "respond"
    BY <1>6, <1>m, ExtractTxIs
  <2> QED BY <1>1, <1>m, <2>1
<1>7. CASE CreateRegular(h)
  <2>1. PICK n : mem'[h] = n /\ n.op = m.op
    BY <1>7, <1>m, CreateRegularIs
  <2>2. pc'[h] = "relocate"
    BY <1>7, CreateRegularIs
  <2> QED BY <1>m, <2>1, <2>2
<1>8. CASE Relocate(h)
  <2>1. PICK c \in m.todo : \E n : mem'[h] = n /\ Relocated(m, c, n)
    BY <1>8, <1>m, RelocateIs
  <2>2. mem'[h].op = m.op /\ pc'[h] = "relocate"
    BY <1>8, <2>1, RelocateIs DEF Relocated
  <2> QED BY <1>m, <2>2
<1>9. CASE ModifyIncident(h) \/ ReOpenIncident(h) \/ Complete(h)
  BY <1>0, <1>9 DEF ModifyIncident, ReOpenIncident, Complete, Go
<1>10. CASE Respond(h)
  <2>1. mem'[h] = NoRequest /\ pc'[h] = "idle"
    BY <1>0, <1>10 DEF Respond, Finish, Go
  <2>2. NoRequest.op # "extract"
    BY DEF NoRequest
  <2> QED BY <2>1, <2>2
<1> QED BY <1>2, <1>3, <1>4, <1>5, <1>6, <1>7, <1>8, <1>9, <1>10 DEF Serves

\* The part of PlaceInv about a handler, whether or not requests overlap.
NotReopening(h) ==
  pc[h] # "reopen" /\ mem[h].op # "extract" /\ (pc[h] = "patch" => mem[h].status # "reopened")

LEMMA ReopeningNever ==
  ASSUME "extract" \notin Ops, "reopened" \notin PatchStatus, WriteInv, [Next]_vars,
         \A h \in Handler : NotReopening(h)
  PROVE  \A h \in Handler : NotReopening(h)'
<1>1. ASSUME NEW h \in Handler, Starts(h) \/ Serves(h) \/ Fail(h), NEW g \in Handler PROVE NotReopening(g)'
  <2>1. CASE g # h
    <3>1. mem'[g] = mem[g] /\ pc'[g] = pc[g]
      BY <1>1, <2>1, HandlerKeeps DEF KeptBy, OthersKept
    <3> QED BY <3>1 DEF NotReopening
  <2>2. CASE g = h /\ Starts(h)
    <3>1. PICK n : Started(h, n)
      BY <2>2, StartIs
    <3> QED BY <2>2, <3>1 DEF Started, NotReopening
  <2>3. CASE g = h /\ Serves(h)
    <3>1. mem'[h].op # "extract" /\ pc'[h] \notin {"patch", "reopen"}
      BY <2>3, OpKept DEF NotReopening
    <3> QED BY <2>3, <3>1 DEF NotReopening
  <2>4. CASE g = h /\ Fail(h)
    <3>1. mem'[h] = NoRequest /\ pc'[h] = "idle"
      BY <2>4 DEF Fail, Finish, Go, WriteInv, TypeOK
    <3>2. NoRequest.op # "extract"
      BY DEF NoRequest
    <3> QED BY <2>4, <3>1, <3>2 DEF NotReopening
  <2> QED BY <1>1, <2>1, <2>2, <2>3, <2>4
<1>2. ASSUME NEW i \in DOMAIN inc, EndMaintenance(i), NEW g \in Handler PROVE NotReopening(g)'
  BY <1>2 DEF EndMaintenance, NotReopening
<1>3. ASSUME UNCHANGED vars, NEW g \in Handler PROVE NotReopening(g)'
  BY <1>3 DEF NotReopening
<1> QED BY <1>1, <1>2, <1>3, NextIs

LEMMA PlaceKept ==
  ASSUME "extract" \notin Ops, "reopened" \notin PatchStatus
  PROVE  WriteInv /\ SerialInv /\ PlaceInv /\ [Next]_vars => PlaceInv'
<1> SUFFICES ASSUME WriteInv, SerialInv, PlaceInv, [Next]_vars PROVE PlaceInv'
  OBVIOUS
<1> DEFINE Moving == \E h \in Handler : pc[h] \in {"extract_tx", "relocate"}
           Shared == (\A h \in Handler : pc[h] # "idle" => Sharing(h)) /\ (Moving \/ NoShare)
<1>0. TypeOK /\ overlaps \in Nat /\ fails \in Nat /\ overlaps' \in Nat /\ fails' \in Nat
  BY WriteKept DEF WriteInv, TypeOK
<1>1. (\A h \in Handler : NotReopening(h)) /\ (Serial => Shared)
  BY DEF PlaceInv, NotReopening, NoShare
<1>2. \A h \in Handler : NotReopening(h)'
  BY <1>1, ReopeningNever
<1>3. ASSUME NEW h \in Handler, Starts(h) \/ Serves(h) \/ Fail(h), Serial' PROVE Shared'
  <2>1. OthersKept(h)
    BY <1>3, HandlerKeeps DEF KeptBy
  <2>2. ~Fail(h)
    <3> SUFFICES ASSUME Fail(h) PROVE FALSE
      OBVIOUS
    <3>1. fails' = fails + 1
      BY DEF Fail
    <3>2. overlaps' + fails' = 0
      BY <1>3 DEF Serial
    <3>3. \A x, y \in Nat : x + (y + 1) # 0
      OBVIOUS
    <3> QED BY <1>0, <3>1, <3>2, <3>3
  <2>3. CASE Starts(h)
    <3>1. overlaps' = (IF \A f \in Handler : pc[f] = "idle" THEN overlaps ELSE overlaps + 1) /\ fails' = fails
      BY <1>0, <2>3, Counted
    <3>2. (\A f \in Handler : pc[f] = "idle") /\ Serial
      BY <1>0, <1>3, <3>1 DEF Serial
    <3>3. \A f \in Handler : f # h => pc'[f] = "idle"
      BY <2>1, <3>2 DEF OthersKept
    <3>4. NoShare
      BY <1>1, <3>2
    <3>5. Placed(h)'
      BY <2>3, <3>4, StartsPlaces
    <3> QED BY <3>3, <3>5 DEF Placed
  <2>4. CASE Serves(h)
    <3>1. Serial /\ pc[h] # "idle"
      BY <1>0, <1>3, <2>4, Counted DEF Serial
    <3>2. (\A f \in Handler \ {h} : pc[f] = "idle") /\ SerialStep(h)
      BY <3>1 DEF SerialInv
    <3>3. \A f \in Handler : f # h => pc'[f] = "idle"
      BY <2>1, <3>2 DEF OthersKept
    <3>4. Placed(h)
      BY <1>1, <3>1, <3>2 DEF Placed
    <3>5. pc[h] # "reopen" /\ (pc[h] = "patch" => mem[h].status # "reopened")
      BY <1>1 DEF NotReopening
    <3>6. Placed(h)'
      BY <2>4, <3>2, <3>4, <3>5, ServesPlaces
    <3> QED BY <3>3, <3>6 DEF Placed
  <2> QED BY <1>3, <2>2, <2>3, <2>4
<1>4. ASSUME NEW i \in DOMAIN inc, EndMaintenance(i), Serial' PROVE Shared'
  <2>1. UNCHANGED <<pc, mem, overlaps, fails>>
    BY <1>4 DEF EndMaintenance
  <2>2. Shared
    BY <1>1, <1>4, <2>1 DEF Serial
  <2>3. (NoShare => NoShare') /\ \A h \in Handler : Sharing(h) => Sharing(h)'
    BY <1>4, EndPlaces
  <2> QED BY <2>1, <2>2, <2>3
<1>5. ASSUME UNCHANGED vars, Serial' PROVE Shared'
  <2>1. Shared
    BY <1>1, <1>5 DEF Serial
  <2>2. (NoShare => NoShare') /\ \A h \in Handler : Sharing(h) => Sharing(h)'
    BY <1>5 DEF NoShare, Sharing, Share, Incidents, Active
  <2> QED BY <1>5, <2>1, <2>2
<1>6. Serial' => Shared'
  BY <1>3, <1>4, <1>5, NextIs
<1> QED BY <1>2, <1>6 DEF PlaceInv, NotReopening, NoShare

(* Served one at a time and to the end, creations, reports of the system and patches *)
(* leave a component in at most one open incident, over any sequence of them, as     *)
(* long as nobody extracts components or reopens an incident, which may put one in   *)
(* a second place.                                                                   *)
THEOREM OnePlaceEach ==
  ASSUME "extract" \notin Ops, "reopened" \notin PatchStatus
  PROVE  Spec => []OnePlace
<1>1. Init => PlaceInv
  <2> SUFFICES ASSUME Init PROVE PlaceInv
    OBVIOUS
  <2>1. DOMAIN <<>> = {}
    OBVIOUS
  <2>2. Incidents = {}
    BY <2>1 DEF Init, Incidents, Active
  <2>3. NoRequest.op # "extract"
    BY DEF NoRequest
  <2> QED BY <2>2, <2>3 DEF Init, PlaceInv
<1>2. PlaceInv => OnePlace
  BY DEF PlaceInv, OnePlace, Serial, Share
<1>3. Spec => []PlaceInv
  BY <1>1, PlaceKept, WritesSound, SerialSound, PTL DEF Spec
<1> QED BY <1>2, <1>3, PTL

=============================================================================
