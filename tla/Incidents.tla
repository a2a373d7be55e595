----------------------------- MODULE Incidents -----------------------------
(***************************************************************************)
(* Incidents and the components they cover: POST /v2/events for regular    *)
(* events and system incidents, POST /v2/events/:id/extract and            *)
(* PATCH /v2/events/:id on incidents (internal/api/v2/v2.go) over the      *)
(* statements of internal/db/db.go and write.go.                           *)
(*                                                                         *)
(* A request is a sequence of reads and short transactions.  Between them  *)
(* it carries copies of incidents in memory (view) and writes them back in *)
(* full (saveIncidentFull) or in part (modifyIncident, applyIncidentPatch, *)
(* which skip empty fields).  Unlike a maintenance, an incident is written *)
(* without a look at its version, except by AddComponentToIncident.  Other *)
(* requests interleave, and a request may fail after any of its steps.     *)
(*                                                                         *)
(* Incident ids are positions in inc.  An incident is open while its       *)
(* end_date is NULL; an end_date is taken to lie in the past once set.  A  *)
(* maintenance is one that has started; EndMaintenance is its end_date.    *)
(***************************************************************************)
EXTENDS Integers, Sequences, FiniteSets, FiniteSetsExt

CONSTANTS
  Handler,        \* request goroutines
  Component,
  Impact,         \* impacts of incidents, 1..3
  Ops,            \* bound: requests sent: "system", "regular", "maintenance", "extract", "patch"
  PatchStatus,    \* bound: statuses patched
  ClientVersions, \* bound: versions clients send with a PATCH; the code takes any integer
  MaxIncidents,   \* bound: rows of the incident table
  MaxRequests,    \* bound: requests,
  MaxOverlaps,    \* and those accepted while another is being served
  MaxFails        \* bound: failed requests

OpenStatus == {"detected", "analysing", "fixing", "impact changed", "observing", "resolved"}
ClosedStatus == {"reopened", "changed"}

ASSUME IncidentsAssumption ==
  /\ Impact \subseteq 1..3
  /\ PatchStatus \subseteq OpenStatus \cup ClosedStatus
  /\ ClientVersions \subseteq Int /\ MaxIncidents \in Nat /\ MaxRequests \in Nat
  /\ MaxOverlaps \in Nat /\ MaxFails \in Nat
  /\ IsFiniteSet(Component)

VARIABLES
  inc,       \* the incident table
  pc, mem,   \* a handler's control state and the request in memory
  requests, overlaps, fails

budget == <<requests, overlaps, fails>>
vars == <<inc, pc, mem, budget>>

Id == 1..MaxIncidents

\* A request: components still to do, the one in work, requested impact and
\* status, copies of incidents, source and target, whether to close the source,
\* and the response: an incident per component, and those with an error.
NoRequest == [op |-> "", todo |-> {}, comp |-> {}, impact |-> 0, status |-> "", view |-> <<>>,
              old |-> 0, new |-> 0, close |-> FALSE, res |-> <<>>, err |-> {}]

Init ==
  /\ inc = <<>>
  /\ pc = [h \in Handler |-> "idle"]
  /\ mem = [h \in Handler |-> NoRequest]
  /\ requests = 0 /\ overlaps = 0 /\ fails = 0

-----------------------------------------------------------------------------
(* Tables and copies *)

\* applyEventsFilters and GetEventsByComponentID with IsActive
Active == {i \in DOMAIN inc : ~inc[i].closed}
Incidents == {i \in Active : inc[i].type = "incident"}

\* f with g put over it
Put(f, g) == [x \in DOMAIN f \cup DOMAIN g |-> IF x \in DOMAIN g THEN g[x] ELSE f[x]]
One(x, y) == [z \in {x} |-> y]
Copies(S) == [i \in S |-> inc[i]]

Go(h, step) == pc' = [pc EXCEPT ![h] = step]
Answer(m, i) == [m EXCEPT !.res = Put(@, [c \in m.comp |-> i])]

Accept(h, op) ==
  /\ pc[h] = "idle" /\ op \in Ops /\ requests < MaxRequests
  /\ requests' = requests + 1
  /\ overlaps' = IF \A g \in Handler : pc[g] = "idle" THEN overlaps ELSE overlaps + 1
  /\ overlaps' <= MaxOverlaps
Finish(h) == mem' = [mem EXCEPT ![h] = NoRequest] /\ Go(h, "idle")

-----------------------------------------------------------------------------
(* System incidents *)

PostSystem(h) ==
  /\ Accept(h, "system")
  /\ \E C \in SUBSET Component \ {{}}, k \in Impact :
       mem' = [mem EXCEPT ![h] = [NoRequest EXCEPT !.op = "system", !.todo = C, !.impact = k]]
  /\ Go(h, "next")
  /\ UNCHANGED <<inc, fails>>

\* processSystemIncidentComponent, handleComponentWithExistingEvents and
\* handleSystemIncidentWithImpactComparison: the active events of the component
\* in id order; the walk ends at the first maintenance or non-system incident.
ProcessSystem(h) ==
  /\ pc[h] = "next" /\ mem[h].todo # {}
  /\ \E c \in mem[h].todo :
       LET m == [mem[h] EXCEPT !.todo = @ \ {c}, !.comp = {c}, !.old = 0, !.new = 0, !.view = <<>>]
           events == {i \in Active : c \in inc[i].comps}
           stops == {i \in events : inc[i].type = "maintenance" \/ ~inc[i].system}
       IN \/ /\ stops # {}
             /\ LET i == Min(stops)
                    e == IF inc[i].type = "maintenance" THEN {c} ELSE {}
                IN mem' = [mem EXCEPT ![h] = [Answer(m, i) EXCEPT !.err = @ \cup e]]
             /\ UNCHANGED pc
          \/ /\ stops = {} /\ events = {}
             /\ mem' = [mem EXCEPT ![h] = m] /\ Go(h, "target")
          \/ /\ stops = {} /\ events # {} /\ inc[Min(events)].impact >= m.impact
             /\ mem' = [mem EXCEPT ![h] = Answer(m, Min(events))]
             /\ UNCHANGED pc
          \/ /\ stops = {} /\ events # {} /\ inc[Min(events)].impact < m.impact
             /\ mem' = [mem EXCEPT ![h] = [m EXCEPT !.old = Min(events),
                                                    !.view = Copies({Min(events)})]]
             /\ Go(h, "target")
  /\ UNCHANGED <<inc, budget>>

\* addComponentToSystemIncident and moveComponentFromToSystemIncidents up to their
\* writes.  The active system incidents come in start_date order: any may be first.
\* closeOld looks at the components of the target.
FindTarget(h) ==
  LET m == mem[h]
      targets == {i \in Incidents : inc[i].system /\ inc[i].impact = m.impact}
  IN /\ pc[h] = "target"
     /\ \/ \E t \in targets :
             /\ mem' = [mem EXCEPT ![h].new = t, ![h].view = Put(Copies({t}), m.view),
                                   ![h].close = Cardinality(inc[t].comps) = 1]
             /\ Go(h, IF m.old = 0 THEN "add" ELSE "move")
        \/ /\ targets = {} /\ UNCHANGED mem
           /\ Go(h, IF m.old = 0 THEN "create"
                    ELSE IF Cardinality(m.view[m.old].comps) = 1 THEN "raise" ELSE "extract")
     /\ UNCHANGED <<inc, budget>>

\* AddComponentToIncident, the one write of an incident under its version.  A
\* conflict, or a join row that is already there, fails the request.
AddComponentToIncident(h) ==
  LET m == mem[h]
  IN /\ pc[h] = "add"
     /\ \/ /\ inc[m.new].version = m.view[m.new].version /\ m.comp \cap inc[m.new].comps = {}
           /\ inc' = [inc EXCEPT ![m.new].comps = @ \cup m.comp, ![m.new].version = @ + 1]
           /\ mem' = [mem EXCEPT ![h] = Answer(m, m.new)] /\ Go(h, "next")
        \/ /\ \/ inc[m.new].version # m.view[m.new].version
              \/ m.comp \subseteq inc[m.new].comps
           /\ Finish(h) /\ UNCHANGED inc
     /\ UNCHANGED budget

\* createEvent: saved as version 1, raised to 2 with the initial status.
NewEvent(type, system, impact, comps) ==
  [type |-> type, system |-> system, impact |-> impact, comps |-> comps, closed |-> FALSE,
   version |-> 2, status |-> IF type = "incident" THEN "detected" ELSE "planned"]

CreateSystem(h) ==
  /\ pc[h] = "create" /\ Len(inc) < MaxIncidents
  /\ inc' = Append(inc, NewEvent("incident", TRUE, mem[h].impact, mem[h].comp))
  /\ mem' = [mem EXCEPT ![h] = Answer(mem[h], Len(inc) + 1)] /\ Go(h, "next")
  /\ UNCHANGED budget

\* IncreaseIncidentImpact: the row from the copy, empty fields left alone, the
\* components not at all.
IncreaseIncidentImpact(h) ==
  LET m == mem[h]  c == m.view[m.old]
  IN /\ pc[h] = "raise"
     /\ inc' = [inc EXCEPT ![m.old].impact = m.impact, ![m.old].status = c.status,
                           ![m.old].version = c.version]
     /\ mem' = [mem EXCEPT ![h] = Answer(m, m.old)] /\ Go(h, "next")
     /\ UNCHANGED budget

\* The extracted incident becomes a system incident (ModifyIncident).
MarkSystem(h) ==
  LET m == mem[h]  c == m.view[m.new]
  IN /\ pc[h] = "mark"
     /\ inc' = [inc EXCEPT ![m.new].system = TRUE, ![m.new].version = c.version + 1,
                           ![m.new].status = c.status, ![m.new].impact = c.impact]
     /\ mem' = [mem EXCEPT ![h] = Answer(m, m.new)] /\ Go(h, "next")
     /\ UNCHANGED budget

-----------------------------------------------------------------------------
(* Moving components *)

\* Faulty variant: the full save puts back the join row just deleted
\* (dropIncidentComponent is forgotten).
MovedFromKept(a, comp, close) ==
  IF close THEN [a EXCEPT !.closed = TRUE, !.status = "resolved"] ELSE a

\* Faulty variant: the component is not added to the target's copy.
MovedToSame(b, comp) == b

\* MoveComponentFromOldToAnotherIncident on the copies a and b of source and
\* target: a closed source keeps the component.
MovedFrom(a, comp, close) ==
  IF close THEN [a EXCEPT !.closed = TRUE, !.status = "resolved"]
           ELSE [a EXCEPT !.comps = @ \ comp]
MovedTo(b, comp) == [b EXCEPT !.comps = @ \cup comp]

\* saveIncidentFull of the target, then of the source, in one transaction: every
\* column and the component list become those of the copy.
SaveBoth(new, b, old, a) == inc' = [[inc EXCEPT ![new] = b] EXCEPT ![old] = a]

MoveComponent(h) ==
  LET m == mem[h]
  IN /\ pc[h] = "move"
     /\ SaveBoth(m.new, MovedTo(m.view[m.new], m.comp),
                 m.old, MovedFrom(m.view[m.old], m.comp, m.close))
     /\ mem' = [mem EXCEPT ![h] = Answer(m, m.new)] /\ Go(h, "next")
     /\ UNCHANGED budget

\* ExtractComponentsToNewIncident: the new incident is saved first, by itself, as
\* a non-system incident of version 1,
ExtractSave(h) ==
  LET m == mem[h]
      n == [type |-> "incident", system |-> FALSE, impact |-> m.impact, comps |-> m.comp,
            closed |-> FALSE, version |-> 1, status |-> "SYSTEM"]
  IN /\ pc[h] = "extract" /\ Len(inc) < MaxIncidents
     /\ inc' = Append(inc, n)
     /\ mem' = [mem EXCEPT ![h].new = Len(inc) + 1, ![h].view = Put(@, One(Len(inc) + 1, n))]
     /\ Go(h, "extract_tx")
     /\ UNCHANGED budget

\* then both are saved in full, the old one without the moved components.
ExtractTx(h) ==
  LET m == mem[h]
  IN /\ pc[h] = "extract_tx"
     /\ SaveBoth(m.new, m.view[m.new], m.old, MovedFrom(m.view[m.old], m.comp, FALSE))
     /\ mem' = [mem EXCEPT ![h] = IF m.op = "system" THEN @ ELSE Answer(m, m.new)]
     /\ Go(h, IF m.op = "system" THEN "mark" ELSE "respond")
     /\ UNCHANGED budget

-----------------------------------------------------------------------------
(* Regular events *)

\* handleRegularIncidentCreation reads the active events, then creates its own.
PostRegular(h, op) ==
  /\ Accept(h, op)
  /\ \E C \in SUBSET Component \ {{}}, k \in IF op = "regular" THEN Impact ELSE {0} :
       mem' = [mem EXCEPT ![h] = [NoRequest EXCEPT !.op = op, !.todo = C, !.comp = C,
                                                   !.impact = k, !.view = Copies(Active)]]
  /\ Go(h, "open")
  /\ UNCHANGED <<inc, fails>>

\* shouldSkipComponentMovement: with nothing open before, or for an event without
\* impact, the response names the new event for every component.
CreateRegular(h) ==
  LET m == mem[h]
      n == NewEvent(IF m.op = "regular" THEN "incident" ELSE "maintenance", FALSE, m.impact, m.todo)
      id == Len(inc) + 1
      skip == m.view = <<>> \/ m.op # "regular"
  IN /\ pc[h] = "open" /\ Len(inc) < MaxIncidents
     /\ inc' = Append(inc, n)
     /\ mem' = [mem EXCEPT ![h] = IF skip THEN [Answer(m, id) EXCEPT !.todo = {}]
                                  ELSE [m EXCEPT !.new = id, !.view = Put(@, One(id, n))]]
     /\ Go(h, "relocate")
     /\ UNCHANGED budget

\* Faulty variant: shouldSkipIncident is forgotten.
HoldersAny(m, c) == {i \in DOMAIN m.view \ {m.new} : c \in m.view[i].comps}

\* shouldSkipIncident, tryMoveComponentIfFound: opened incidents with the component
Holders(m, c) ==
  {i \in DOMAIN m.view \ {m.new} : m.view[i].type = "incident" /\ c \in m.view[i].comps}

\* Faulty variant: the source is closed whenever the component is found.
CloseAlways(a) == TRUE

\* tryMoveComponentIfFound: the source is closed when this was its only component.
CloseSource(a) == Cardinality(a.comps) = 1

\* processComponentInOpenedIncidents: the component leaves the first opened incident
\* that has it, in start_date order.
Relocate(h) ==
  LET m == mem[h]
  IN /\ pc[h] = "relocate" /\ m.todo # {}
     /\ \E c \in m.todo :
          LET n == [m EXCEPT !.todo = @ \ {c}, !.comp = {c}]
          IN \/ /\ Holders(m, c) = {}
                /\ mem' = [mem EXCEPT ![h] = Answer(n, m.new)] /\ UNCHANGED inc
             \/ \E i \in Holders(m, c) :
                  LET a == MovedFrom(m.view[i], {c}, CloseSource(m.view[i]))
                      b == MovedTo(m.view[m.new], {c})
                  IN /\ SaveBoth(m.new, b, i, a)
                     /\ mem' = [mem EXCEPT ![h] = [Answer(n, m.new) EXCEPT
                                                     !.view = Put(@, Put(One(m.new, b), One(i, a)))]]
     /\ UNCHANGED <<pc, budget>>

-----------------------------------------------------------------------------
(* Extract and PATCH *)

\* getComponentsToExtract: some of the stored components, not all of them.  The
\* incident may be closed.
PostExtract(h) ==
  /\ Accept(h, "extract")
  /\ \E i \in DOMAIN inc : \E C \in SUBSET inc[i].comps \ {{}, inc[i].comps} :
       /\ inc[i].type = "incident"
       /\ mem' = [mem EXCEPT ![h] = [NoRequest EXCEPT !.op = "extract", !.comp = C, !.old = i,
                                       !.impact = inc[i].impact, !.view = Copies({i})]]
  /\ Go(h, "extract")
  /\ UNCHANGED <<inc, fails>>

\* checkPatchDataForIncident on the copy read by CheckEventExistenceMW
PatchIncident(h) ==
  /\ Accept(h, "patch")
  /\ \E i \in DOMAIN inc, s \in PatchStatus, k \in Impact :
       /\ inc[i].type = "incident"
       /\ inc[i].closed => s \in ClosedStatus
       /\ k # inc[i].impact => inc[i].closed \/ s = "impact changed"
       /\ mem' = [mem EXCEPT ![h] = [NoRequest EXCEPT !.op = "patch", !.old = i, !.status = s,
                                                      !.impact = k, !.view = Copies({i})]]
  /\ Go(h, "patch")
  /\ UNCHANGED <<inc, fails>>

\* updateFields and modifyIncident: the end_date is set by "resolved", written back
\* when the copy has one, and skipped when it is nil, as after "reopened".  The version
\* written follows the client's, when the request has one, or the copy's.
ModifyIncident(h) ==
  LET m == mem[h]  c == m.view[m.old]
  IN /\ pc[h] = "patch"
     /\ \E v \in {c.version} \cup ClientVersions :
          inc' = [inc EXCEPT ![m.old].status = m.status, ![m.old].impact = m.impact,
                    ![m.old].version = v + 1, ![m.old].system = @ \/ c.system,
                    ![m.old].closed = IF m.status = "resolved" \/ (c.closed /\ m.status # "reopened")
                                      THEN TRUE ELSE @]
     /\ Go(h, IF m.status = "reopened" THEN "reopen" ELSE "respond")
     /\ UNCHANGED <<mem, budget>>

\* ReOpenIncident, a statement of its own after the commit
ReOpenIncident(h) ==
  /\ pc[h] = "reopen"
  /\ inc' = [inc EXCEPT ![mem[h].old].closed = FALSE]
  /\ Go(h, "respond")
  /\ UNCHANGED <<mem, budget>>

-----------------------------------------------------------------------------

\* All components done: the handler answers.
Complete(h) ==
  /\ pc[h] \in {"next", "relocate"} /\ mem[h].todo = {}
  /\ Go(h, "respond")
  /\ UNCHANGED <<inc, mem, budget>>

Respond(h) == pc[h] = "respond" /\ Finish(h) /\ UNCHANGED <<inc, budget>>

\* A database error, a cancelled request or a crash between two steps.
Fail(h) ==
  /\ pc[h] \notin {"idle", "respond"} /\ fails < MaxFails
  /\ fails' = fails + 1
  /\ Finish(h)
  /\ UNCHANGED <<inc, requests, overlaps>>

\* A maintenance reaches its end (the clock and the checker).
EndMaintenance(i) ==
  /\ inc[i].type = "maintenance" /\ ~inc[i].closed
  /\ inc' = [inc EXCEPT ![i].closed = TRUE]
  /\ UNCHANGED <<pc, mem, budget>>

Next ==
  \/ \E h \in Handler :
       \/ PostSystem(h) \/ ProcessSystem(h) \/ FindTarget(h)
       \/ AddComponentToIncident(h) \/ CreateSystem(h) \/ MoveComponent(h)
       \/ IncreaseIncidentImpact(h) \/ ExtractSave(h) \/ ExtractTx(h) \/ MarkSystem(h)
       \/ PostRegular(h, "regular") \/ PostRegular(h, "maintenance")
       \/ CreateRegular(h) \/ Relocate(h)
       \/ PostExtract(h) \/ PatchIncident(h) \/ ModifyIncident(h) \/ ReOpenIncident(h)
       \/ Complete(h) \/ Respond(h) \/ Fail(h)
  \/ \E i \in DOMAIN inc : EndMaintenance(i)

Spec == Init /\ [][Next]_vars

-----------------------------------------------------------------------------
(* Properties *)

Covered(c) == \E i \in Incidents : c \in inc[i].comps

\* Requests are served one at a time and to the end, so far.
Serial == overlaps + fails = 0

\* Nobody resolves an incident and the system reports none.
Calm == "system" \notin Ops /\ "resolved" \notin PatchStatus

\* The step of h takes the coverage of c away on purpose: a PATCH resolves the
\* incident, or the system moves another component from it and closes it, which
\* moveComponentFromToSystemIncidents decides by the one component of the target.
Withdraws(h, c) ==
  LET m == mem[h]
  IN /\ pc'[h] # pc[h] /\ pc[h] \in {"patch", "move"} /\ c \in inc[m.old].comps
     /\ pc[h] = "patch" => m.status = "resolved"
     /\ pc[h] = "move" => c \notin m.comp /\ Cardinality(inc[m.new].comps) = 1

\* A component that an open incident covers stays covered unless a request withdraws
\* it: creating, moving, raising and extracting leave no gap.  Without system reports
\* and resolutions that is so even when requests interleave on stale copies and fail
\* half way, because the new incident is stored before the old one gives the
\* component up; with them, while requests are served one at a time and to the end.
CoverageKept ==
  [][Calm \/ Serial => \A c \in Component :
       Covered(c) => Covered(c)' \/ \E h \in Handler : Withdraws(h, c)]_vars

\* No request on incidents writes a maintenance, not even when it moves components
\* that the maintenance covers as well (shouldSkipIncident); only its end does.
MaintenanceUntouched ==
  [][\A i \in DOMAIN inc : inc[i].type = "maintenance"
       => inc'[i] = inc[i] \/ inc'[i] = [inc[i] EXCEPT !.closed = TRUE]]_vars

\* Served one at a time and to the end, requests leave a component in at most one
\* open incident, over any sequence of creations, moves, raises and closings.
OnePlace ==
  (Serial /\ \A h \in Handler : pc[h] \in {"idle", "respond"}) =>
    \A i, j \in Incidents : inc[i].comps \cap inc[j].comps # {} => i = j

\* Requests served one at a time get a true response (PostIncidentHandler): a
\* component answered without an error is covered by the open incident named, and
\* for a system incident by one that is not the system's or has at least the
\* impact asked for, whatever the later components of the same request did to it.
ResponseTrue ==
  \A h \in Handler : (Serial /\ pc[h] = "respond" /\ mem[h].op # "maintenance") =>
    \A c \in DOMAIN mem[h].res \ mem[h].err :
      LET e == inc[mem[h].res[c]]
      IN /\ ~e.closed /\ c \in e.comps
         /\ mem[h].op = "system" => ~e.system \/ e.impact >= mem[h].impact

-----------------------------------------------------------------------------
(* The inductive invariants behind the properties *)

Statuses == OpenStatus \cup ClosedStatus \cup {"planned", "SYSTEM", ""}
Event == [type : {"incident", "maintenance"}, system : BOOLEAN, impact : 0..3,
          comps : SUBSET Component, closed : BOOLEAN, version : Int, status : Statuses]

Steps == {"idle", "next", "target", "add", "create", "raise", "mark", "move", "extract",
          "extract_tx", "open", "relocate", "patch", "reopen", "respond"}

\* A request in memory: copies are of stored events, with the type they have.
RequestOK(m) ==
  /\ DOMAIN m = DOMAIN NoRequest
  /\ m.todo \subseteq Component /\ m.comp \subseteq Component
  /\ m.impact \in 0..3 /\ m.status \in Statuses /\ m.close \in BOOLEAN
  /\ DOMAIN m.view \subseteq DOMAIN inc
  /\ \A i \in DOMAIN m.view : m.view[i] \in Event /\ m.view[i].type = inc[i].type

TypeOK ==
  /\ inc \in Seq(Event)
  /\ pc \in [Handler -> Steps]
  /\ mem = [h \in Handler |-> mem[h]]
  /\ \A h \in Handler : RequestOK(mem[h])
  /\ requests \in Nat /\ overlaps \in Nat /\ fails \in Nat

\* The incident i is copied in m.
HasCopy(m, i) == i \in DOMAIN m.view /\ inc[i].type = "incident"

\* What a handler is about to write from a copy is an incident.
Targets(h) ==
  LET m == mem[h]
  IN /\ pc[h] = "target" => m.old = 0 \/ HasCopy(m, m.old)
     /\ pc[h] \in {"raise", "move", "extract", "extract_tx", "patch", "reopen"} => HasCopy(m, m.old)
     /\ pc[h] \in {"add", "move", "extract_tx", "mark"} => HasCopy(m, m.new)
     /\ pc[h] = "relocate" /\ m.todo # {} => HasCopy(m, m.new)

WriteInv == TypeOK /\ \A h \in Handler : Targets(h)

\* The copy of every incident in m is what is stored.
Fresh(m) == \A i \in DOMAIN m.view : inc[i].type = "incident" => m.view[i] = inc[i]

\* A request of the system: the source is below the impact asked for, the target
\* at it; the component in work has no answer yet.
SystemStep(h) ==
  LET m == mem[h]
      busy == pc[h] \in {"target", "add", "create", "raise", "mark", "move"}
      extracting == pc[h] \in {"extract", "extract_tx"}
  IN /\ busy \/ pc[h] = "next" => m.op = "system"
     /\ busy \/ extracting => m.comp \cap m.todo = {} /\ (m.comp \cup m.todo) \cap DOMAIN m.res = {}
     /\ pc[h] = "next" => m.todo \cap DOMAIN m.res = {}
     /\ (pc[h] \in {"raise", "move"} \/ (pc[h] = "target" /\ m.old # 0)
          \/ (extracting /\ m.op = "system"))
          => inc[m.old].system /\ inc[m.old].impact < m.impact
     /\ pc[h] \in {"add", "move"} => inc[m.new].system
     /\ pc[h] = "move" /\ m.close => Cardinality(inc[m.new].comps) = 1
     /\ pc[h] \in {"add", "move", "mark", "extract_tx"} =>
          /\ ~inc[m.new].closed /\ inc[m.new].impact = m.impact
          /\ m.view[m.new] = inc[m.new]
     /\ pc[h] \in {"mark", "extract_tx"} => inc[m.new].comps = m.comp
     /\ pc[h] = "extract_tx" => m.new # m.old
     /\ pc[h] = "raise" \/ (pc[h] = "target" /\ m.old # 0)
          => m.comp \subseteq inc[m.old].comps /\ ~inc[m.old].closed

\* A regular request: its own incident is open and covers what is still to do,
\* and all open incidents are copied.
RegularStep(h) ==
  LET m == mem[h]
  IN /\ pc[h] \in {"open", "relocate"} => m.op \in {"regular", "maintenance"}
     /\ pc[h] = "open" => m.res = <<>> /\ m.err = {} /\ m.comp = m.todo
     /\ pc[h] = "open" \/ (pc[h] = "relocate" /\ m.todo # {}) => Incidents \subseteq DOMAIN m.view
     /\ pc[h] = "relocate" /\ m.todo # {} =>
          /\ ~inc[m.new].closed /\ m.todo \subseteq inc[m.new].comps
          /\ m.todo \cap DOMAIN m.res = {}
          /\ \A c \in DOMAIN m.res : m.res[c] = m.new

\* The answers given so far are true; an extraction on request and a patch have
\* given none.
TrueAnswer(m, c) ==
  LET e == inc[m.res[c]]
  IN /\ m.res[c] \in DOMAIN inc
     /\ m.op # "maintenance" =>
          /\ e.type = "incident" /\ ~e.closed /\ c \in e.comps
          /\ m.op = "system" => ~e.system \/ e.impact >= m.impact
Answered(h) ==
  LET m == mem[h]
  IN /\ pc[h] \in {"patch", "reopen"} \/ (pc[h] \in {"extract", "extract_tx"} /\ m.op # "system")
          => DOMAIN m.res = {}
     /\ \A c \in DOMAIN m.res \ m.err : TrueAnswer(m, c)

SerialStep(h) ==
  /\ pc[h] \in {"target", "add", "create", "raise", "move", "extract", "extract_tx", "open",
                "relocate", "patch"} => Fresh(mem[h])
  /\ SystemStep(h) /\ RegularStep(h) /\ Answered(h)

SerialInv ==
  Serial => \A h \in Handler : pc[h] # "idle" =>
    (\A g \in Handler \ {h} : pc[g] = "idle") /\ SerialStep(h)

\* Incidents i and j cover a component together.
Share(i, j) == i # j /\ inc[i].comps \cap inc[j].comps # {}

\* Two open incidents share components only while one request moves them: the
\* one it extracts between its two saves, and those it has yet to relocate.  What
\* is to be relocated is not in an incident that the request has closed.
Sharing(h) ==
  LET m == mem[h]
  IN /\ pc[h] \in {"add", "create"} \/ (pc[h] = "target" /\ m.old = 0)
          => \A i \in Incidents : m.comp \cap inc[i].comps = {}
     /\ pc[h] \in {"move", "raise", "extract", "extract_tx"} \/ (pc[h] = "target" /\ m.old # 0)
          => m.comp \subseteq inc[m.old].comps /\ ~inc[m.old].closed
     /\ pc[h] = "extract_tx"
          => \A i, j \in Incidents : Share(i, j) => {i, j} = {m.old, m.new}
     /\ pc[h] = "open" => \A i \in DOMAIN m.view : inc[i].type = "incident" => ~inc[i].closed
     /\ pc[h] = "relocate" =>
          /\ \A i, j \in Incidents : Share(i, j) =>
               m.new \in {i, j} /\ inc[i].comps \cap inc[j].comps \subseteq m.todo
          /\ \A i \in DOMAIN m.view :
               inc[i].type = "incident" /\ inc[i].closed => inc[i].comps \cap m.todo = {}

PlaceInv ==
  /\ \A h \in Handler : pc[h] # "reopen" /\ mem[h].op # "extract"
                        /\ (pc[h] = "patch" => mem[h].status # "reopened")
  /\ Serial =>
       /\ \A h \in Handler : pc[h] # "idle" => Sharing(h)
       /\ (\A h \in Handler : pc[h] \notin {"extract_tx", "relocate"})
            => \A i, j \in Incidents : ~Share(i, j)

\* The incident that keeps component c covered is the newest one that ever had
\* it: it is open and has c, in the table and in every copy, and no newer
\* incident or copy of one has c.
Keeps(c, k) ==
  /\ k \in Incidents /\ c \in inc[k].comps
  /\ \A h \in Handler : k \in DOMAIN mem[h].view
       => ~mem[h].view[k].closed /\ c \in mem[h].view[k].comps
NoneAfter(c, k) ==
  /\ \A i \in DOMAIN inc : i > k /\ inc[i].type = "incident" => c \notin inc[i].comps
  /\ \A h \in Handler : \A i \in DOMAIN mem[h].view :
       i > k /\ inc[i].type = "incident" => c \notin mem[h].view[i].comps

\* A source is older than the incident its components move to.
Newer(h) ==
  LET m == mem[h]
  IN /\ pc[h] \notin {"next", "target", "add", "create", "raise", "mark", "move"}
     /\ pc[h] = "relocate" /\ m.todo # {} =>
          m.todo \subseteq m.view[m.new].comps /\ \A i \in DOMAIN m.view : i <= m.new
     /\ pc[h] = "extract_tx" => m.view[m.new].comps = m.comp /\ m.old < m.new
     /\ pc[h] \in {"extract", "extract_tx", "patch"} => m.op # "system"
     /\ pc[h] = "patch" => m.status # "resolved"

CoverInv ==
  /\ \A h \in Handler : Newer(h)
  /\ \A c \in Component : \E k \in {0} \cup DOMAIN inc : NoneAfter(c, k) /\ (k = 0 \/ Keeps(c, k))

=============================================================================
