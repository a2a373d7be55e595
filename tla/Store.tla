------------------------------- MODULE Store -------------------------------
(***************************************************************************)
(* The requests of internal/api/v2 as the statements internal/db sends to  *)
(* PostgreSQL, one statement per step, on concurrent sessions.             *)
(*                                                                         *)
(* Isolation is READ COMMITTED: a statement sees what is committed when it *)
(* runs and the writes of its own transaction.  A row that a transaction   *)
(* wrote is locked until the transaction ends.  A read followed by a write *)
(* is two statements unless the code puts them into one.                   *)
(***************************************************************************)
EXTENDS EventViews

CONSTANTS
  Session,        \* connections serving requests
  Stored,         \* the rows at start: a function from keys to rows
  Request,        \* requests clients send: [op, e, f, c, status, version, closes, name, region]
  Now,            \* the time a statement stamps
  MaxRequests,    \* requests in a behaviour
  MaxFailures     \* statements that fail: connection lost, context cancelled

VARIABLES
  db,        \* committed rows, by <<entity, id>>; join rows by <<"Relation", <<incident, component>>>>
  seq,       \* the last id of every entity; never rolled back
  ses,       \* the request of every session
  requests,  \* requests served so far
  failures,  \* statements failed so far
  cut        \* events whose reopening failed after the status was committed, or that
             \* an extraction saves back from a copy read in between

vars == <<db, seq, ses, requests, failures, cut>>

\* The routes bind these requests; ids of events are positive.  The f of an
\* extraction is the id that the sequence gives the new incident.
ASSUME RequestAssumption ==
  \A q \in Request :
    /\ q.op \in {"get", "patch", "edit", "move", "extract", "component"}
    /\ q.op # "component" => q.e # 0
    /\ q.op \in {"move", "extract"} => q.f # 0
    /\ q.op = "extract" => ~q.closes

\* The rows at start are numbered, and every table has a last id.
ASSUME StoredAssumption ==
  \A n \in {"IncidentStatus", "Component", "ComponentAttr"} :
    LET keys == {k \in DOMAIN Stored : k[1] = n}
    IN  /\ \A k \in keys : k = <<n, k[2]>> /\ k[2] \in Nat \ {0}
        /\ \E top \in {0} \cup {k[2] : k \in keys} : \A k \in keys : k[2] <= top
        /\ n = "IncidentStatus" => \A k \in keys : "incident_id" \in DOMAIN Stored[k]

\* A deleted row has no columns.
Gone == [c \in {} |-> 0]

(***************************************************************************)
(* Sessions.  todo is what the handler still does, w the uncommitted       *)
(* writes, copy the events it loaded.                                      *)
(***************************************************************************)

Copy == [row |-> Null, comps |-> {}, statuses |-> <<>>, new |-> <<>>]

Idle == [todo |-> <<>>, req |-> Null, w |-> [k \in {} |-> 0], copy |-> [e \in {} |-> 0],
         version |-> 0, shown |-> 0, target |-> 0, auth |-> FALSE, reply |-> Null]

Init ==
  /\ db = Stored
  /\ seq = [n \in {"IncidentStatus", "Component", "ComponentAttr"} |->
              Max({0} \cup {k[2] : k \in {k \in DOMAIN Stored : k[1] = n}})]
  /\ ses = [s \in Session |-> Idle]
  /\ requests = 0 /\ failures = 0 /\ cut = {}

(***************************************************************************)
(* Tables as a session sees them.                                          *)
(***************************************************************************)

Overlay(base, w) ==
  [k \in {k \in DOMAIN base \cup DOMAIN w : k \in DOMAIN w => w[k] # Gone} |->
     IF k \in DOMAIN w THEN w[k] ELSE base[k]]

View(s) == Overlay(db, ses[s].w)

Ids(v, n) == {k[2] : k \in {k \in DOMAIN v : k[1] = n}}

Components(v, e) == {r[2] : r \in {r \in Ids(v, "Relation") : r[1] = e}}

\* ORDER BY id
Ascending(ids) ==
  [n \in 1..Cardinality(ids) |-> CHOOSE i \in ids : Cardinality({j \in ids : j < i}) = n - 1]

UpdateIds(v, e) == {k[2] : k \in {k \in DOMAIN v : k[1] = "IncidentStatus" /\ v[k].incident_id = e}}

StatusIds(v, e) == Ascending(UpdateIds(v, e))

\* Rows of the update history in id order (statusesByIncident, attachStatuses).
StatusesByIncident(v, e) ==
  LET ids == StatusIds(v, e)
  IN  [i \in DOMAIN ids |->
         LET row == ReadBack("IncidentStatus", v[<<"IncidentStatus", ids[i]>>])
         IN  [id |-> ids[i], status |-> row.status, text |-> row.text]]

InTx(s) == \E i \in DOMAIN ses[s].todo : ses[s].todo[i][1] = "commit"

Holders(s, keys) == {t \in Session \ {s} : DOMAIN ses[t].w \cap keys # {}}

At(s, step) == ses[s].todo # <<>> /\ Head(ses[s].todo)[1] = step
Event(s) == Head(ses[s].todo)[2]

\* The handler goes on; r is the session's record so far.
Proceed(s, r) == ses' = [ses EXCEPT ![s] = [r EXCEPT !.todo = Tail(@)]]

\* The statement returns what the handler needs, and writes nothing.
Reads(s, r) == Proceed(s, r) /\ UNCHANGED <<db, seq, requests, failures, cut>>

\* The handler returns an answer; a transaction it had open is rolled back
\* by the deferred rollback of WithTx and execWithTx.
RollbackForgotten(s, code) ==
  /\ ses' = [ses EXCEPT ![s] = [Idle EXCEPT !.w = ses[s].w,
                                   !.reply = [code |-> code, raw |-> "", history |-> {}, event |-> Null]]]
  /\ UNCHANGED <<db, seq, requests>>

Rollback(s, code) ==
  /\ ses' = [ses EXCEPT ![s] = [Idle EXCEPT !.reply = [code |-> code, raw |-> "", history |-> {}, event |-> Null]]]
  /\ UNCHANGED <<db, seq, requests>>

Return(s, code) == Rollback(s, code) /\ UNCHANGED <<failures, cut>>

\* A statement that writes rows: in a transaction they stay with the session
\* and are locked, otherwise they are committed at once.
Writes(s, r, rows, seqs) ==
  /\ Holders(s, DOMAIN rows) = {}
  /\ seq' = seqs
  /\ IF InTx(s)
       THEN Proceed(s, [r EXCEPT !.w = Over(rows, @)]) /\ db' = db
       ELSE Proceed(s, r) /\ db' = Overlay(db, rows)
  /\ UNCHANGED <<requests, failures, cut>>

(***************************************************************************)
(* Reading an event: GetIncident, and what handlers do alike.              *)
(***************************************************************************)

LoadHistoryFirst(e) == << <<"statuses", e>>, <<"row", e>>, <<"components", e>> >>

Load(e) == << <<"row", e>>, <<"components", e>>, <<"statuses", e>> >>

ReadRow(s) ==
  /\ At(s, "row")
  /\ LET e == Event(s)
         found == First({e} \cap Ids(View(s), "Incident"))
     IN  IF found = NotFound THEN Return(s, 404)
         ELSE Reads(s, [ses[s] EXCEPT
                !.copy[e].row = ReadBack("Incident", View(s)[<<"Incident", e>>])])

ReadComponents(s) ==
  /\ At(s, "components")
  /\ Reads(s, [ses[s] EXCEPT !.copy[Event(s)].comps = Components(View(s), Event(s))])

ReadStatuses(s) ==
  /\ At(s, "statuses")
  /\ Reads(s, [ses[s] EXCEPT !.copy[Event(s)].statuses = StatusesByIncident(View(s), Event(s))])

\* GetIncidentHandler, and the end of PatchIncidentHandler.
Answer(s) ==
  /\ At(s, "answer")
  /\ LET r == ses[s]
         c == r.copy[Event(s)]
     IN  IF HiddenFrom(r.auth, c.row, c.statuses) THEN Return(s, 404)
         ELSE /\ ses' = [ses EXCEPT ![s] = [Idle EXCEPT !.reply =
                   [code |-> 200, raw |-> c.row.status, history |-> {c.statuses[i].status : i \in DOMAIN c.statuses},
                    event |-> ToAPIEvent(c.row, c.statuses, c.comps, r.auth)]]]
              /\ UNCHANGED <<db, seq, requests, failures, cut>>

(***************************************************************************)
(* PATCH /v2/events/:id by an operator.  The notification rows of the same *)
(* transaction are module Maintenance's subject.                           *)
(***************************************************************************)

IncidentPatchStatus ==
  {"detected", "analysing", "fixing", "impact changed", "observing", "resolved", "reopened", "changed"}
MaintenancePatchStatus ==
  {"pending_review", "reviewed", "planned", "in_progress", "modified", "completed", "cancelled"}

\* checkPatchData for a patch that sends a status only.
CheckPatchData(row, status) ==
  /\ row.type = "maintenance" => status \in MaintenancePatchStatus
  /\ row.type = "incident" =>
       /\ status \in IncidentPatchStatus
       /\ row.end_date # Null => status \in {"reopened", "changed"}

UpdateFields(row, status) ==
  [row EXCEPT !.status = status,
              !.end_date = CASE status = "reopened" -> Null
                             [] status = "resolved" -> Now
                             [] OTHER -> @]

PatchStepsNoReopen(e, status) ==
  << <<"modify", e>>, <<"insert", e>>, <<"commit", e>> >> \o Load(e) \o << <<"answer", e>> >>

PatchStepsInsertFirst(e, status) ==
  << <<"insert", e>>, <<"modify", e>>, <<"commit", e>> >> \o Load(e) \o << <<"answer", e>> >>

\* persistIncidentPatch, reopenIncident, and the event read back for the answer.
PatchSteps(e, status) ==
  << <<"modify", e>>, <<"insert", e>>, <<"commit", e>> >>
    \o (IF status = "reopened" THEN << <<"reopen", e>> >> ELSE <<>>)
    \o Load(e) \o << <<"answer", e>> >>

\* The version is any integer the client sends; only a maintenance needs one.
Decide(s) ==
  /\ At(s, "decide")
  /\ LET r == ses[s]
         e == Event(s)
         row == r.copy[e].row
         sent == r.req.version
     IN  IF (row.type = "maintenance" /\ sent = Null) \/ ~CheckPatchData(row, r.req.status) THEN Return(s, 400)
         ELSE Reads(s, [r EXCEPT
                !.copy[e].row = [UpdateFields(row, r.req.status) EXCEPT
                                   !.version = IF sent # Null THEN sent ELSE @],
                !.copy[e].new = <<r.req.status>>,
                !.todo = @ \o PatchSteps(e, r.req.status)])

\* applyIncidentPatch: what is nil or empty in the copy is left alone.
ApplyIncidentPatch(row) ==
  LET column == <<"text", "description", "start_date", "end_date", "impact", "status", "system",
                  "type", "created_at", "created_by", "contact_email">>
      Filled(f) == row[f] # Null /\ (f = "status" => row[f] # "") /\ (f = "system" => row[f])
      filled == Ascending({i \in DOMAIN column : Filled(column[i])})
  IN  [n \in DOMAIN filled |-> Set(column[filled[n]], row[column[filled[n]]])]

ModifyIncident(s) ==
  /\ At(s, "modify")
  /\ LET r == ses[s]
         e == Event(s)
         row == r.copy[e].row
         m == Build("Incident", ApplyIncidentPatch(row)
                      \o <<Set("version", row.version + 1), Set("modified_at", Now)>>)
         key == <<"Incident", e>>
         stored == View(s)[key]
     IN  /\ Holders(s, {key}) = {}
         /\ IF row.type = "maintenance" /\ ~Selected({EQ(stored, "version", row.version)})
              THEN Return(s, 409)
              ELSE Writes(s, [r EXCEPT !.copy[e].row.version = @ + 1],
                          Entry(key, UpdateRow("Incident", m, stored)), seq)

InsertIncidentStatus(e, status) ==
  Build("IncidentStatus", <<Set("incident_id", e), Set("status", status), Set("text", "by system"),
                            Set("timestamp", Now), Set("created_at", Now), Set("modified_at", Now)>>)

\* The rows of the copy that have no id yet, one statement each.
InsertStatuses(s) ==
  /\ At(s, "insert")
  /\ LET r == ses[s]
         e == Event(s)
         id == seq["IncidentStatus"] + 1
     IN  Writes(s, [r EXCEPT !.copy[e].new = <<>>],
                Entry(<<"IncidentStatus", id>>,
                      CreateRow("IncidentStatus", InsertIncidentStatus(e, Head(r.copy[e].new)), Now)),
                [seq EXCEPT !["IncidentStatus"] = id])

Commit(s) ==
  /\ At(s, "commit")
  /\ db' = Overlay(db, ses[s].w)
  /\ Proceed(s, [ses[s] EXCEPT !.w = [k \in {} |-> 0]])
  /\ UNCHANGED <<seq, requests, failures, cut>>

ReOpenIncident(s) ==
  /\ At(s, "reopen")
  /\ LET key == <<"Incident", Event(s)>>
     IN  Writes(s, ses[s],
                Entry(key, UpdateRow("Incident", Build("Incident", <<Clear("end_date")>>), View(s)[key])), seq)

(***************************************************************************)
(* PATCH /v2/events/:id/updates/:n, n a position a client was shown.       *)
(***************************************************************************)

PickUpdate(s) ==
  /\ At(s, "pick")
  /\ LET c == ses[s].copy[Event(s)]
         updates == ToAPIEvent(c.row, c.statuses, c.comps, TRUE).updates
     IN  \E n \in DOMAIN updates :
           Reads(s, [ses[s] EXCEPT !.version = n, !.shown = updates[n].row])

GetEventUpdatesLatestFirst(v, e) == Reverse(StatusIds(v, e))

GetEventUpdates(v, e) == StatusIds(v, e)

FindUpdate(s) ==
  /\ At(s, "updates")
  /\ LET updates == GetEventUpdates(View(s), Event(s))
         n == ses[s].version
     IN  IF n > Len(updates) THEN Return(s, 404)
         ELSE Reads(s, [ses[s] EXCEPT !.target = updates[n]])

\* UPDATE ... WHERE id = target AND incident_id = e, outside a transaction.
ModifyEventUpdate(s) ==
  /\ At(s, "text")
  /\ LET key == <<"IncidentStatus", ses[s].target>>
     IN  IF key \notin DOMAIN View(s) \/ ~Selected({EQ(View(s)[key], "incident_id", Event(s))})
           THEN Return(s, 500)
         ELSE Writes(s, ses[s],
                     Entry(key, UpdateRow("IncidentStatus",
                                  Build("IncidentStatus", <<Set("text", "edited"), Set("modified_at", Now)>>),
                                  View(s)[key])), seq)

ReadUpdate(s) ==
  /\ At(s, "reread")
  /\ LET id == Only({ses[s].target} \cap Ids(View(s), "IncidentStatus"))
     IN  Return(s, IF id \in {NotFound, NotSingular} THEN 500 ELSE 200)

(***************************************************************************)
(* MoveComponentFromOldToAnotherIncident: component c from e to f.         *)
(***************************************************************************)

\* The join row goes first, then f and e are saved whole, in this order.
MoveSteps(q) ==
  (IF q.closes THEN <<>> ELSE << <<"unlink", q.e>> >>)
    \o << <<"save", q.f>>, <<"link", q.f>>, <<"insert", q.f>>,
          <<"save", q.e>>, <<"link", q.e>>, <<"insert", q.e>>, <<"commit", q.e>>, <<"done", q.e>> >>

MoveComponent(s) ==
  /\ At(s, "prepare")
  /\ LET r == ses[s]
         q == r.req
         old == r.copy[q.e]
         new == r.copy[q.f]
     IN  IF old.row.end_date # Null \/ new.row.end_date # Null \/ q.c \notin old.comps \/ q.c \in new.comps
           THEN Return(s, 200)
           ELSE Reads(s, [r EXCEPT
                  !.copy[q.f] = [new EXCEPT !.comps = @ \cup {q.c}, !.new = <<"SYSTEM">>],
                  !.copy[q.e] = IF q.closes
                                  THEN [old EXCEPT !.row.status = "resolved", !.row.end_date = Now,
                                                   !.new = <<"resolved">>]
                                  ELSE [old EXCEPT !.new = <<"SYSTEM">>],
                  !.todo = @ \o MoveSteps(q)])

(***************************************************************************)
(* POST /v2/events/:id/extract of component c from e: the new incident f   *)
(* is stored first, with its component, its status SYSTEM and no update;   *)
(* then one transaction takes c from e, saves f and saves e.               *)
(***************************************************************************)

EndLeft(row) == row.status = "reopened" /\ row.end_date # Null

\* The incident SaveIncident creates, after the old one.
NewIncident(old) ==
  CreateRow("Incident",
            Build("Incident", <<Set("text", old.text), Set("start_date", Now), Set("impact", old.impact),
                                Set("system", FALSE), Set("type", "incident"), Set("created_at", Now),
                                Set("modified_at", Now), Set("status", "SYSTEM")>>
                              \o (IF old.description # Null THEN <<Set("description", old.description)>> ELSE <<>>)),
            Now)

\* It is stored with the component.
NewRows(f, c, row) ==
  Over(Entry(<<"Incident", f>>, row),
       Entry(<<"Relation", <<f, c>>>>, [incident_id |-> f, component_id |-> c]))

\* getComponentsToExtract, and what else ends the extraction of c before it starts.
\* Whether the incident is open is not asked.
Extractable(old, c) ==
  CASE old.row.type # "incident" -> 403
    [] c \notin old.comps \/ old.comps = {c} -> 400
    [] old.row.text = "" -> 500
    [] OTHER -> 200

ExtractComponents(s) ==
  /\ At(s, "extract")
  /\ LET r == ses[s]
         q == r.req
         old == r.copy[q.e]
         row == NewIncident(old.row)
         code == Extractable(old, q.c)
     IN  IF code # 200 THEN Return(s, code)
         ELSE
            /\ <<"Incident", q.f>> \notin DOMAIN db
            /\ db' = Overlay(db, NewRows(q.f, q.c, row))
            /\ Proceed(s, [r EXCEPT
                 !.copy[q.f] = [row |-> ReadBack("Incident", row), comps |-> {q.c}, statuses |-> <<>>,
                                new |-> <<"SYSTEM">>],
                 !.copy[q.e] = [old EXCEPT !.new = <<"SYSTEM">>],
                 !.todo = @ \o MoveSteps(q)])
            /\ cut' = IF EndLeft(old.row) THEN cut \cup {q.e} ELSE cut
            /\ UNCHANGED <<seq, requests, failures>>

\* removeIncidentComponent, dropIncidentComponent.
RemoveIncidentComponent(s) ==
  /\ At(s, "unlink")
  /\ LET r == ses[s]
         e == Event(s)
         m == Build("Incident", <<RemoveEdge("components", {r.req.c})>>)
         kept == EdgeAfter(m, "components", Components(View(s), e))
     IN  Writes(s, [r EXCEPT !.copy[e].comps = @ \ {r.req.c}],
                [k \in {<<"Relation", <<e, c>>>> : c \in Components(View(s), e) \ kept} |-> Gone], seq)

\* Every column is written; nil clears it.
SaveIncidentFull(s) ==
  /\ At(s, "save")
  /\ LET r == ses[s]
         e == Event(s)
         row == r.copy[e].row
         key == <<"Incident", e>>
         always == <<"text", "start_date", "impact", "system", "type", "status", "version">>
         optional == <<"description", "end_date", "deleted_at", "created_by", "contact_email">>
         m == Build("Incident",
                [i \in DOMAIN always |-> Set(always[i], row[always[i]])]
                \o <<Set("created_at", IF row.created_at # Null THEN row.created_at ELSE Now),
                     Set("modified_at", Now)>>
                \o [i \in DOMAIN optional |-> LET f == optional[i] IN
                       IF row[f] # Null THEN Set(f, row[f]) ELSE Clear(f)])
     IN  IF ~UpdatePasses("Incident", m) THEN Return(s, 500)
         ELSE Writes(s, r, Entry(key, UpdateRow("Incident", m, View(s)[key])), seq)

\* The stored edge is read and made to match the copy.  Both statements are
\* one step: the incident's row is locked by the save before, so join rows of
\* it can only disappear between them, as they may right after.
Reconciled(s, e) ==
  LET current == Components(View(s), e)
      want == ses[s].copy[e].comps
      m == Build("Incident", (IF current \subseteq want THEN <<>>
                              ELSE <<RemoveEdge("components", current \ want)>>)
                          \o (IF want \subseteq current THEN <<>>
                              ELSE <<AddEdge("components", want \ current)>>))
      after == EdgeAfter(m, "components", current)
  IN  [k \in {<<"Relation", <<e, c>>>> : c \in (current \ after) \cup (after \ current)} |->
         IF k[2][2] \in after THEN [incident_id |-> e, component_id |-> k[2][2]] ELSE Gone]

ReconcileIncidentComponents(s) ==
  /\ At(s, "link")
  /\ Writes(s, ses[s], Reconciled(s, Event(s)), seq)

Done(s) == At(s, "done") /\ Return(s, 200)

(***************************************************************************)
(* SaveComponent: the check runs before the transaction.                   *)
(***************************************************************************)

Attribute == <<"category", "region", "type">>

ComponentExists(s) ==
  /\ At(s, "exists")
  /\ LET q == ses[s].req
         v == View(s)
         same == {c \in Ids(v, "Component") :
                    /\ v[<<"Component", c>>].name = q.name
                    /\ \E a \in Ids(v, "ComponentAttr") :
                         /\ v[<<"ComponentAttr", a>>].component_id = c
                         /\ v[<<"ComponentAttr", a>>].name = "region"
                         /\ v[<<"ComponentAttr", a>>].value = q.region}
     IN  IF Exist(same) THEN Return(s, 400) ELSE Reads(s, ses[s])

CreateComponent(s) ==
  /\ At(s, "component")
  /\ LET id == seq["Component"] + 1
         m == Build("Component", <<Set("name", ses[s].req.name), Set("created_at", Now),
                                   Set("modified_at", Now)>>)
     IN  Writes(s, [ses[s] EXCEPT !.target = id],
                Entry(<<"Component", id>>, CreateRow("Component", m, Now)), [seq EXCEPT !["Component"] = id])

CreateAttribute(s) ==
  /\ At(s, "attribute")
  /\ LET id == seq["ComponentAttr"] + 1
         name == Attribute[Event(s)]
         m == Build("ComponentAttr",
                <<Set("name", name), Set("value", IF name = "region" THEN ses[s].req.region ELSE name),
                  Set("component_id", ses[s].target)>>)
     IN  Writes(s, ses[s], Entry(<<"ComponentAttr", id>>, CreateRow("ComponentAttr", m, Now)),
                [seq EXCEPT !["ComponentAttr"] = id])

(***************************************************************************)
(* Requests, failures and the deadlock detector.                           *)
(***************************************************************************)

ProgramWithoutTx(q) ==
  CASE q.op = "get" -> Load(q.e) \o << <<"answer", q.e>> >>
    [] q.op = "patch" -> Load(q.e) \o << <<"decide", q.e>> >>
    [] q.op = "edit" -> Load(q.e) \o << <<"pick", q.e>>, <<"updates", q.e>>, <<"text", q.e>>,
                                        <<"reread", q.e>> >>
    [] q.op = "move" -> Load(q.e) \o Load(q.f) \o << <<"prepare", q.e>> >>
    [] q.op = "extract" -> Load(q.e) \o << <<"extract", q.e>> >>
    [] q.op = "component" -> << <<"exists", 0>>, <<"component", 0>>, <<"attribute", 1>>,
                                <<"attribute", 2>>, <<"attribute", 3>>, <<"done", 0>> >>

Registering ==
  << <<"exists", 0>>, <<"component", 0>>, <<"attribute", 1>>, <<"attribute", 2>>, <<"attribute", 3>>,
     <<"commit", 0>>, <<"done", 0>> >>

Program(q) ==
  CASE q.op = "get" -> Load(q.e) \o << <<"answer", q.e>> >>
    [] q.op = "patch" -> Load(q.e) \o << <<"decide", q.e>> >>
    [] q.op = "edit" -> Load(q.e) \o << <<"pick", q.e>>, <<"updates", q.e>>, <<"text", q.e>>,
                                        <<"reread", q.e>> >>
    [] q.op = "move" -> Load(q.e) \o Load(q.f) \o << <<"prepare", q.e>> >>
    [] q.op = "extract" -> Load(q.e) \o << <<"extract", q.e>> >>
    [] q.op = "component" -> Registering

\* An id the sequence gave is not given again.
Fresh(f) == <<"Incident", f>> \notin DOMAIN db /\ \A t \in Session : f \notin DOMAIN ses[t].copy

Begin(s, q) ==
  /\ requests < MaxRequests /\ ses[s] = Idle
  /\ q.op = "extract" => Fresh(q.f)
  /\ ses' = [ses EXCEPT ![s] = [Idle EXCEPT !.todo = Program(q), !.req = q, !.auth = q.op # "get",
                                            !.copy = [e \in {q.e, q.f} \ {0} |-> Copy]]]
  /\ requests' = requests + 1
  /\ UNCHANGED <<db, seq, failures, cut>>

\* The answer is written and the request's memory dropped.
Close(s) ==
  /\ ses[s].todo = <<>> /\ ses[s].reply # Null
  /\ ses' = [ses EXCEPT ![s] = Idle]
  /\ UNCHANGED <<db, seq, requests, failures, cut>>

Fail(s) ==
  /\ ses[s].todo # <<>> /\ failures < MaxFailures
  /\ failures' = failures + 1
  /\ cut' = IF At(s, "reopen") THEN cut \cup {Event(s)} ELSE cut
  /\ Rollback(s, 500)

\* The rows of an event a session is about to write.
Wanted(s) ==
  CASE At(s, "modify") \/ At(s, "save") \/ At(s, "reopen") -> {<<"Incident", Event(s)>>}
    [] At(s, "unlink") -> {<<"Relation", <<Event(s), ses[s].req.c>>>>}
    [] At(s, "link") -> DOMAIN Reconciled(s, Event(s))
    [] OTHER -> {}

Waits(s) == Holders(s, Wanted(s))

\* PostgreSQL aborts a transaction of a cycle of waits.
Abort(s) ==
  /\ \E t \in Waits(s) : s \in Waits(t) \cup UNION {Waits(u) : u \in Waits(t)}
  /\ Return(s, 500)

Step(s) ==
  \/ ReadRow(s) \/ ReadComponents(s) \/ ReadStatuses(s) \/ Answer(s)
  \/ Decide(s) \/ ModifyIncident(s) \/ InsertStatuses(s) \/ Commit(s) \/ ReOpenIncident(s)
  \/ PickUpdate(s) \/ FindUpdate(s) \/ ModifyEventUpdate(s) \/ ReadUpdate(s)
  \/ MoveComponent(s) \/ ExtractComponents(s) \/ RemoveIncidentComponent(s) \/ SaveIncidentFull(s)
  \/ ReconcileIncidentComponents(s) \/ Done(s)
  \/ ComponentExists(s) \/ CreateComponent(s) \/ CreateAttribute(s)
  \/ Close(s) \/ Abort(s)

\* The bound on requests is reached and every session is idle.
Exhausted ==
  /\ requests = MaxRequests /\ \A s \in Session : ses[s] = Idle
  /\ UNCHANGED vars

Next ==
  \/ \E s \in Session :
       \/ \E q \in Request : Begin(s, q)
       \/ Step(s)
       \/ Fail(s)
  \/ Exhausted

Spec == Init /\ [][Next]_vars

(***************************************************************************)
(* Properties.                                                             *)
(***************************************************************************)

\* The update history of an event only grows at its end: a committed update
\* never appears before one that was committed earlier, so a position in the
\* list keeps its meaning.  Ids come from a sequence, outside transactions;
\* the order holds because every writer of a history updates the incident's
\* row, and so locks it, before it inserts.
UpdatesAppended ==
  [][\A e \in Ids(db, "Incident") :
       /\ UpdateIds(db, e) \subseteq UpdateIds(db', e)
       /\ \A i \in UpdateIds(db, e), j \in UpdateIds(db', e) \ UpdateIds(db, e) : i < j]_vars

\* PATCH updates/:n changes the update its client was shown at position n,
\* whatever was committed between the two requests; only a row "description",
\* which the list leaves out and the PATCH counts, shifts the position.
PatchedAsShown ==
  \A s \in Session :
    LET r == ses[s]
    IN  r.target # 0 /\ r.shown # 0 /\ r.target # r.shown =>
          \E i \in Ids(db, "IncidentStatus") :
            /\ db[<<"IncidentStatus", i>>].incident_id = r.req.e
            /\ db[<<"IncidentStatus", i>>].status = "description"
            /\ i < r.shown

\* An answer's status is explained by the history in the same answer, though
\* the two are read by different statements with other requests between:
\* the history is read last.  The exception is an incident that components were
\* extracted into, which has the status SYSTEM before any update, for good when
\* the transaction that records the extraction fails.
HistoryExplainsStatus ==
  \A s \in Session : LET r == ses[s].reply IN
    r # Null /\ r.code = 200 /\ r.event # Null => r.raw \in r.history \/ r.raw = "SYSTEM"

\* An incident with the status reopened has no end_date, except while the
\* request that reopened it has not reached its second statement, or when it
\* failed there, or when an extraction read the incident in between and saves it
\* whole: the status is committed before end_date is cleared.
ReopenedIsOpen ==
  \A e \in Ids(db, "Incident") :
    LET row == db[<<"Incident", e>>]
    IN  row.status = "reopened" /\ row.end_date # Null =>
          \/ e \in cut
          \/ \E s \in Session : \E i \in DOMAIN ses[s].todo : ses[s].todo[i] = <<"reopen", e>>

\* A component is there with its three attributes or not at all, also when
\* one of the four statements fails.
ComponentWhole ==
  \A c \in Ids(db, "Component") :
    {db[<<"ComponentAttr", a>>].name :
       a \in {a \in Ids(db, "ComponentAttr") : db[<<"ComponentAttr", a>>].component_id = c}}
      = Range(Attribute)

\* A request waits only for a row of a request that is still running: no
\* answer, error, conflict or failure leaves a lock behind.  With the deadlock
\* detector every wait ends, since every step brings a request nearer its
\* answer; TLC's deadlock check finds no state in which all of them wait.
WaitsForTheRunning ==
  \A s \in Session : \A t \in Waits(s) : ses[t].todo # <<>>

(***************************************************************************)
(* What keeps the sessions apart, for every number of them (the theorems   *)
(* are in StoreProofs).                                                    *)
(***************************************************************************)

InsideTx == {"modify", "insert", "unlink", "save", "link", "component", "attribute"}
OutsideTx == {"row", "components", "statuses", "answer", "decide", "reopen", "pick", "updates", "text",
              "reread", "prepare", "extract", "done"}
StepName == InsideTx \cup OutsideTx \cup {"exists", "commit"}
Steps == StepName \X ({q.e : q \in Request} \cup {q.f : q \in Request} \cup (0..3))

\* What remains of a handler has one transaction, which holds the statements
\* that need one; end_date is cleared right after it.
Shape(t) ==
  /\ t \in Seq(Steps)
  /\ \A i, j \in DOMAIN t : t[i][1] = "commit" /\ t[j][1] = "commit" => i = j
  /\ \A i \in DOMAIN t : t[i][1] \in InsideTx => \E j \in DOMAIN t : i < j /\ t[j][1] = "commit"
  /\ \A i, j \in DOMAIN t : t[i][1] \in OutsideTx /\ t[j][1] = "commit" => j < i
  /\ \A i \in DOMAIN t : t[i][1] = "reopen" /\ i # 1 => t[i - 1][1] = "commit"
  /\ \A i \in DOMAIN t : t[i][1] \in {"decide", "prepare", "extract"} => i = Len(t)

\* Uncommitted writes belong to a transaction still to be committed.
Sessions ==
  /\ DOMAIN ses = Session
  /\ \A s \in Session :
       /\ DOMAIN ses[s] = DOMAIN Idle
       /\ Shape(ses[s].todo)
       /\ ses[s].todo # <<>> => ses[s].req \in Request
       /\ DOMAIN ses[s].w # {} => InTx(s)

\* The updates among rows, with ids up to the last one taken.
StatusRows(f) == {k \in DOMAIN f : k[1] = "IncidentStatus"}
Numbered(f, last) ==
  \A k \in StatusRows(f) :
    k = <<"IncidentStatus", k[2]>> /\ k[2] \in 1..last /\ "incident_id" \in DOMAIN f[k]

\* An update not yet committed follows the committed ones of its incident, whose
\* row the session has written ...
Follows(w, v) ==
  \A k \in StatusRows(w) :
    /\ k \notin DOMAIN v
    /\ <<"Incident", w[k].incident_id>> \in DOMAIN w
    /\ \A i \in UpdateIds(v, w[k].incident_id) : i < k[2]

\* ... or will write before it inserts an update.
LockedFirst(todo, keys) ==
  \A i \in DOMAIN todo : todo[i][1] = "insert" =>
    \/ <<"Incident", todo[i][2]>> \in keys
    \/ \E j \in 1..(i - 1) : todo[j][1] \in {"modify", "save"} /\ todo[j][2] = todo[i][2]

\* A row is written by one open transaction.
LocksExclude == \A s, t \in Session : s # t => DOMAIN ses[s].w \cap DOMAIN ses[t].w = {}

\* Every update not yet committed will follow the committed ones of its incident.
AppendInv ==
  LET last == seq["IncidentStatus"]
  IN  /\ "IncidentStatus" \in DOMAIN seq /\ last \in Nat /\ Numbered(db, last) /\ LocksExclude
      /\ \A s \in Session : /\ Numbered(ses[s].w, last) /\ Follows(ses[s].w, db)
                             /\ LockedFirst(ses[s].todo, DOMAIN ses[s].w)

\* A stored attribute belongs to a stored component, which has all three.
ASSUME ComponentsAssumption ==
  LET keys(n) == {k \in DOMAIN Stored : k[1] = n}
  IN  /\ \A k \in keys("ComponentAttr") :
           /\ {"name", "component_id"} \subseteq DOMAIN Stored[k]
           /\ <<"Component", Stored[k].component_id>> \in DOMAIN Stored
      /\ \A c \in keys("Component") :
           {Stored[k].name : k \in {k \in keys("ComponentAttr") : Stored[k].component_id = c[2]}}
             = Range(Attribute)

Rows(f, n) == {k \in DOMAIN f : k[1] = n}
Attributes(f, c) == {f[k].name : k \in {k \in Rows(f, "ComponentAttr") : f[k].component_id = c}}

\* Components and attributes have ids that were taken, and an attribute names its component.
Counted(f, components, attributes) ==
  /\ \A k \in Rows(f, "Component") : k = <<"Component", k[2]>> /\ k[2] \in 1..components
  /\ \A k \in Rows(f, "ComponentAttr") :
       /\ k = <<"ComponentAttr", k[2]>> /\ k[2] \in 1..attributes
       /\ {"name", "component_id"} \subseteq DOMAIN f[k] /\ f[k].component_id \in 1..components

\* What is not yet committed is new.
Apart(w, v) ==
  /\ \A k \in Rows(w, "Component") \cup Rows(w, "ComponentAttr") : k \notin DOMAIN v
  /\ \A k \in Rows(v, "ComponentAttr") : <<"Component", v[k].component_id>> \notin DOMAIN w

\* SaveComponent is at its j-th step.
Registers(todo, j) == Len(todo) = 8 - j /\ \A i \in 1..(8 - j) : todo[i] = Registering[i + j - 1]

NoneRegistered(w) == Rows(w, "Component") = {} /\ Rows(w, "ComponentAttr") = {}

\* It has the component with the attributes of the steps it has done.
PartOf(x, j) ==
  LET key == <<"Component", x.target>>
  IN  /\ Rows(x.w, "Component") = {key} /\ x.w[key] # Gone
      /\ \A k \in Rows(x.w, "ComponentAttr") : x.w[k].component_id = x.target
      /\ Attributes(x.w, x.target) = {Attribute[i] : i \in 1..(j - 3)}

Registered(x) ==
  \/ NoneRegistered(x.w) /\ \A i \in DOMAIN x.todo : x.todo[i][1] \notin {"component", "attribute"}
  \/ NoneRegistered(x.w) /\ \E j \in 1..2 : Registers(x.todo, j)
  \/ \E j \in 3..6 : Registers(x.todo, j) /\ PartOf(x, j)

\* Until its commit a component is seen by its own session only.
WholeInv ==
  /\ {"Component", "ComponentAttr"} \subseteq DOMAIN seq
  /\ seq["Component"] \in Nat /\ seq["ComponentAttr"] \in Nat
  /\ Counted(db, seq["Component"], seq["ComponentAttr"])
  /\ ComponentWhole
  /\ \A s \in Session :
       /\ Counted(ses[s].w, seq["Component"], seq["ComponentAttr"])
       /\ Apart(ses[s].w, db)
       /\ Registered(ses[s])

\* NULL is no status.
ASSUME NullAssumption == Null # "SYSTEM"

\* Every stored event has its status in its history, or had components extracted into it.
ASSUME HistoryAssumption ==
  /\ \A k \in DOMAIN Stored : k[1] = "IncidentStatus" => "status" \in DOMAIN Stored[k]
  /\ \A k \in DOMAIN Stored : k[1] = "Incident" =>
       /\ k = <<"Incident", k[2]>> /\ "status" \in DOMAIN Stored[k]
       /\ \/ Stored[k].status = "SYSTEM"
          \/ \E h \in DOMAIN Stored : /\ h[1] = "IncidentStatus" /\ Stored[h].incident_id = k[2]
                                      /\ Stored[h].status = Stored[k].status

\* A status as both entities read it back.
AsRead(status) == IF status = Null THEN "" ELSE status

\* The statuses of e's updates, and the one an incident may have before any.
Statuses(v, e) == {AsRead(v[k].status) : k \in {k \in StatusRows(v) : v[k].incident_id = e}} \cup {"SYSTEM"}

\* The statuses e had, those of the session's transaction and the one it is about to insert.
Explained(v, x, e) ==
  Statuses(v, e) \cup Statuses(x.w, e)
    \cup {AsRead(Head(x.copy[e].new)) : i \in {i \in DOMAIN x.todo : x.todo[i] = <<"insert", e>>}}

\* Rows have a status, and an incident's is explained.
Recorded(v) ==
  /\ \A k \in StatusRows(v) : "status" \in DOMAIN v[k]
  /\ \A k \in Rows(v, "Incident") :
       k = <<"Incident", k[2]>> /\ "status" \in DOMAIN v[k] /\ AsRead(v[k].status) \in Statuses(v, k[2])
Recording(v, x) ==
  /\ \A k \in StatusRows(x.w) : "status" \in DOMAIN x.w[k]
  /\ \A k \in Rows(x.w, "Incident") :
       /\ k = <<"Incident", k[2]>> /\ k \in DOMAIN v /\ k[2] \in DOMAIN x.copy
       /\ "status" \in DOMAIN x.w[k] /\ AsRead(x.w[k].status) \in Explained(v, x, k[2])

\* So is the copy a step saves or decides on, once it is loaded.
Uses(x, i) ==
  CASE x.todo[i][1] = "prepare" -> {x.req.e, x.req.f}
    [] x.todo[i][1] = "extract" -> {x.req.e}
    [] x.todo[i][1] \in {"decide", "modify", "save", "reopen"} -> {x.todo[i][2]}
    [] OTHER -> {}
Loaded(v, x, e) ==
  /\ <<"Incident", e>> \in DOMAIN v /\ "status" \in DOMAIN x.copy[e].row
  /\ AsRead(x.copy[e].row.status) \in Explained(v, x, e)
LoadedFirst(v, x) ==
  \A i \in DOMAIN x.todo : \A e \in Uses(x, i) :
    (\E j \in 1..(i - 1) : x.todo[j] = <<"row", e>>) \/ Loaded(v, x, e)

\* A copy exists for the events a handler works on.
Copies(x) ==
  /\ \A i \in DOMAIN x.todo :
       /\ x.todo[i][1] \in {"prepare", "extract"} => {x.req.e, x.req.f} \subseteq DOMAIN x.copy
       /\ x.todo[i][1] \notin {"exists", "component", "attribute", "commit", "done"} =>
            x.todo[i][2] \in DOMAIN x.copy
  /\ \A e \in DOMAIN x.copy : DOMAIN x.copy[e] = DOMAIN Copy

\* The statuses the history of a copy accounts for.
Accounts(c) == {c.statuses[n].status : n \in DOMAIN c.statuses} \cup {"SYSTEM"}

\* An answer comes after the three reads; its status is explained since the first.
Answers(v, x) ==
  \A i \in DOMAIN x.todo : x.todo[i][1] = "answer" =>
    LET e == x.todo[i][2]
        c == x.copy[e]
    IN  /\ i = Len(x.todo) /\ \A j \in 1..3 : j < i => x.todo[i - j] = Load(e)[4 - j]
        /\ i \in 2..3 => c.row.status \in Statuses(v, e)
        /\ i = 1 => c.row.status \in Accounts(c)

\* Every status a session stores or answers is in the history of its event.
ExplainInv ==
  /\ Recorded(db)
  /\ \A s \in Session : LET x == ses[s]
       IN  /\ Recording(db, x) /\ LoadedFirst(db, x) /\ Copies(x) /\ Answers(db, x)
           /\ x.reply # Null /\ x.reply.code = 200 /\ x.reply.event # Null =>
                x.reply.raw \in x.reply.history \cup {"SYSTEM"}

\* A row "description" of e has an id below i.
Shifted(v, e, i) ==
  \E k \in StatusRows(v) : v[k].incident_id = e /\ v[k].status = "description" /\ k[2] < i

\* Update i of e is the n-th of its rows, unless a description shifts it.
Placed(v, e, i, n) ==
  /\ i \in UpdateIds(v, e) /\ n \in Nat \ {0}
  /\ Shifted(v, e, i) \/ Cardinality({j \in UpdateIds(v, e) : j < i}) = n - 1

\* What a copy of e shows is in place.
Lists(v, e, c) ==
  LET updates == ToAPIEvent(c.row, c.statuses, c.comps, TRUE).updates
  IN  \A n \in DOMAIN updates : Placed(v, e, updates[n].row, n)

\* PATCH updates/:n of an update of e is at its j-th step.
Editing(e) ==
  << <<"row", e>>, <<"components", e>>, <<"statuses", e>>, <<"pick", e>>,
     <<"updates", e>>, <<"text", e>>, <<"reread", e>> >>
Edits(todo, e, j) == Len(todo) = 8 - j /\ \A i \in 1..(8 - j) : todo[i] = Editing(e)[i + j - 1]

\* What the client was shown is in place, and then it is what the position finds.
Shows(v, x, j) ==
  /\ Edits(x.todo, x.req.e, j)
  /\ j <= 4 => x.shown = 0
  /\ j <= 5 => x.target = 0
  /\ j = 4 => Lists(v, x.req.e, x.copy[x.req.e])
  /\ j > 4 => Placed(v, x.req.e, x.shown, x.version)
  /\ j > 5 => x.target = x.shown \/ Shifted(v, x.req.e, x.shown)

Unshown(x) == x.shown = 0 /\ \A i \in DOMAIN x.todo : x.todo[i][1] \notin {"pick", "updates"}

\* The position a client was shown names the same update when it is used.
ShownInv == \A s \in Session : Unshown(ses[s]) \/ \E j \in 1..7 : Shows(db, ses[s], j)

\* A PATCH names a status; a stored incident that is reopened has no end.
ASSUME ReopenAssumption ==
  /\ \A q \in Request : q.op = "patch" => q.status \notin {Null, ""}
  /\ \A k \in DOMAIN Stored : k[1] = "Incident" =>
       "end_date" \in DOMAIN Stored[k] /\ ~(Stored[k].status = "reopened" /\ Stored[k].end_date # Null)

Reopens(todo, e) == \E i \in DOMAIN todo : todo[i] = <<"reopen", e>>
AtReopen(x, e) == x.todo # <<>> /\ x.todo[1] = <<"reopen", e>>

\* The copy a step writes is about to be cleared, closed or open, unless its end was
\* left to an event of d.
Settles(x, i, d) ==
  LET e == x.todo[i][2]
  IN  /\ x.todo[i][1] = "modify" =>
           /\ i = 1 /\ \A j \in DOMAIN x.todo : x.todo[j][1] # "save"
           /\ x.copy[e].row.status \notin {Null, ""}
           /\ x.copy[e].row.status = "reopened" => Reopens(x.todo, e)
      /\ x.todo[i][1] = "save" => ~EndLeft(x.copy[e].row) \/ e \in d
      /\ x.todo[i][1] = "decide" => x.req.status \notin {Null, ""}

\* A transaction that leaves an end clears it after its commit.
Clears(x, d) ==
  /\ \A k \in Rows(x.w, "Incident") :
       "end_date" \in DOMAIN x.w[k] /\ (EndLeft(x.w[k]) => Reopens(x.todo, k[2]) \/ k[2] \in d)
  /\ \A i \in DOMAIN x.todo : Settles(x, i, d)

\* An end that is left is about to be cleared by the request that reopened the
\* incident, or its event was cut.
ReopenInv ==
  /\ \A k \in Rows(db, "Incident") :
       /\ "end_date" \in DOMAIN db[k]
       /\ EndLeft(db[k]) => k[2] \in cut \/ \E s \in Session : AtReopen(ses[s], k[2])
  /\ \A s \in Session : Clears(ses[s], cut)

=============================================================================
