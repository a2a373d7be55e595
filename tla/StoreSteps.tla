----------------------------- MODULE StoreSteps -----------------------------
(***************************************************************************)
(* What the proofs about Store say of its steps: the programs written out, *)
(* what a statement leaves of its session, what a sequence of builder      *)
(* calls leaves of a mutation, and what a step carries over of the copies, *)
(* writes and histories that the invariants relate.                        *)
(***************************************************************************)
EXTENDS Store

(* The programs, written out. *)
Getting(e) ==
  << <<"row", e>>, <<"components", e>>, <<"statuses", e>>, <<"answer", e>> >>
Checking(e) ==
  << <<"row", e>>, <<"components", e>>, <<"statuses", e>>, <<"decide", e>> >>
Extracting(e) ==
  << <<"row", e>>, <<"components", e>>, <<"statuses", e>>, <<"extract", e>> >>
Preparing(e, f) ==
  << <<"row", e>>, <<"components", e>>, <<"statuses", e>>, <<"row", f>>,
     <<"components", f>>, <<"statuses", f>>, <<"prepare", e>> >>
Patching(e) ==
  << <<"modify", e>>, <<"insert", e>>, <<"commit", e>>, <<"row", e>>, <<"components", e>>,
     <<"statuses", e>>, <<"answer", e>> >>
Reopening(e) ==
  << <<"modify", e>>, <<"insert", e>>, <<"commit", e>>, <<"reopen", e>>, <<"row", e>>, <<"components", e>>,
     <<"statuses", e>>, <<"answer", e>> >>
Moving(e, f) ==
  << <<"save", f>>, <<"link", f>>, <<"insert", f>>, <<"save", e>>, <<"link", e>>, <<"insert", e>>,
     <<"commit", e>>, <<"done", e>> >>
MovingAway(e, f) ==
  << <<"unlink", e>>, <<"save", f>>, <<"link", f>>, <<"insert", f>>, <<"save", e>>, <<"link", e>>,
     <<"insert", e>>, <<"commit", e>>, <<"done", e>> >>

Others(s) == DOMAIN ses' = Session /\ \A t \in Session \ {s} : ses'[t] = ses[t]

\* An event in an answer is the session's copy.
Replied(s) ==
  ses'[s].reply # Null /\ ses'[s].reply.event # Null =>
    /\ At(s, "answer") /\ ses'[s].reply.raw = ses[s].copy[Event(s)].row.status
    /\ ses'[s].reply.history = {ses[s].copy[Event(s)].statuses[i].status :
                                  i \in DOMAIN ses[s].copy[Event(s)].statuses}

\* The session's handler has answered.
Answered(s) ==
  /\ Others(s) /\ DOMAIN ses'[s] = DOMAIN Idle /\ Replied(s)
  /\ ses'[s].todo = <<>> /\ DOMAIN ses'[s].w = {} /\ DOMAIN ses'[s].copy = {} /\ ses'[s].shown = 0

Same == db' = db /\ seq' = seq /\ cut' = cut

\* The statement has read; the session's memory changes in `copy', `version',
\* `shown' or `target' only.
Read(s) ==
  /\ Same /\ Others(s) /\ DOMAIN ses'[s] = DOMAIN Idle /\ ses'[s].todo = Tail(ses[s].todo)
  /\ ses'[s].w = ses[s].w /\ ses'[s].req = ses[s].req /\ ses'[s].reply = ses[s].reply

\* The statement has written in the session's transaction.
Wrote(s, rows) ==
  /\ Holders(s, DOMAIN rows) = {} /\ cut' = cut /\ db' = db
  /\ Others(s) /\ DOMAIN ses'[s] = DOMAIN Idle /\ ses'[s].todo = Tail(ses[s].todo)
  /\ ses'[s].w = Over(rows, ses[s].w) /\ ses'[s].req = ses[s].req /\ ses'[s].reply = ses[s].reply

\* The statement has written and committed.
Stored1(s, rows) ==
  /\ Holders(s, DOMAIN rows) = {} /\ cut' = cut /\ seq' = seq /\ db' = Overlay(db, rows)
  /\ Others(s) /\ DOMAIN ses'[s] = DOMAIN Idle /\ ses'[s].todo = Tail(ses[s].todo)
  /\ ses'[s].w = ses[s].w /\ ses'[s].req = ses[s].req /\ ses'[s].reply = ses[s].reply
  /\ ses'[s].copy = ses[s].copy /\ ses'[s].version = ses[s].version /\ ses'[s].shown = ses[s].shown
  /\ ses'[s].target = ses[s].target

PatchMutation(row) ==
  Build("Incident", ApplyIncidentPatch(row) \o <<Set("version", row.version + 1), Set("modified_at", Now)>>)

\* The row a transaction adds to a history.
NewStatus(e, status) == CreateRow("IncidentStatus", InsertIncidentStatus(e, status), Now)

EditMutation == Build("IncidentStatus", <<Set("text", "edited"), Set("modified_at", Now)>>)

\* The copies after the checks of a move.
MovedTo(s) == [ses[s].copy[ses[s].req.f] EXCEPT !.comps = @ \cup {ses[s].req.c}, !.new = <<"SYSTEM">>]
MovedFrom(s) ==
  IF ses[s].req.closes
    THEN [ses[s].copy[ses[s].req.e] EXCEPT !.row.status = "resolved", !.row.end_date = Now, !.new = <<"resolved">>]
    ELSE [ses[s].copy[ses[s].req.e] EXCEPT !.new = <<"SYSTEM">>]

\* The incident that components are extracted into, and the copies the extraction goes on with.
Source(s) == ses[s].copy[ses[s].req.e]
NewRow(s) == NewIncident(Source(s).row)
ExtractedTo(s) == [row |-> ReadBack("Incident", NewRow(s)), comps |-> {ses[s].req.c}, statuses |-> <<>>,
                   new |-> <<"SYSTEM">>]
ExtractedFrom(s) == [Source(s) EXCEPT !.new = <<"SYSTEM">>]

Extracted(s) ==
  /\ <<"Incident", ses[s].req.f>> \notin DOMAIN db
  /\ db' = Overlay(db, NewRows(ses[s].req.f, ses[s].req.c, NewRow(s)))
  /\ seq' = seq /\ cut' = IF EndLeft(Source(s).row) THEN cut \cup {ses[s].req.e} ELSE cut
  /\ Others(s) /\ DOMAIN ses'[s] = DOMAIN Idle
  /\ ses[s].req \in Request /\ ses'[s].todo = MoveSteps(ses[s].req)
  /\ ses'[s].w = ses[s].w /\ ses'[s].req = ses[s].req /\ ses'[s].reply = ses[s].reply
  /\ ses'[s].version = ses[s].version /\ ses'[s].shown = ses[s].shown
  /\ ses'[s].target = ses[s].target
  /\ ses'[s].copy = [ses[s].copy EXCEPT ![ses[s].req.f] = ExtractedTo(s), ![ses[s].req.e] = ExtractedFrom(s)]

Relation(e, c) == <<"Relation", <<e, c>>>>

SaveMutation(row) ==
  LET always == <<"text", "start_date", "impact", "system", "type", "status", "version">>
      optional == <<"description", "end_date", "deleted_at", "created_by", "contact_email">>
  IN  Build("Incident",
        [i \in DOMAIN always |-> Set(always[i], row[always[i]])]
        \o <<Set("created_at", IF row.created_at # Null THEN row.created_at ELSE Now),
             Set("modified_at", Now)>>
        \o [i \in DOMAIN optional |-> LET f == optional[i] IN
               IF row[f] # Null THEN Set(f, row[f]) ELSE Clear(f)])

ComponentMutation(q) ==
  Build("Component", <<Set("name", q.name), Set("created_at", Now), Set("modified_at", Now)>>)

AttributeMutation(name, q, c) ==
  Build("ComponentAttr",
        <<Set("name", name), Set("value", IF name = "region" THEN q.region ELSE name), Set("component_id", c)>>)

LessNat == {s \in Nat \X Nat : s[1] < s[2]}

\* g gives what the calls at each set of positions leave, the last one made last.
Gathers(g, e, calls, n) ==
  g = [s \in SUBSET (1..n) |->
         IF s = {} THEN NewMutation(e) ELSE Call(e, g[s \ {Max(s)}], calls[Max(s)])]

\* What k calls that set a field each leave.
Plain(m) ==
  /\ DOMAIN m = {"set", "add", "cleared", "ids", "removed", "clearedEdges"}
  /\ DOMAIN m.add = {} /\ m.cleared = {} /\ m.clearedEdges = {}
FieldsSet(m, calls, k) ==
  /\ DOMAIN m.set = {calls[j].on : j \in 1..k}
  /\ \A j \in 1..k : (\A i \in 1..k : calls[i].on = calls[j].on => i <= j) => m.set[calls[j].on] = calls[j].with

\* A session's part of AppendInv.
Appends(x, v, last) == Numbered(x.w, last) /\ Follows(x.w, v) /\ LockedFirst(x.todo, DOMAIN x.w)

\* The histories of v and x are the same; those of x are longer.
SameUpdates(v, x) ==
  /\ StatusRows(x) = StatusRows(v)
  /\ \A k \in StatusRows(v) : "incident_id" \in DOMAIN x[k] /\ x[k].incident_id = v[k].incident_id
Longer(v, x) ==
  \A e : /\ UpdateIds(v, e) \subseteq UpdateIds(x, e)
         /\ \A i \in UpdateIds(v, e), j \in UpdateIds(x, e) \ UpdateIds(v, e) : i < j

\* A session's part of WholeInv, and what its handler does without it.
Parts(x, v, c, a) == Counted(x.w, c, a) /\ Apart(x.w, v) /\ Registered(x)
Elsewhere(t) == \A i \in DOMAIN t : t[i][1] \notin {"component", "attribute"}
Whole(v) == \A c \in Ids(v, "Component") : Attributes(v, c) = Range(Attribute)

\* x has the components and attributes of v.
SameRegistry(v, x) ==
  \A n \in {"Component", "ComponentAttr"} : Rows(x, n) = Rows(v, n) /\ \A k \in Rows(v, n) : x[k] = v[k]

\* What k calls that set or clear a field each leave.
Leaves(m, calls, k) ==
  /\ DOMAIN m = {"set", "add", "cleared", "ids", "removed", "clearedEdges"}
  /\ DOMAIN m.add = {} /\ m.clearedEdges = {}
  /\ \A f \in DOMAIN m.set : \E j \in 1..k : calls[j].do = "Set" /\ calls[j].on = f /\ calls[j].with = m.set[f]
  /\ \A f \in m.cleared : \E j \in 1..k : calls[j].do = "Clear" /\ calls[j].on = f

\* n calls that set or clear a field each, and set f if any.
Setting(calls, n, f) ==
  DOMAIN calls = 1..n /\ \A k \in 1..n : calls[k].do \in {"Set", "Clear"} /\ (calls[k].on = f => calls[k].do = "Set")

\* The column holds what it held or a value that was set.
SetOrLeft(z, row, f, calls, n) ==
  f \in DOMAIN z /\ (z[f] = row[f] \/ \E k \in 1..n : calls[k].on = f /\ z[f] = calls[k].with)

\* n calls.
Calls(a, n) == a = [i \in 1..n |-> a[i]]
Joins(a, b, c) == c = a \o b
Joined(a, m, b, n, c) ==
  /\ DOMAIN c = 1..(m + n) /\ Calls(c, m + n)
  /\ \A i \in 1..(m + n) : (i \in 1..m /\ c[i] = a[i]) \/ (i - m \in 1..n /\ c[i] = b[i - m])

\* n calls, those on f all of the kind d, and one of them among the first k.
OneKind(calls, n, f, d) ==
  DOMAIN calls = 1..n /\ \A k \in 1..n : calls[k].do \in {"Set", "Clear"} /\ (calls[k].on = f => calls[k].do = d)
Called(calls, k, f) == \E j \in 1..k : calls[j].on = f
Reached(m, f, d) == IF d = "Set" THEN f \in DOMAIN m.set ELSE f \in m.cleared

\* Columns an UPDATE may set or clear, and a column with a value that was set.
Settable(e, f) == f \in Schema[e].update.set
Clearable(e, f) == f \in Schema[e].update.clear
Given(z, f, calls, n) == f \in DOMAIN z /\ \E k \in 1..n : calls[k].on = f /\ z[f] = calls[k].with

\* A session's part of ExplainInv.
Truthful(x) ==
  x.reply # Null /\ x.reply.code = 200 /\ x.reply.event # Null => x.reply.raw \in x.reply.history \cup {"SYSTEM"}
Told(v, x) == Recording(v, x) /\ LoadedFirst(v, x) /\ Copies(x) /\ Answers(v, x) /\ Truthful(x)

\* The tables lose no incident and no status of a history.
Grown(v, u) ==
  (\A e : Statuses(v, e) \subseteq Statuses(u, e)) /\ \A k \in DOMAIN v : k[1] = "Incident" => k \in DOMAIN u

\* The session goes on from x to y, the tables from v to u.
Carries(v, x, u, y) ==
  /\ x.todo \in Seq(Steps) /\ x.todo # <<>> /\ y.todo = Tail(x.todo) /\ y.req = x.req
  /\ DOMAIN y.copy = DOMAIN x.copy
  /\ \A e \in DOMAIN x.copy : /\ DOMAIN y.copy[e] = DOMAIN x.copy[e]
                              /\ x.todo[1] # <<"insert", e>> => y.copy[e].new = x.copy[e].new
  /\ \A e : Statuses(v, e) \cup Statuses(x.w, e) \subseteq Statuses(u, e) \cup Statuses(y.w, e)
  /\ \A e : x.todo[1] = <<"insert", e>> => AsRead(Head(x.copy[e].new)) \in Statuses(y.w, e)

\* The rows of the copies that were loaded keep their status, and one just read is explained.
RowsCarried(v, x, u, y) ==
  /\ \A e \in DOMAIN x.copy : x.todo[1] # <<"row", e>> /\ "status" \in DOMAIN x.copy[e].row =>
       "status" \in DOMAIN y.copy[e].row /\ y.copy[e].row.status = x.copy[e].row.status
  /\ \A e : x.todo[1] = <<"row", e>> => Loaded(u, y, e)
  /\ \A e : <<"Incident", e>> \in DOMAIN v => <<"Incident", e>> \in DOMAIN u

\* What is read for an answer is explained.
ReadsCarried(v, x, u, y) ==
  \A e : /\ x.todo[1] = <<"row", e>> => y.copy[e].row.status \in Statuses(u, e)
         /\ x.todo[1] = <<"components", e>> /\ x.copy[e].row.status \in Statuses(v, e) =>
              y.copy[e].row.status \in Statuses(u, e)
         /\ x.todo[1] = <<"statuses", e>> /\ x.copy[e].row.status \in Statuses(v, e) =>
              y.copy[e].row.status \in Accounts(y.copy[e])

\* What the session has written has a status, explained for an incident.
WritesCarried(x, u, y) ==
  /\ \A k \in StatusRows(y.w) : "status" \in DOMAIN y.w[k]
  /\ \A k \in Rows(y.w, "Incident") :
       \/ k \in Rows(x.w, "Incident") /\ y.w[k] = x.w[k]
       \/ /\ k = <<"Incident", k[2]>> /\ k \in DOMAIN u /\ k[2] \in DOMAIN y.copy
          /\ "status" \in DOMAIN y.w[k] /\ AsRead(y.w[k].status) \in Explained(u, y, k[2])

\* Heads that read nothing of an event.
Silent(n) == n \notin {"row", "components", "statuses", "insert"}

\* The copy of e has the field f anew.
Refreshed(c, d, e, f) ==
  /\ DOMAIN d = DOMAIN c /\ \A g \in DOMAIN c : DOMAIN d[g] = DOMAIN c[g] /\ d[g].new = c[g].new
  /\ \A g \in DOMAIN c \ {e} : d[g] = c[g]
  /\ e \in DOMAIN c
  /\ f # "row" => d[e].row = c[e].row

\* The copies keep what an insert and a save need.
CopiesKept(c, d) ==
  /\ DOMAIN d = DOMAIN c
  /\ \A e \in DOMAIN c :
       /\ DOMAIN d[e] = DOMAIN c[e] /\ d[e].new = c[e].new
       /\ "status" \in DOMAIN c[e].row => "status" \in DOMAIN d[e].row /\ d[e].row.status = c[e].row.status

\* The answer of a program is its last step, after the three reads.
AnswerLast(t) ==
  \A i \in DOMAIN t : t[i][1] = "answer" =>
    i = Len(t) /\ i > 3 /\ \A j \in 1..3 : t[i - j] = Load(t[i][2])[4 - j]

\* Steps of a program that have a copy to work on.
Planned(t, q, C) ==
  \A i \in DOMAIN t :
    /\ t[i][1] \in {"prepare", "extract"} => {q.e, q.f} \subseteq C
    /\ t[i][1] \notin {"exists", "component", "attribute", "commit", "done"} => t[i][2] \in C

\* A program that loads what it works on.
LoadsFirst(t, q) ==
  \A i \in DOMAIN t :
    /\ t[i][1] = "prepare" => \A e \in {q.e, q.f} : \E j \in 1..(i - 1) : t[j] = <<"row", e>>
    /\ t[i][1] = "extract" => \E j \in 1..(i - 1) : t[j] = <<"row", q.e>>
    /\ t[i][1] \in {"decide", "modify", "save", "reopen"} => \E j \in 1..(i - 1) : t[j] = <<"row", t[i][2]>>

\* What remains of a move or an extraction once it is prepared.
MovePlanned(t, e, f) ==
  /\ AnswerLast(t) /\ DOMAIN t \subseteq Nat
  /\ \A i \in DOMAIN t : t[i][1] \notin {"prepare", "extract"} /\ t[i][2] \in {e, f}
  /\ \A g \in {e, f} : \E i \in DOMAIN t : t[i] = <<"insert", g>>

\* m values.
Filled(s, m) == s = [i \in 1..m |-> s[i]]

Unmapped(inc) ==
  [last |-> NormalizeStatus(inc.status, inc.end_date, inc.type), updates |-> <<>>, description |-> ""]

\* g gives what is shown of the rows at each set of positions.
Maps(g, statuses, inc, n) ==
  g = [s \in SUBSET (1..n) |->
         IF s = {} THEN Unmapped(inc) ELSE MapUpdate(g[s \ {Max(s)}], statuses[Max(s)], TRUE, inc)]

\* One of the first k rows is a description.
Described(statuses, k) == \E p \in 1..k : statuses[p].status = "description"

\* Of the first k rows, each is shown at its own position unless a description comes before it.
Shown(statuses, k, acc) ==
  /\ DOMAIN acc = {"last", "updates", "description"}
  /\ \E m \in Nat : /\ DOMAIN acc.updates = 1..m /\ Filled(acc.updates, m)
                    /\ m = k \/ Described(statuses, k)
  /\ \A i \in DOMAIN acc.updates :
       \E j \in 1..k : acc.updates[i].row = statuses[j].id /\ (j = i \/ Described(statuses, j - 1))

\* Every position holds the row of its status, or of a later one after a description.
AllShown(updates, statuses, k) ==
  \A n \in DOMAIN updates :
    n \in Nat \ {0} /\ \E j \in 1..k : updates[n].row = statuses[j].id /\ (j = n \/ Described(statuses, j - 1))

Below(ids, i) == {j \in ids : j < i}

\* Every position has an id.
AllPlaced(ids) == \A n \in 1..Cardinality(ids) : \E i \in ids : Cardinality(Below(ids, i)) = n - 1

\* The n-th of the list has n - 1 ids below it.
InOrder(ids, list) ==
  /\ Cardinality(ids) \in Nat /\ DOMAIN list = 1..Cardinality(ids)
  /\ \A n \in DOMAIN list : list[n] \in ids /\ Cardinality(Below(ids, list[n])) = n - 1

\* Every update row has a status.
HasStatus(v) == \A k \in StatusRows(v) : "status" \in DOMAIN v[k]

\* sts are the updates with the ids of list, as read.
ReadOf(v, list, sts) ==
  /\ DOMAIN sts = DOMAIN list
  /\ \A n \in DOMAIN list : /\ sts[n].id = list[n]
                            /\ sts[n].status = ReadBack("IncidentStatus", v[<<"IncidentStatus", list[n]>>]).status

\* The histories only grow, and their rows keep event and status.
Kept(v, u) ==
  /\ \A k \in StatusRows(v) : /\ k \in StatusRows(u) /\ u[k].incident_id = v[k].incident_id
                              /\ u[k].status = v[k].status
  /\ Longer(v, u)

Quiet(t) == \A i \in DOMAIN t : t[i][1] \notin {"pick", "updates"}
Showing(v, x) == Unshown(x) \/ \E j \in 1..7 : Shows(v, x, j)

\* The name of the j-th step.
EditName(j, n) ==
  /\ j = 1 => n = "row"
  /\ j = 2 => n = "components"
  /\ j = 3 => n = "statuses"
  /\ j = 4 => n = "pick"
  /\ j = 5 => n = "updates"
  /\ j = 6 => n = "text"
  /\ j = 7 => n = "reread"

\* Somebody is about to clear the end of e, or failed to.
Pends(e, c, f) == e \in c \/ \E s \in Session : AtReopen(f[s], e)
Open(v, c, f) ==
  \A k \in Rows(v, "Incident") : "end_date" \in DOMAIN v[k] /\ (EndLeft(v[k]) => Pends(k[2], c, f))

(* A row is not copied anew, and not written, while a step that writes it remains. *)
WritesKept(x, y) ==
  \A i \in DOMAIN y.todo : y.todo[i][1] = "save" => y.copy[y.todo[i][2]].row = x.copy[y.todo[i][2]].row
RowsWritten(x, y, d) ==
  \A k \in Rows(y.w, "Incident") :
    \/ k \in Rows(x.w, "Incident") /\ y.w[k] = x.w[k]
    \/ "end_date" \in DOMAIN y.w[k] /\ (EndLeft(y.w[k]) => Reopens(y.todo, k[2]) \/ k[2] \in d)

=============================================================================
