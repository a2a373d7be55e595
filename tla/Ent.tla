-------------------------------- MODULE Ent --------------------------------
(***************************************************************************)
(* What the builders of the generated client (ent/) do with the schema: a  *)
(* mutation gathers what was called on a builder, Save() checks it and     *)
(* turns it into one statement, the WHERE predicates follow SQL's three    *)
(* truth values, and a query ends in First, Only, Exist or All.            *)
(***************************************************************************)
EXTENDS EntSchema, SequencesExt

(***************************************************************************)
(* Mutations.  A unique edge and its field are one pointer in the          *)
(* generated struct, so `set' holds both; ids and removed are the sets of  *)
(* the other edges.                                                        *)
(***************************************************************************)

NewMutation(e) ==
  [set |-> [f \in {} |-> 0], add |-> [f \in {} |-> 0], cleared |-> {},
   ids |-> [g \in DOMAIN Schema[e].edge |-> {}],
   removed |-> [g \in DOMAIN Schema[e].edge |-> {}], clearedEdges |-> {}]

Without(fn, f) == IF f \in DOMAIN fn THEN [x \in DOMAIN fn \ {f} |-> fn[x]] ELSE fn
\* f where it is defined, g elsewhere.
Over(f, g) == [x \in DOMAIN f \cup DOMAIN g |-> IF x \in DOMAIN f THEN f[x] ELSE g[x]]
Entry(x, v) == [y \in {x} |-> v]
With(fn, f, v) == Over(Entry(f, v), fn)

\* Setting a field drops a pending addition to it, not its cleared mark.
SetField(m, f, v) == [m EXCEPT !.set = With(@, f, v), !.add = Without(@, f)]

AddField(m, f, v) ==
  [m EXCEPT !.add = With(@, f, v + IF f \in DOMAIN @ THEN @[f] ELSE 0)]

ClearField(m, f) ==
  [m EXCEPT !.set = Without(@, f), !.add = Without(@, f), !.cleared = @ \cup {f}]

ResetField(m, f) ==
  [m EXCEPT !.set = Without(@, f), !.add = Without(@, f), !.cleared = @ \ {f}]

AddIDs(m, g, s) == [m EXCEPT !.ids[g] = @ \cup s]
RemoveIDs(m, g, s) == [m EXCEPT !.ids[g] = @ \ s, !.removed[g] = @ \cup s]

\* A unique edge over a field that may be NULL also marks the field.
ClearEdge(e, m, g) ==
  [m EXCEPT !.clearedEdges = @ \cup {g},
            !.cleared = @ \cup ({Schema[e].edge[g]} \cap Schema[e].clear)]

\* The mark of the field stays.
ResetEdge(e, m, g) ==
  [m EXCEPT !.clearedEdges = @ \ {g}, !.ids[g] = {}, !.removed[g] = {},
            !.set = Without(@, Schema[e].edge[g])]

(***************************************************************************)
(* A builder is the sequence of calls made on it.                          *)
(***************************************************************************)

Set(f, v) == [do |-> "Set", on |-> f, with |-> v]
Add(f, v) == [do |-> "Add", on |-> f, with |-> v]
Clear(f) == [do |-> "Clear", on |-> f, with |-> Null]
Reset(f) == [do |-> "Reset", on |-> f, with |-> Null]
AddEdge(g, s) == [do |-> "AddIDs", on |-> g, with |-> s]
RemoveEdge(g, s) == [do |-> "RemoveIDs", on |-> g, with |-> s]
ClearAll(g) == [do |-> "ClearEdge", on |-> g, with |-> Null]
ResetAll(g) == [do |-> "ResetEdge", on |-> g, with |-> Null]

Call(e, m, c) ==
  CASE c.do = "Set" -> SetField(m, c.on, c.with)
    [] c.do = "Add" -> AddField(m, c.on, c.with)
    [] c.do = "Clear" -> ClearField(m, c.on)
    [] c.do = "Reset" -> ResetField(m, c.on)
    [] c.do = "AddIDs" -> AddIDs(m, c.on, c.with)
    [] c.do = "RemoveIDs" -> RemoveIDs(m, c.on, c.with)
    [] c.do = "ClearEdge" -> ClearEdge(e, m, c.on)
    [] c.do = "ResetEdge" -> ResetEdge(e, m, c.on)

Build(e, calls) == FoldLeft(LAMBDA m, c : Call(e, m, c), NewMutation(e), calls)

(***************************************************************************)
(* INSERT: defaults(), check(), createSpec().  What the statement does not *)
(* name the database fills with its default or NULL; only set values and   *)
(* ids of edges count.                                                     *)
(***************************************************************************)

Values(e, m) == Over(m.set, Schema[e].default)

CreatePasses(e, m) == CreateCheck(e, Values(e, m))

CreateColumns(e) ==
  Schema[e].create.fields
    \cup {Schema[e].create.edges[g][3] : g \in {g \in DOMAIN Schema[e].create.edges :
                                                Schema[e].create.edges[g][1] = "M2O"}}

\* The columns the statement names.
Inserted(e, m) == CreateColumns(e) \cap DOMAIN Values(e, m)

CreateRow(e, m, now) ==
  [c \in Schema[e].table.columns |->
     IF c \in Inserted(e, m) THEN Values(e, m)[c]
     ELSE IF c \in Schema[e].table.default THEN now ELSE Null]

(***************************************************************************)
(* INSERT ... ON CONFLICT: what becomes of the stored row.  A clause is a  *)
(* call of the Upsert builder, Excluded the value proposed for insertion.  *)
(***************************************************************************)

Excluded(f) == [do |-> "Excluded", on |-> f, with |-> Null]

UpsertRow(e, m, how, row, now) ==
  LET new == CreateRow(e, m, now)
      After(r, c) ==
        CASE c.do = "Set" -> [r EXCEPT ![c.on] = c.with]
          [] c.do = "Excluded" -> [r EXCEPT ![c.on] = new[c.on]]
          [] c.do = "Add" -> [r EXCEPT ![c.on] = (IF row[c.on] = Null THEN 0 ELSE row[c.on]) + c.with]
          [] c.do = "Clear" -> [r EXCEPT ![c.on] = Null]
  IN  CASE how.option \in {"Ignore", "DoNothing"} -> row
        [] how.option = "UpdateNewValues" ->
             [c \in DOMAIN row |-> IF c \in Inserted(e, m) THEN new[c] ELSE row[c]]
        [] how.option = "Update" -> FoldLeft(After, row, how.clauses)

(***************************************************************************)
(* UPDATE: check(), sqlSave().                                             *)
(***************************************************************************)

UpdatePasses(e, m) == UpdateCheck(e, m.set, m.clearedEdges)

ClearedColumns(e, m) ==
  (m.cleared \cap Schema[e].update.clear)
    \cup ({Schema[e].edge[g] : g \in m.clearedEdges \cap Schema[e].update.edges} \ {""})
    \cup (m.cleared \cap {Schema[e].edge[g] : g \in Schema[e].update.edges})

SetColumns(e, m) ==
  DOMAIN m.set \cap (Schema[e].update.set \cup {Schema[e].edge[g] : g \in Schema[e].update.edges})

AddColumns(e, m) == DOMAIN m.add \cap Schema[e].update.add

\* PostgreSQL refuses a statement that assigns a column twice.
AssignsOnce(e, m) ==
  /\ SetColumns(e, m) \cap AddColumns(e, m) = {}
  /\ (SetColumns(e, m) \cup AddColumns(e, m)) \cap ClearedColumns(e, m) = {}

UpdateRow(e, m, row) ==
  [c \in DOMAIN row |->
     IF c \in ClearedColumns(e, m) THEN Null
     ELSE IF c \in SetColumns(e, m) THEN m.set[c]
     ELSE IF c \in AddColumns(e, m) THEN (IF row[c] = Null THEN 0 ELSE row[c]) + m.add[c]
     ELSE row[c]]

\* The ids on the other side of an edge: removed or cleared first, then added.
EdgeAfter(m, g, ids) ==
  (IF g \in m.clearedEdges THEN {} ELSE ids \ m.removed[g]) \cup m.ids[g]

\* The constraints of the table a row must meet: NOT NULL.
NotNull(table, row) ==
  \A c \in table.columns \ table.nullable : row[c] # Null

\* The rows a new row of the entity would collide with.
Collides(e, row, rows) ==
  \E key \in Schema[e].table.unique, other \in rows :
    \A c \in key : row[c] # Null /\ row[c] = other[c]

(***************************************************************************)
(* Predicates: TRUE, FALSE or Null; a row is selected only by TRUE.        *)
(***************************************************************************)

Cmp(x, truth) == IF x = Null THEN Null ELSE truth
EQ(row, f, v) == Cmp(row[f], row[f] = v)
In(row, f, s) == Cmp(row[f], row[f] \in s)
NotIn(row, f, s) == Cmp(row[f], row[f] \notin s)
GTE(row, f, v) == IF row[f] = Null THEN Null ELSE row[f] >= v
LTE(row, f, v) == IF row[f] = Null THEN Null ELSE row[f] <= v
IsNil(row, f) == row[f] = Null

And(s) == IF FALSE \in s THEN FALSE ELSE IF Null \in s THEN Null ELSE TRUE
Or(s) == IF TRUE \in s THEN TRUE ELSE IF Null \in s THEN Null ELSE FALSE
Not(x) == IF x = Null THEN Null ELSE ~x

(***************************************************************************)
(* Queries.                                                                *)
(***************************************************************************)

\* Errors in place of an id.
NotFound == 0
NotSingular == -1

\* LIMIT 1 without an order; every use in internal/db selects by primary key.
First(ids) == IF ids = {} THEN NotFound ELSE CHOOSE i \in ids : TRUE
Only(ids) ==
  IF ids = {} THEN NotFound
  ELSE IF Cardinality(ids) > 1 THEN NotSingular ELSE CHOOSE i \in ids : TRUE
Exist(ids) == First(ids) # NotFound

(***************************************************************************)
(* Eager loading: one more query fills an edge of all the nodes of a first *)
(* one.  `nodes' are their ids, the result gives for each position the ids *)
(* on the other side.  A map from id to node is built first, so of two     *)
(* nodes with one id only the last is filled.                              *)
(***************************************************************************)

Holder(nodes, id) == CHOOSE i \in DOMAIN nodes :
                       nodes[i] = id /\ \A j \in DOMAIN nodes : nodes[j] = id => j <= i

\* rows: [id, fk] of the other table.
LoadO2M(nodes, rows) ==
  LET neighbors == {r \in rows : r.fk \in ToSet(nodes)}
  IN  [i \in DOMAIN nodes |-> {r.id : r \in {r \in neighbors : Holder(nodes, r.fk) = i}}]

\* Faulty variant: a neighbour shared by several nodes goes to one of them.
NidsOfOne(nodes, joined) ==
  [n \in {p[2] : p \in joined} |->
     {CHOOSE i \in DOMAIN nodes : \E p \in joined : p[2] = n /\ Holder(nodes, p[1]) = i}]

\* For every neighbour the nodes that get it, gathered while rows are read.
Nids(nodes, joined) ==
  [n \in {p[2] : p \in joined} |-> {Holder(nodes, p[1]) : p \in {q \in joined : q[2] = n}}]

\* relation: pairs of a node's id and a neighbour's.
LoadM2M(nodes, relation) ==
  LET nids == Nids(nodes, {p \in relation : p[1] \in ToSet(nodes)})
  IN  [i \in DOMAIN nodes |-> {n \in DOMAIN nids : i \in nids[n]}]

\* fks: the field of each node, NULL read back as 0; others: the ids that exist.
LoadM2O(fks, others) ==
  [i \in DOMAIN fks |-> IF fks[i] \in others THEN fks[i] ELSE NotFound]

ReadFk(x) == IF x = Null THEN 0 ELSE x

LoadAttributes(components, attrs) ==
  LoadO2M(components, {[id |-> a, fk |-> attrs[a]] : a \in DOMAIN attrs})
LoadNotifications(incidents, outbox) ==
  LoadO2M(incidents, {[id |-> o, fk |-> outbox[o]] : o \in DOMAIN outbox})
LoadComponents(incidents, relation) == LoadM2M(incidents, relation)
LoadIncidents(components, relation) ==
  LoadM2M(components, {<<p[2], p[1]>> : p \in relation})
LoadComponent(nodes, attrs, components) ==
  LoadM2O([i \in DOMAIN nodes |-> ReadFk(attrs[nodes[i]])], components)
LoadIncident(nodes, outbox, incidents) ==
  LoadM2O([i \in DOMAIN nodes |-> ReadFk(outbox[nodes[i]])], incidents)

\* assignValues(): a row as the entity's struct.
ReadBack(e, row) ==
  [c \in DOMAIN row |->
     IF row[c] = Null /\ c \notin Schema[e].nillable THEN Zero(Schema[e].field[c]) ELSE row[c]]

=============================================================================
