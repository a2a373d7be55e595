---------------------------- MODULE EntDeclared ----------------------------
(***************************************************************************)
(* The entities as they are declared (ent/schema), the rest of what the    *)
(* generator made of them - columns, setters, predicates, orders, the      *)
(* edges the client follows - and the rule by which the declaration        *)
(* determines all of it.                                                   *)
(***************************************************************************)
EXTENDS EntSchema

(***************************************************************************)
(* ent/schema.  expr: the default is an expression of the database; bound: *)
(* the field that holds an edge.                                           *)
(***************************************************************************)

ComponentDeclared ==
  [type |-> [name |-> "string", created_at |-> "time", modified_at |-> "time", deleted_at |-> "time"],
   optional |-> {"created_at", "modified_at", "deleted_at"}, nillable |-> {}, notEmpty |-> {"name"},
   default |-> {}, expr |-> {}, edges |-> {"attributes", "incidents"}, bound |-> {}, unique |-> {}]

ComponentAttrDeclared ==
  [type |-> [component_id |-> "int", name |-> "string", value |-> "string"],
   optional |-> {"component_id"}, nillable |-> {}, notEmpty |-> {"name", "value"},
   default |-> {}, expr |-> {}, edges |-> {"component"}, bound |-> {"component_id"},
   unique |-> {{"component_id", "name"}}]

IncidentDeclared ==
  [type |-> [text |-> "string", description |-> "string", start_date |-> "time", end_date |-> "time",
             impact |-> "int", system |-> "bool", type |-> "enum", status |-> "string",
             created_at |-> "time", modified_at |-> "time", deleted_at |-> "time",
             created_by |-> "string", contact_email |-> "string", version |-> "int"],
   optional |-> {"description", "end_date", "status", "created_at", "modified_at", "deleted_at",
                 "created_by", "contact_email"},
   nillable |-> {"description", "created_by", "contact_email"}, notEmpty |-> {"text"},
   default |-> {"system", "version"}, expr |-> {}, edges |-> {"components", "notifications"},
   bound |-> {}, unique |-> {}]

IncidentStatusDeclared ==
  [type |-> [incident_id |-> "int", timestamp |-> "time", text |-> "string", status |-> "string",
             created_at |-> "time", modified_at |-> "time", deleted_at |-> "time",
             created_by |-> "string", modified_by |-> "string"],
   optional |-> {"incident_id", "created_at", "modified_at", "deleted_at", "created_by", "modified_by"},
   nillable |-> {"created_by", "modified_by"}, notEmpty |-> {"text", "status"},
   default |-> {}, expr |-> {}, edges |-> {}, bound |-> {}, unique |-> {}]

NotificationOutboxDeclared ==
  [type |-> [kind |-> "string", incident_id |-> "int", recipient |-> "string", payload |-> "json",
             change_id |-> "string", dedup_key |-> "string", status |-> "string", attempts |-> "int",
             next_attempt_at |-> "time", locked_by |-> "string", locked_at |-> "time",
             last_error |-> "string", created_at |-> "time", updated_at |-> "time"],
   optional |-> {"next_attempt_at", "locked_by", "locked_at", "last_error"},
   nillable |-> {"locked_by", "last_error"},
   notEmpty |-> {"kind", "recipient", "change_id", "dedup_key"}, default |-> {"status", "attempts"},
   expr |-> {"created_at", "updated_at"}, edges |-> {"incident"}, bound |-> {"incident_id"},
   unique |-> {{"dedup_key"}}]

Declared ==
  [Component |-> ComponentDeclared, ComponentAttr |-> ComponentAttrDeclared,
   Incident |-> IncidentDeclared, IncidentStatus |-> IncidentStatusDeclared,
   NotificationOutbox |-> NotificationOutboxDeclared]

(***************************************************************************)
(* The columns a query may name, besides id, and those it can be ordered   *)
(* by.                                                                     *)
(***************************************************************************)

ComponentColumns == {"name", "created_at", "modified_at", "deleted_at"}
ComponentAttrColumns == {"component_id", "name", "value"}
IncidentColumns ==
  {"text", "description", "start_date", "end_date", "impact", "system", "type", "status", "created_at",
   "modified_at", "deleted_at", "created_by", "contact_email", "version"}
IncidentStatusColumns ==
  {"incident_id", "timestamp", "text", "status", "created_at", "modified_at", "deleted_at",
   "created_by", "modified_by"}
NotificationOutboxColumns ==
  {"kind", "incident_id", "recipient", "payload", "change_id", "dedup_key", "status", "attempts",
   "next_attempt_at", "locked_by", "locked_at", "last_error", "created_at", "updated_at"}

ComponentOrder == ComponentColumns
ComponentAttrOrder == ComponentAttrColumns
IncidentOrder == IncidentColumns
IncidentStatusOrder == IncidentStatusColumns
NotificationOutboxOrder == NotificationOutboxColumns \ {"payload"}

(***************************************************************************)
(* The methods of the create and update builders; a nillable setter does   *)
(* nothing when it is given nil.                                           *)
(***************************************************************************)

ComponentSetters ==
  [set |-> ComponentColumns, nillable |-> {"created_at", "modified_at", "deleted_at"}]
ComponentAttrSetters == [set |-> ComponentAttrColumns, nillable |-> {"component_id"}]
IncidentSetters ==
  [set |-> IncidentColumns, nillable |-> IncidentColumns \ {"text", "start_date", "impact", "type"}]
IncidentStatusSetters ==
  [set |-> IncidentStatusColumns, nillable |-> IncidentStatusColumns \ {"timestamp", "text", "status"}]
NotificationOutboxSetters ==
  [set |-> NotificationOutboxColumns,
   nillable |-> {"status", "attempts", "next_attempt_at", "locked_by", "locked_at", "last_error"}]

ComponentUpdateSetters ==
  [set |-> ComponentColumns, nillable |-> ComponentColumns, add |-> {},
   clear |-> {"created_at", "modified_at", "deleted_at"}]
ComponentAttrUpdateSetters ==
  [set |-> ComponentAttrColumns, nillable |-> ComponentAttrColumns, add |-> {}, clear |-> {"component_id"}]
IncidentUpdateSetters ==
  [set |-> IncidentColumns, nillable |-> IncidentColumns, add |-> {"impact", "version"},
   clear |-> {"description", "end_date", "status", "created_at", "modified_at", "deleted_at",
              "created_by", "contact_email"}]
IncidentStatusUpdateSetters ==
  [set |-> IncidentStatusColumns, nillable |-> IncidentStatusColumns, add |-> {"incident_id"},
   clear |-> {"incident_id", "created_at", "modified_at", "deleted_at", "created_by", "modified_by"}]
NotificationOutboxUpdateSetters ==
  [set |-> NotificationOutboxColumns, nillable |-> NotificationOutboxColumns \ {"payload"},
   add |-> {"attempts"}, clear |-> {"next_attempt_at", "locked_by", "locked_at", "last_error"}]

(***************************************************************************)
(* The predicates by kind: EQ and NEQ; In and NotIn; the four comparisons; *)
(* Contains, HasPrefix, HasSuffix and the folds; IsNil and NotNil.         *)
(***************************************************************************)

ComponentWhere ==
  [eq |-> ComponentColumns, in |-> ComponentColumns, compare |-> ComponentColumns, text |-> {"name"},
   nil |-> {"created_at", "modified_at", "deleted_at"}]
ComponentAttrWhere ==
  [eq |-> ComponentAttrColumns, in |-> ComponentAttrColumns, compare |-> {"name", "value"},
   text |-> {"name", "value"}, nil |-> {"component_id"}]
IncidentWhere ==
  [eq |-> IncidentColumns, in |-> IncidentColumns \ {"system"},
   compare |-> IncidentColumns \ {"system", "type"},
   text |-> {"text", "description", "status", "created_by", "contact_email"},
   nil |-> {"description", "end_date", "status", "created_at", "modified_at", "deleted_at",
            "created_by", "contact_email"}]
IncidentStatusWhere ==
  [eq |-> IncidentStatusColumns, in |-> IncidentStatusColumns, compare |-> IncidentStatusColumns,
   text |-> {"text", "status", "created_by", "modified_by"},
   nil |-> {"incident_id", "created_at", "modified_at", "deleted_at", "created_by", "modified_by"}]
NotificationOutboxWhere ==
  [eq |-> NotificationOutboxColumns \ {"payload"}, in |-> NotificationOutboxColumns \ {"payload"},
   compare |-> NotificationOutboxColumns \ {"payload", "incident_id"},
   text |-> {"kind", "recipient", "change_id", "dedup_key", "status", "locked_by", "last_error"},
   nil |-> {"next_attempt_at", "locked_by", "locked_at", "last_error"}]

(***************************************************************************)
(* The edges as the client follows them from an entity.                    *)
(***************************************************************************)

ComponentSteps ==
  [attributes |-> <<"O2M", "ComponentAttr", "component_id">>,
   incidents |-> <<"M2M", "IncidentComponentRelation", "inverse">>]
ComponentAttrSteps == [component |-> <<"M2O", "Component", "component_id">>]
IncidentSteps ==
  [components |-> <<"M2M", "IncidentComponentRelation", "direct">>,
   notifications |-> <<"O2M", "NotificationOutbox", "incident_id">>]
IncidentStatusSteps == [e \in {} |-> << >>]
NotificationOutboxSteps == [incident |-> <<"M2O", "Incident", "incident_id">>]

Generated ==
  [Component |->
     [columns |-> ComponentColumns, order |-> ComponentOrder, setters |-> ComponentSetters,
      update |-> ComponentUpdateSetters, where |-> ComponentWhere, steps |-> ComponentSteps],
   ComponentAttr |->
     [columns |-> ComponentAttrColumns, order |-> ComponentAttrOrder, setters |-> ComponentAttrSetters,
      update |-> ComponentAttrUpdateSetters, where |-> ComponentAttrWhere, steps |-> ComponentAttrSteps],
   Incident |->
     [columns |-> IncidentColumns, order |-> IncidentOrder, setters |-> IncidentSetters,
      update |-> IncidentUpdateSetters, where |-> IncidentWhere, steps |-> IncidentSteps],
   IncidentStatus |->
     [columns |-> IncidentStatusColumns, order |-> IncidentStatusOrder,
      setters |-> IncidentStatusSetters, update |-> IncidentStatusUpdateSetters,
      where |-> IncidentStatusWhere, steps |-> IncidentStatusSteps],
   NotificationOutbox |->
     [columns |-> NotificationOutboxColumns, order |-> NotificationOutboxOrder,
      setters |-> NotificationOutboxSetters, update |-> NotificationOutboxUpdateSetters,
      where |-> NotificationOutboxWhere, steps |-> NotificationOutboxSteps]]

(***************************************************************************)
(* The rule.  What is generated twice agrees; what depends on an option of *)
(* a field is there for exactly the fields with that option.               *)
(***************************************************************************)

OfType(d, types) == {f \in DOMAIN d.type : d.type[f] \in types}
Addable(d) == OfType(d, {"int"}) \ d.bound
RequiredFields(d) == DOMAIN d.type \ (d.optional \cup d.default \cup d.expr)

TableAsDeclared(d, table) ==
  /\ table.columns = DOMAIN d.type /\ table.nullable = d.optional
  /\ table.default = d.default \cup d.expr /\ table.unique = d.unique

MutationAsDeclared(d, s) ==
  /\ s.field = d.type /\ s.add = Addable(d) /\ s.clear = d.optional /\ s.reset = DOMAIN d.type
  /\ DOMAIN s.edge = d.edges /\ {s.edge[g] : g \in d.edges} \ {""} = d.bound
  /\ DOMAIN s.default = d.default /\ s.nillable = d.nillable

StatementsAsDeclared(d, s, g) ==
  /\ s.create.fields = DOMAIN d.type \ d.bound /\ s.update.set = s.create.fields
  /\ s.update.clear = d.optional \ d.bound /\ s.update.add = Addable(d)
  /\ s.update.edges = d.edges /\ s.create.edges = g.steps

BuildersAsDeclared(d, g, upsert) ==
  /\ g.setters = [set |-> DOMAIN d.type, nillable |-> d.optional \cup d.default]
  /\ g.update = [set |-> DOMAIN d.type, nillable |-> DOMAIN d.type \ OfType(d, {"json"}),
                 add |-> Addable(d), clear |-> d.optional]
  /\ upsert = [set |-> DOMAIN d.type, add |-> Addable(d), clear |-> d.optional]

QueriesAsDeclared(d, g) ==
  LET plain == DOMAIN d.type \ OfType(d, {"json"})
  IN  /\ g.columns = DOMAIN d.type /\ g.order = plain
      /\ g.where = [eq |-> plain, in |-> plain \ OfType(d, {"bool"}),
                    compare |-> plain \ (OfType(d, {"bool", "enum"}) \cup d.bound),
                    text |-> OfType(d, {"string"}), nil |-> d.optional]

AsDeclared(e) ==
  LET d == Declared[e]
      s == Schema[e]
      g == Generated[e]
  IN  /\ TableAsDeclared(d, s.table) /\ MutationAsDeclared(d, s) /\ StatementsAsDeclared(d, s, g)
      /\ BuildersAsDeclared(d, g, Upsert[e]) /\ QueriesAsDeclared(d, g)

=============================================================================
