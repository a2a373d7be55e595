----------------------------- MODULE EntSchema -----------------------------
(***************************************************************************)
(* The five entities of the generated client (ent/), as the data its       *)
(* builders are made from: the table of each entity, the fields and edges  *)
(* its mutations know, what its builders check before a statement is sent  *)
(* and what the statement may touch, and how a row is read back.           *)
(***************************************************************************)
EXTENDS Integers, FiniteSets

CONSTANT Null   \* the SQL value

(***************************************************************************)
(* Tables (migrate/schema.go): columns besides id, those that may be NULL, *)
(* those the database fills when a statement leaves them out, unique keys  *)
(* and foreign keys.                                                       *)
(***************************************************************************)

ComponentTable ==
  [columns |-> {"name", "created_at", "modified_at", "deleted_at"},
   nullable |-> {"created_at", "modified_at", "deleted_at"},
   default |-> {}, unique |-> {}, refs |-> {}]

ComponentAttributeTable ==
  [columns |-> {"name", "value", "component_id"},
   nullable |-> {"component_id"},
   default |-> {}, unique |-> {{"component_id", "name"}}, refs |-> {<<"component_id", "Component">>}]

IncidentTable ==
  [columns |-> {"text", "description", "start_date", "end_date", "impact", "system", "type", "status",
                "created_at", "modified_at", "deleted_at", "created_by", "contact_email", "version"},
   nullable |-> {"description", "end_date", "status", "created_at", "modified_at", "deleted_at",
                 "created_by", "contact_email"},
   default |-> {"system", "version"}, unique |-> {}, refs |-> {}]

IncidentStatusTable ==
  [columns |-> {"incident_id", "timestamp", "text", "status", "created_at", "modified_at",
                "deleted_at", "created_by", "modified_by"},
   nullable |-> {"incident_id", "created_at", "modified_at", "deleted_at", "created_by", "modified_by"},
   default |-> {}, unique |-> {}, refs |-> {}]

NotificationOutboxTable ==
  [columns |-> {"kind", "recipient", "payload", "change_id", "dedup_key", "status", "attempts",
                "next_attempt_at", "locked_by", "locked_at", "last_error", "created_at", "updated_at",
                "incident_id"},
   nullable |-> {"next_attempt_at", "locked_by", "locked_at", "last_error"},
   default |-> {"status", "attempts", "created_at", "updated_at"},
   unique |-> {{"dedup_key"}}, refs |-> {<<"incident_id", "Incident">>}]

\* The join table, keyed by <<incident_id, component_id>>.
IncidentComponentRelationTable ==
  [columns |-> {"incident_id", "component_id"}, nullable |-> {}, default |-> {},
   unique |-> {{"incident_id", "component_id"}},
   refs |-> {<<"incident_id", "Incident">>, <<"component_id", "Component">>}]

(***************************************************************************)
(* Mutations (mutation.go): the fields by type; those that can be added    *)
(* to; those that can be cleared; the edges, with the field that holds a   *)
(* unique one.                                                             *)
(***************************************************************************)

ComponentField ==
  [name |-> "string", created_at |-> "time", modified_at |-> "time", deleted_at |-> "time"]
ComponentAttrField == [component_id |-> "int", name |-> "string", value |-> "string"]
IncidentField ==
  [text |-> "string", description |-> "string", start_date |-> "time", end_date |-> "time",
   impact |-> "int", system |-> "bool", type |-> "enum", status |-> "string", created_at |-> "time",
   modified_at |-> "time", deleted_at |-> "time", created_by |-> "string",
   contact_email |-> "string", version |-> "int"]
IncidentStatusField ==
  [incident_id |-> "int", timestamp |-> "time", text |-> "string", status |-> "string",
   created_at |-> "time", modified_at |-> "time", deleted_at |-> "time", created_by |-> "string",
   modified_by |-> "string"]
NotificationOutboxField ==
  [kind |-> "string", incident_id |-> "int", recipient |-> "string", payload |-> "json",
   change_id |-> "string", dedup_key |-> "string", status |-> "string", attempts |-> "int",
   next_attempt_at |-> "time", locked_by |-> "string", locked_at |-> "time",
   last_error |-> "string", created_at |-> "time", updated_at |-> "time"]

ComponentAdd == {}
ComponentAttrAdd == {}
IncidentAdd == {"impact", "version"}
IncidentStatusAdd == {"incident_id"}
NotificationOutboxAdd == {"attempts"}

ComponentClear == {"created_at", "modified_at", "deleted_at"}
ComponentAttrClear == {"component_id"}
IncidentClear == {"description", "end_date", "status", "created_at", "modified_at", "deleted_at",
                  "created_by", "contact_email"}
IncidentStatusClear == {"incident_id", "created_at", "modified_at", "deleted_at", "created_by",
                        "modified_by"}
NotificationOutboxClear == {"next_attempt_at", "locked_by", "locked_at", "last_error"}

ComponentReset == DOMAIN ComponentField
ComponentAttrReset == DOMAIN ComponentAttrField
IncidentReset == DOMAIN IncidentField
IncidentStatusReset == DOMAIN IncidentStatusField
NotificationOutboxReset == DOMAIN NotificationOutboxField

\* Edges by name; the value is the field of a unique edge, "" for a set of ids.
ComponentEdge == [attributes |-> "", incidents |-> ""]
ComponentAttrEdge == [component |-> "component_id"]
IncidentEdge == [components |-> "", notifications |-> ""]
IncidentStatusEdge == [e \in {} |-> ""]
NotificationOutboxEdge == [incident |-> "incident_id"]

(***************************************************************************)
(* Before an INSERT: defaults, then check().  `set' are the values of the  *)
(* mutation, the fields of unique edges among them.                        *)
(***************************************************************************)

NotEmpty(set, f) == f \in DOMAIN set => set[f] # ""
IncidentTypes == {"incident", "info", "maintenance"}
TypeValidator(set) == "type" \in DOMAIN set => set["type"] \in IncidentTypes

ComponentDefault == [f \in {} |-> 0]
ComponentAttrDefault == [f \in {} |-> 0]
IncidentDefault == [system |-> FALSE, version |-> 1]
IncidentStatusDefault == [f \in {} |-> 0]
NotificationOutboxDefault == [status |-> "pending", attempts |-> 0]

ComponentCreateCheck(set) == "name" \in DOMAIN set /\ NotEmpty(set, "name")

ComponentAttrCreateCheck(set) ==
  /\ {"name", "value"} \subseteq DOMAIN set
  /\ NotEmpty(set, "name") /\ NotEmpty(set, "value")

IncidentCreateCheck(set) ==
  /\ {"text", "start_date", "impact", "system", "type", "version"} \subseteq DOMAIN set
  /\ NotEmpty(set, "text") /\ TypeValidator(set)

IncidentStatusCreateCheck(set) ==
  /\ {"timestamp", "text", "status"} \subseteq DOMAIN set
  /\ NotEmpty(set, "text") /\ NotEmpty(set, "status")

\* Faulty variant: a required column is not asked for.
NotificationOutboxCreateCheckLax(set) ==
  /\ {"kind", "incident_id", "recipient", "payload", "dedup_key", "status", "attempts"}
       \subseteq DOMAIN set
  /\ \A f \in {"kind", "recipient", "change_id", "dedup_key"} : NotEmpty(set, f)

NotificationOutboxCreateCheck(set) ==
  /\ {"kind", "incident_id", "recipient", "payload", "change_id", "dedup_key", "status", "attempts"}
       \subseteq DOMAIN set
  /\ \A f \in {"kind", "recipient", "change_id", "dedup_key"} : NotEmpty(set, f)

(***************************************************************************)
(* Before an UPDATE: only what is set is validated.  The outbox also       *)
(* refuses to clear its edge while the mutation names a target.            *)
(***************************************************************************)

ComponentUpdateCheck(set, cleared) == NotEmpty(set, "name")
ComponentAttrUpdateCheck(set, cleared) == NotEmpty(set, "name") /\ NotEmpty(set, "value")
IncidentUpdateCheck(set, cleared) == NotEmpty(set, "text") /\ TypeValidator(set)
IncidentStatusUpdateCheck(set, cleared) == NotEmpty(set, "text") /\ NotEmpty(set, "status")
NotificationOutboxUpdateCheck(set, cleared) ==
  /\ \A f \in {"kind", "recipient", "change_id", "dedup_key"} : NotEmpty(set, f)
  /\ ~("incident" \in cleared /\ "incident_id" \in DOMAIN set)

(***************************************************************************)
(* What createSpec() and sqlSave() put into a statement.                   *)
(***************************************************************************)

ComponentCreateSpec ==
  [fields |-> {"name", "created_at", "modified_at", "deleted_at"},
   edges |-> [attributes |-> <<"O2M", "ComponentAttr", "component_id">>,
              incidents |-> <<"M2M", "IncidentComponentRelation", "inverse">>]]
ComponentAttrCreateSpec ==
  [fields |-> {"name", "value"}, edges |-> [component |-> <<"M2O", "Component", "component_id">>]]
IncidentCreateSpec ==
  [fields |-> {"text", "description", "start_date", "end_date", "impact", "system", "type", "status",
               "created_at", "modified_at", "deleted_at", "created_by", "contact_email", "version"},
   edges |-> [components |-> <<"M2M", "IncidentComponentRelation", "direct">>,
              notifications |-> <<"O2M", "NotificationOutbox", "incident_id">>]]
IncidentStatusCreateSpec ==
  [fields |-> {"incident_id", "timestamp", "text", "status", "created_at", "modified_at",
               "deleted_at", "created_by", "modified_by"},
   edges |-> [e \in {} |-> <<>>]]
NotificationOutboxCreateSpec ==
  [fields |-> {"kind", "recipient", "payload", "change_id", "dedup_key", "status", "attempts",
               "next_attempt_at", "locked_by", "locked_at", "last_error", "created_at", "updated_at"},
   edges |-> [incident |-> <<"M2O", "Incident", "incident_id">>]]

ComponentUpdateSpec ==
  [set |-> {"name", "created_at", "modified_at", "deleted_at"},
   clear |-> {"created_at", "modified_at", "deleted_at"}, add |-> {},
   edges |-> {"attributes", "incidents"}]
ComponentAttrUpdateSpec ==
  [set |-> {"name", "value"}, clear |-> {}, add |-> {}, edges |-> {"component"}]
IncidentUpdateSpec ==
  [set |-> {"text", "description", "start_date", "end_date", "impact", "system", "type", "status",
            "created_at", "modified_at", "deleted_at", "created_by", "contact_email", "version"},
   clear |-> {"description", "end_date", "status", "created_at", "modified_at", "deleted_at",
              "created_by", "contact_email"},
   add |-> {"impact", "version"},
   edges |-> {"components", "notifications"}]
IncidentStatusUpdateSpec ==
  [set |-> {"incident_id", "timestamp", "text", "status", "created_at", "modified_at", "deleted_at",
            "created_by", "modified_by"},
   clear |-> {"incident_id", "created_at", "modified_at", "deleted_at", "created_by", "modified_by"},
   add |-> {"incident_id"}, edges |-> {}]
NotificationOutboxUpdateSpec ==
  [set |-> {"kind", "recipient", "payload", "change_id", "dedup_key", "status", "attempts",
            "next_attempt_at", "locked_by", "locked_at", "last_error", "created_at", "updated_at"},
   clear |-> {"next_attempt_at", "locked_by", "locked_at", "last_error"},
   add |-> {"attempts"}, edges |-> {"incident"}]

(***************************************************************************)
(* assignValues(): NULL becomes a nil pointer in these fields and the zero *)
(* value of the type in every other.  Null also stands for the zero time,  *)
(* which the mappers of internal/db turn into a nil pointer.               *)
(***************************************************************************)

Zero(type) ==
  CASE type \in {"string", "enum"} -> "" [] type = "int" -> 0 [] type = "bool" -> FALSE
    [] OTHER -> Null

ComponentNillable == {}
ComponentAttrNillable == {}
IncidentNillable == {"description", "created_by", "contact_email"}
IncidentStatusNillable == {"created_by", "modified_by"}
NotificationOutboxNillable == {"locked_by", "last_error"}

(***************************************************************************)
(* The entities.                                                           *)
(***************************************************************************)

Entity == {"Component", "ComponentAttr", "Incident", "IncidentStatus", "NotificationOutbox"}

Schema ==
  [Component |->
     [table |-> ComponentTable, field |-> ComponentField, add |-> ComponentAdd,
      clear |-> ComponentClear, edge |-> ComponentEdge, default |-> ComponentDefault,
      create |-> ComponentCreateSpec, update |-> ComponentUpdateSpec,
      nillable |-> ComponentNillable, reset |-> ComponentReset],
   ComponentAttr |->
     [table |-> ComponentAttributeTable, field |-> ComponentAttrField, add |-> ComponentAttrAdd,
      clear |-> ComponentAttrClear, edge |-> ComponentAttrEdge, default |-> ComponentAttrDefault,
      create |-> ComponentAttrCreateSpec, update |-> ComponentAttrUpdateSpec,
      nillable |-> ComponentAttrNillable, reset |-> ComponentAttrReset],
   Incident |->
     [table |-> IncidentTable, field |-> IncidentField, add |-> IncidentAdd,
      clear |-> IncidentClear, edge |-> IncidentEdge, default |-> IncidentDefault,
      create |-> IncidentCreateSpec, update |-> IncidentUpdateSpec,
      nillable |-> IncidentNillable, reset |-> IncidentReset],
   IncidentStatus |->
     [table |-> IncidentStatusTable, field |-> IncidentStatusField, add |-> IncidentStatusAdd,
      clear |-> IncidentStatusClear, edge |-> IncidentStatusEdge, default |-> IncidentStatusDefault,
      create |-> IncidentStatusCreateSpec, update |-> IncidentStatusUpdateSpec,
      nillable |-> IncidentStatusNillable, reset |-> IncidentStatusReset],
   NotificationOutbox |->
     [table |-> NotificationOutboxTable, field |-> NotificationOutboxField,
      add |-> NotificationOutboxAdd, clear |-> NotificationOutboxClear,
      edge |-> NotificationOutboxEdge, default |-> NotificationOutboxDefault,
      create |-> NotificationOutboxCreateSpec, update |-> NotificationOutboxUpdateSpec,
      nillable |-> NotificationOutboxNillable, reset |-> NotificationOutboxReset]]

(***************************************************************************)
(* What the SET clause of an upsert may do on a conflict: give a column a  *)
(* value or the one of the insert, add to it, or set it to NULL.  The      *)
(* validators of an update are not run.                                    *)
(***************************************************************************)

ComponentUpsert ==
  [set |-> {"name", "created_at", "modified_at", "deleted_at"}, add |-> {},
   clear |-> {"created_at", "modified_at", "deleted_at"}]
ComponentAttrUpsert ==
  [set |-> {"component_id", "name", "value"}, add |-> {}, clear |-> {"component_id"}]
IncidentUpsert ==
  [set |-> {"text", "description", "start_date", "end_date", "impact", "system", "type", "status",
            "created_at", "modified_at", "deleted_at", "created_by", "contact_email", "version"},
   add |-> {"impact", "version"},
   clear |-> {"description", "end_date", "status", "created_at", "modified_at", "deleted_at",
              "created_by", "contact_email"}]
IncidentStatusUpsert ==
  [set |-> {"incident_id", "timestamp", "text", "status", "created_at", "modified_at", "deleted_at",
            "created_by", "modified_by"},
   add |-> {"incident_id"},
   clear |-> {"incident_id", "created_at", "modified_at", "deleted_at", "created_by", "modified_by"}]
NotificationOutboxUpsert ==
  [set |-> {"kind", "incident_id", "recipient", "payload", "change_id", "dedup_key", "status",
            "attempts", "next_attempt_at", "locked_by", "locked_at", "last_error", "created_at",
            "updated_at"},
   add |-> {"attempts"}, clear |-> {"next_attempt_at", "locked_by", "locked_at", "last_error"}]

Upsert ==
  [Component |-> ComponentUpsert, ComponentAttr |-> ComponentAttrUpsert, Incident |-> IncidentUpsert,
   IncidentStatus |-> IncidentStatusUpsert, NotificationOutbox |-> NotificationOutboxUpsert]

CreateCheck(e, set) ==
  CASE e = "Component" -> ComponentCreateCheck(set)
    [] e = "ComponentAttr" -> ComponentAttrCreateCheck(set)
    [] e = "Incident" -> IncidentCreateCheck(set)
    [] e = "IncidentStatus" -> IncidentStatusCreateCheck(set)
    [] e = "NotificationOutbox" -> NotificationOutboxCreateCheck(set)

UpdateCheck(e, set, cleared) ==
  CASE e = "Component" -> ComponentUpdateCheck(set, cleared)
    [] e = "ComponentAttr" -> ComponentAttrUpdateCheck(set, cleared)
    [] e = "Incident" -> IncidentUpdateCheck(set, cleared)
    [] e = "IncidentStatus" -> IncidentStatusUpdateCheck(set, cleared)
    [] e = "NotificationOutbox" -> NotificationOutboxUpdateCheck(set, cleared)

=============================================================================
