----------------------------- MODULE Migrations -----------------------------
(***************************************************************************)
(* The schema of the deployed database: what the numbered scripts under    *)
(* db/migrations make of it, up and down, as far as the client can tell -  *)
(* columns, which of them may be NULL, defaults, unique and foreign keys.  *)
(* Tables are records of the shape EntSchema gives them.                   *)
(***************************************************************************)
EXTENDS Integers, Sequences, SequencesExt

Versions == 0 .. 9

Create(t, columns, nullable, default, unique, refs) ==
  [do |-> "create", on |-> t,
   with |-> [columns |-> columns, nullable |-> nullable, default |-> default,
             unique |-> unique, refs |-> refs]]
AddColumn(t, columns) == [do |-> "add", on |-> t, with |-> columns]
DropColumns(t, columns) == [do |-> "drop", on |-> t, with |-> columns]
SetNotNull(t, columns) == [do |-> "not null", on |-> t, with |-> columns]
SetDefault(t, columns) == [do |-> "default", on |-> t, with |-> columns]
DropTable(t) == [do |-> "drop table", on |-> t, with |-> {}]

Execute(tables, s) ==
  CASE s.do = "create" ->
         IF s.on \in DOMAIN tables THEN tables ELSE s.on :> s.with @@ tables
    [] s.do = "drop table" -> [t \in DOMAIN tables \ {s.on} |-> tables[t]]
    [] s.do = "add" ->
         [tables EXCEPT ![s.on].nullable = @ \cup (s.with \ tables[s.on].columns),
                        ![s.on].columns = @ \cup s.with]
    [] s.do = "drop" ->
         [tables EXCEPT ![s.on].columns = @ \ s.with, ![s.on].nullable = @ \ s.with,
                        ![s.on].default = @ \ s.with]
    [] s.do = "not null" -> [tables EXCEPT ![s.on].nullable = @ \ s.with]
    [] s.do = "default" -> [tables EXCEPT ![s.on].default = @ \cup s.with]

TimeFields == {"created_at", "modified_at", "deleted_at"}

(***************************************************************************)
(* The scripts, by the names of their files.                               *)
(***************************************************************************)

InitDbUp ==
  <<Create("Component", {"name"}, {}, {}, {}, {}),
    Create("ComponentAttr", {"component_id", "name", "value"}, {"component_id"}, {},
           {{"component_id", "name"}}, {<<"component_id", "Component">>}),
    Create("Incident", {"text", "start_date", "end_date", "impact", "system"}, {"end_date"},
           {"system"}, {}, {}),
    Create("Relation", {"incident_id", "component_id"}, {}, {},
           {{"incident_id", "component_id"}}, {<<"component_id", "Component">>}),
    Create("IncidentStatus", {"incident_id", "timestamp", "text", "status"}, {"incident_id"},
           {}, {}, {})>>
InitDbDown ==
  <<DropTable("Component"), DropTable("ComponentAttr"), DropTable("Incident"),
    DropTable("Relation"), DropTable("IncidentStatus")>>

AddIncidentTypeUp == <<AddColumn("Incident", {"type"}), SetNotNull("Incident", {"type"})>>
AddIncidentTypeDown == <<DropColumns("Incident", {"type"})>>

AddIncidentDescriptionUp == <<AddColumn("Incident", {"description"})>>
AddIncidentDescriptionDown == <<DropColumns("Incident", {"description"})>>

IncidentActualStatusUp == <<AddColumn("Incident", {"status"})>>
IncidentActualStatusDown == <<DropColumns("Incident", {"status"})>>

TimeFieldsUp ==
  <<AddColumn("Incident", TimeFields), AddColumn("Component", TimeFields),
    AddColumn("IncidentStatus", TimeFields)>>
TimeFieldsDown ==
  <<DropColumns("IncidentStatus", TimeFields), DropColumns("Component", TimeFields),
    DropColumns("Incident", TimeFields)>>

AddAuditUserFieldsUp ==
  <<AddColumn("Incident", {"created_by", "contact_email", "version"}),
    SetDefault("Incident", {"version"}), SetNotNull("Incident", {"version"}),
    AddColumn("IncidentStatus", {"created_by", "modified_by"})>>

AddAuditUserFieldsDown ==
  <<DropColumns("Incident", {"created_by", "contact_email", "version"}),
    DropColumns("IncidentStatus", {"created_by", "modified_by"})>>

NotificationUp ==
  <<Create("NotificationOutbox",
           {"kind", "incident_id", "recipient", "payload", "change_id", "dedup_key", "status",
            "attempts", "next_attempt_at", "locked_by", "locked_at", "last_error",
            "created_at", "updated_at"},
           {"next_attempt_at", "locked_by", "locked_at", "last_error"},
           {"status", "attempts", "created_at", "updated_at"}, {{"dedup_key"}},
           {<<"incident_id", "Incident">>})>>
NotificationDown == <<DropTable("NotificationOutbox")>>

\* 6 changes a length and 9 removes rows.
Up(v) ==
  <<InitDbUp, AddIncidentTypeUp, AddIncidentDescriptionUp, IncidentActualStatusUp, TimeFieldsUp,
    << >>, AddAuditUserFieldsUp, NotificationUp, << >> >>[v]
Down(v) ==
  <<InitDbDown, AddIncidentTypeDown, AddIncidentDescriptionDown, IncidentActualStatusDown,
    TimeFieldsDown, << >>, AddAuditUserFieldsDown, NotificationDown, << >> >>[v]

Run(tables, script) == FoldLeft(Execute, tables, script)

=============================================================================
