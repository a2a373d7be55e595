------------------------------ MODULE MCStore ------------------------------
(* Instance of Store for TLC. *)
EXTENDS Store

CONSTANTS s1, s2

Event0(type, status, impact, end) ==
  [text |-> "t", description |-> Null, start_date |-> 0, end_date |-> end, impact |-> impact,
   system |-> FALSE, type |-> type, status |-> status, created_at |-> 0, modified_at |-> 0,
   deleted_at |-> Null, created_by |-> Null, contact_email |-> Null, version |-> 1]
Status0(e, status) ==
  [incident_id |-> e, timestamp |-> 0, text |-> "t", status |-> status, created_at |-> 0,
   modified_at |-> 0, deleted_at |-> Null, created_by |-> Null, modified_by |-> Null]
Component0(name) == [name |-> name, created_at |-> 0, modified_at |-> 0, deleted_at |-> Null]
Attr0(c, n, v) == [name |-> n, value |-> v, component_id |-> c]

\* A planned maintenance with a description row of the old dashboard, two open
\* incidents with a component each, and a closed incident with both.
MCStored ==
  <<"Incident", 1>> :> Event0("maintenance", "planned", 0, 9)
  @@ <<"Incident", 2>> :> Event0("incident", "analysing", 1, Null)
  @@ <<"Incident", 3>> :> Event0("incident", "analysing", 2, Null)
  @@ <<"Incident", 4>> :> Event0("incident", "resolved", 1, 1)
  @@ <<"IncidentStatus", 1>> :> Status0(1, "planned")
  @@ <<"IncidentStatus", 2>> :> Status0(1, "description")
  @@ <<"IncidentStatus", 3>> :> Status0(2, "analysing")
  @@ <<"IncidentStatus", 4>> :> Status0(3, "analysing")
  @@ <<"IncidentStatus", 5>> :> Status0(4, "resolved")
  @@ <<"Component", 1>> :> Component0("a") @@ <<"Component", 2>> :> Component0("b")
  @@ [k \in {<<"ComponentAttr", i>> : i \in 1..6} |->
        Attr0(1 + (k[2] - 1) \div 3, Attribute[((k[2] - 1) % 3) + 1], "v")]
  @@ <<"Relation", <<2, 1>>>> :> [incident_id |-> 2, component_id |-> 1]
  @@ <<"Relation", <<3, 2>>>> :> [incident_id |-> 3, component_id |-> 2]
  @@ [k \in {<<"Relation", <<4, c>>>> : c \in 1..2} |-> [incident_id |-> 4, component_id |-> k[2][2]]]

Req(op, e, f, c, status, closes, name) ==
  [op |-> op, e |-> e, f |-> f, c |-> c, status |-> status, version |-> Null, closes |-> closes, name |-> name,
   region |-> "EU-DE"]

\* The client of the maintenance sends the version it was created with.  A component
\* is extracted from an incident that is closed, or reopened meanwhile, and the new
\* incident is read.
MCRequest ==
  {Req("get", e, 0, 0, "", FALSE, "") : e \in {1, 5}}
  \cup {Req("edit", 1, 0, 0, "", FALSE, "")}
  \cup {[Req("patch", 1, 0, 0, "in_progress", FALSE, "") EXCEPT !.version = 1]}
  \cup {Req("patch", 4, 0, 0, "reopened", FALSE, "")}
  \cup {Req("move", 2, 3, 1, "", TRUE, ""), Req("move", 3, 2, 2, "", FALSE, "")}
  \cup {Req("extract", 4, 5, 1, "", FALSE, "")}
  \cup {Req("component", 0, 0, 0, "", FALSE, "a")}

MCSymmetry == Permutations({s1, s2})

=============================================================================
