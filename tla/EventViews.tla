----------------------------- MODULE EventViews -----------------------------
(***************************************************************************)
(* What a reader of the API or of the feeds is shown of an event.  A row   *)
(* is the stored incident; statuses is its update history in id order,     *)
(* each entry with a status and a text.  Times are integers.               *)
(***************************************************************************)
EXTENDS Ent

(***************************************************************************)
(* One event (api/v2/v2.go).                                               *)
(***************************************************************************)

\* Rows of the history written by the previous version of the dashboard.
NormalizeStatus(raw, endDate, type) ==
  CASE raw = "analyzing" -> "analysing"
    [] raw = "in progress" -> "in_progress"
    [] raw = "scheduled" -> "planned"
    [] raw = "SYSTEM" /\ endDate # Null ->
         (CASE type = "incident" -> "resolved" [] type = "info" -> "completed"
            [] OTHER -> "completed")
    [] OTHER -> raw

IsInternalStatus(status) == status \in {"pending_review", "reviewed"}

PublicStatus == {"planned", "in_progress", "modified", "completed"}

\* "changed" and "impact changed" stand for the status before them.
Collapse(status, last) == IF status \in {"changed", "impact changed"} THEN last ELSE status

\* One update of the history.  Drafts are left out for the public, and a
\* description replaces the one of the event.
MapUpdate(acc, s, isAuth, inc) ==
  IF ~isAuth /\ IsInternalStatus(s.status) THEN acc
  ELSE IF s.status = "description" THEN [acc EXCEPT !.description = s.text]
  ELSE LET status == Collapse(NormalizeStatus(s.status, inc.end_date, inc.type), acc.last)
       IN  [acc EXCEPT !.last = status,
                       !.updates = Append(@, [status |-> status, text |-> s.text, row |-> s.id])]

\* The updates and the text of the latest description.  An update's id is
\* its position; row is the id of the stored row it comes from.
MapEventUpdates(statuses, isAuth, inc) ==
  FoldLeft(LAMBDA acc, s : MapUpdate(acc, s, isAuth, inc),
           [last |-> NormalizeStatus(inc.status, inc.end_date, inc.type), updates |-> <<>>, description |-> ""],
           statuses)

LaterStatus(prev, s, inc) ==
  IF s.status = "description" THEN prev
  ELSE Collapse(NormalizeStatus(s.status, inc.end_date, inc.type), prev)

EventStatus(inc, statuses) ==
  LET status == NormalizeStatus(inc.status, inc.end_date, inc.type)
  IN  IF status \in {"changed", "impact changed"}
        THEN FoldLeft(LAMBDA prev, s : LaterStatus(prev, s, inc), status, statuses) ELSE status

ToAPIEvent(inc, statuses, comps, isAuth) ==
  LET mapped == MapEventUpdates(statuses, isAuth, inc)
  IN  [status |-> EventStatus(inc, statuses), updates |-> mapped.updates,
       description |-> IF mapped.description # "" THEN mapped.description ELSE inc.description,
       components |-> comps,
       creator |-> IF isAuth THEN inc.created_by ELSE Null,
       contact |-> IF isAuth THEN inc.contact_email ELSE Null,
       version |-> IF isAuth /\ inc.type = "maintenance" THEN inc.version ELSE Null]

IsCancelledWithoutPublicStatus(inc, statuses) ==
  /\ inc.type = "maintenance" /\ inc.status = "cancelled"
  /\ \A i \in DOMAIN statuses : statuses[i].status \notin PublicStatus

\* The answer 404 of GET /v2/events/:id and of GET /v2/incidents/:id.
HiddenFrom(isAuth, inc, statuses) ==
  /\ ~isAuth
  /\ \/ inc.type = "maintenance" /\ IsInternalStatus(inc.status)
     \/ IsCancelledWithoutPublicStatus(inc, statuses)

(***************************************************************************)
(* Lists (internal/db/db.go).                                              *)
(***************************************************************************)

NoPublicStatus(statuses) == ~\E i \in DOMAIN statuses : statuses[i].status \in PublicStatus

PublicEventPredicates(row, statuses) ==
  {Not(And({EQ(row, "type", "maintenance"), In(row, "status", {"pending_review", "reviewed"})})),
   Not(And({EQ(row, "type", "maintenance"), EQ(row, "status", "cancelled"), NoPublicStatus(statuses)}))}

\* Faulty variant: one of the copies of the rule forgets the cancelled drafts.
IncidentsByComponentAttrDrafts(row, statuses) ==
  {Not(And({EQ(row, "type", "maintenance"), In(row, "status", {"pending_review", "reviewed"})}))}

\* The predicates of the query for a component's region (db/raw.go).
IncidentsByComponentAttr(row, statuses) ==
  {Not(And({EQ(row, "type", "maintenance"), In(row, "status", {"pending_review", "reviewed"})})),
   Not(And({EQ(row, "type", "maintenance"), EQ(row, "status", "cancelled"), NoPublicStatus(statuses)}))}

NotActive ==
  {"resolved", "completed", "cancelled", "pending_review", "reviewed"}

\* An absent filter is Null.  Asking for events that are not active is an error,
\* whose answer has no event.
ApplyEventsFilters(p, row, statuses, comps, now, isAuth) ==
  (IF p.types = Null THEN {} ELSE {In(row, "type", p.types)})
    \cup (IF p.impact = Null THEN {} ELSE {EQ(row, "impact", p.impact)})
    \cup (IF p.system = Null THEN {} ELSE {EQ(row, "system", p.system)})
    \cup (IF p.components = Null THEN {} ELSE {comps \cap p.components # {}})
    \cup (IF p.active = Null THEN {} ELSE IF p.active = FALSE THEN {FALSE}
          ELSE {Or({IsNil(row, "end_date"),
                    And({LTE(row, "start_date", now), GTE(row, "end_date", now),
                         NotIn(row, "status", NotActive)})})})
    \cup (IF p.status = Null THEN {} ELSE {EQ(row, "status", p.status)})
    \cup (IF p.start = Null THEN {} ELSE {GTE(row, "start_date", p.start)})
    \cup (IF p.end = Null THEN {} ELSE {LTE(row, "end_date", p.end)})
    \cup (IF isAuth THEN {} ELSE PublicEventPredicates(row, statuses))

\* The events of a component, all or the active ones.
GetEventsByComponentID(c, active, row, statuses, comps, now) ==
  {c \in comps} \cup PublicEventPredicates(row, statuses)
    \cup (IF ~active THEN {}
          ELSE {Or({IsNil(row, "end_date"),
                    And({LTE(row, "start_date", now), GTE(row, "end_date", now),
                         NotIn(row, "status", {"resolved", "completed", "cancelled"})})})})

Selected(truths) == And(truths) = TRUE

(***************************************************************************)
(* Feeds (internal/rss, internal/api/rss).                                 *)
(***************************************************************************)

\* The loop over the updates: an item for each one with such a status.
ItemIf(items, s, shown) == IF s.status \in shown THEN Append(items, s.status) ELSE items
Items(statuses, shown) == FoldLeft(LAMBDA items, s : ItemIf(items, s, shown), <<>>, statuses)

StatusesOf(statuses) == {statuses[i].status : i \in DOMAIN statuses}

IncidentFeedItems(statuses) == <<"event">> \o Items(statuses, StatusesOf(statuses) \ {"detected"})

MaintenanceFeedItems(statuses) == Items(statuses, PublicStatus \cup {"cancelled"})

CreateFeedItems(inc, statuses) ==
  CASE inc.type = "maintenance" -> MaintenanceFeedItems(statuses)
    [] inc.type = "info" -> <<>>
    [] OTHER -> IncidentFeedItems(statuses)

\* The older feed: one item per event, its updates latest first.
CreateFeedContent(inc, statuses) ==
  Items(Reverse(statuses),
        {x \in StatusesOf(statuses) : ~(inc.type = "maintenance" /\ IsInternalStatus(x))})

=============================================================================
