------------------------------- MODULE Rules -------------------------------
(***************************************************************************)
(* The rules of the service that have no state of their own, asked one     *)
(* question at a time: what a builder of the client makes of a row, what a *)
(* reader is shown of an event, the availability of a component, whether a *)
(* request is served, whether a configuration is accepted.  The only       *)
(* question with a history is the schema, migrated up and down.            *)
(***************************************************************************)
EXTENDS EventViews, Availability, Access, Config, Migrations, EntDeclared

CONSTANTS
  Sample,       \* per entity, a value for each of its columns
  Histories,    \* of events: [type, status, statuses]
  Filters,      \* of lists: what a query asks for
  Outages,      \* the incidents of a component, a set of sequences
  Clock,        \* the moments an availability is asked for
  Requests,     \* [route, svc, token, stored, sent]
  Environments, \* what the environment and the .env file set: [env, file]
  Ids,          \* of the rows of a small table
  MaxCalls      \* bound: calls made on one builder

ASSUME RequestsAssumption ==
  \A r \in Requests :
    /\ r.route \in DOMAIN Chain /\ r.token.valid \in BOOLEAN /\ r.token.absent \in BOOLEAN
    /\ r.token.absent => \A c \in DOMAIN r.token.claims : r.token.claims[c] = {}

ASSUME EnvironmentsAssumption ==
  /\ Unset \notin Int
  /\ \A e \in Environments : DOMAIN e.env = Settings /\ DOMAIN e.file = Settings

\* The status of an event and those of its updates.  Only a maintenance is
\* reviewed, only the others change without a status of their own, and no event
\* has the status of a description.
ASSUME HistoriesAssumption ==
  /\ Null \notin BOOLEAN
  /\ \A h \in Histories :
       /\ h.statuses \in Seq(STRING) /\ Null # h.type /\ Null # h.status
       /\ h.type # "maintenance" =>
            ~IsInternalStatus(h.status) /\ \A i \in DOMAIN h.statuses : ~IsInternalStatus(h.statuses[i])
       /\ h.type = "maintenance" => h.status \notin {"changed", "impact changed"}
       /\ h.status # "description"

ASSUME IdsAssumption == Null \notin Ids

\* The year before the clock is in the calendar, and an outage has its times.
ASSUME ClockAssumption ==
  /\ Null \notin Int
  /\ \A now \in Clock :
       /\ now \in Int
       /\ \E month \in Months : MonthsInYear - 1 <= month /\ MonthStart[month] <= now /\ now < MonthEnd(month)
  /\ \A incidents \in Outages : \A k \in DOMAIN incidents :
       incidents[k].start_date \in Int /\ incidents[k].end_date \in Int \cup {Null}

VARIABLE case

Idle == [kind |-> "idle"]
Init == case = Idle

(***************************************************************************)
(* The schema.                                                             *)
(***************************************************************************)

NoTables == [t \in {} |-> {}]

Bootstrap == case = Idle /\ case' = [kind |-> "schema", version |-> 0, tables |-> NoTables]

MigrateUp ==
  /\ case.kind = "schema" /\ case.version + 1 \in Versions
  /\ case' = [case EXCEPT !.version = @ + 1, !.tables = Run(@, Up(case.version + 1))]

MigrateDown ==
  /\ case.kind = "schema" /\ case.version > 0
  /\ case' = [case EXCEPT !.version = @ - 1, !.tables = Run(@, Down(case.version))]

\* An entity as declared and as generated.
Generate == case = Idle /\ \E e \in Entity : case' = [kind |-> "entity", e |-> e]

Migrated(v) == FoldLeft(LAMBDA tables, i : Run(tables, Up(i)), NoTables, [i \in 1 .. v |-> i])
Deployed == Migrated(9)

(***************************************************************************)
(* Builders.  An insert sets every column but a few, one perhaps blank; an *)
(* update or the clauses of an upsert are a few calls on a stored row.     *)
(***************************************************************************)

Fields(e) == DOMAIN Schema[e].field
Texts(e) == {f \in Fields(e) : Schema[e].field[f] = "string"}
AtMostOne(S) == {{}} \cup {{x} : x \in S}
AtMostTwo(S) == {{}} \cup {{x, y} : x \in S, y \in S}

Setting(e, missing, blank) ==
  FoldSet(LAMBDA f, m : SetField(m, f, IF f \in blank THEN "" ELSE Sample[e][f]),
          NewMutation(e), Fields(e) \ missing)

Stored(e) == CreateRow(e, Setting(e, {}, {}), 0)

Insert ==
  /\ case = Idle
  /\ \E e \in Entity : \E missing \in AtMostTwo(Fields(e)), blank \in AtMostOne(Texts(e)) :
       LET m == Setting(e, missing, blank)
       IN  case' = [kind |-> "insert", e |-> e, m |-> m, missing |-> missing,
                    blank |-> blank \ missing, passes |-> CreatePasses(e, m),
                    row |-> CreateRow(e, m, 0)]

\* The methods of an update builder and of its mutation.
Calls(e) ==
  {Set(f, Sample[e][f]) : f \in Fields(e)} \cup {Add(f, 1) : f \in Schema[e].add}
    \cup {Clear(f) : f \in Schema[e].clear} \cup {Reset(f) : f \in Schema[e].reset}
    \cup UNION {{ClearAll(g), ResetAll(g)} : g \in DOMAIN Schema[e].edge}

Update ==
  /\ case = Idle
  /\ \E e \in Entity, n \in 1 .. MaxCalls : \E calls \in [1 .. n -> Calls(e)] :
       LET m == Build(e, calls)
       IN  case' = [kind |-> "update", e |-> e, m |-> m,
                    passes |-> UpdatePasses(e, m) /\ AssignsOnce(e, m),
                    row |-> UpdateRow(e, m, Stored(e))]

\* The methods of an upsert builder.
Clauses(e) ==
  {Set(f, Sample[e][f]) : f \in Upsert[e].set} \cup {Excluded(f) : f \in Upsert[e].set}
    \cup {Add(f, 1) : f \in Upsert[e].add} \cup {Clear(f) : f \in Upsert[e].clear}

Conflict ==
  /\ case = Idle
  /\ \E e \in DOMAIN Upsert : \E missing \in AtMostOne(Fields(e)), c \in Clauses(e),
                                option \in {"Ignore", "DoNothing", "UpdateNewValues", "Update"} :
       LET m == Setting(e, missing, {})
       IN  /\ Collides(e, CreateRow(e, m, 0), {Stored(e)})
           /\ case' = [kind |-> "upsert", e |-> e, m |-> m, passes |-> CreatePasses(e, m),
                       row |-> UpsertRow(e, m, [option |-> option, clauses |-> <<c>>], Stored(e), 0)]

\* Nodes in some order, as a query returned them, and what is loaded with them:
\* over the join table, and over a foreign key whose target may be missing.
Orders == UNION {SetToSeqs(s) : s \in SUBSET Ids}

QueryRelated ==
  /\ case = Idle
  /\ \E relation \in SUBSET (Ids \X Ids), nodes \in Orders :
       case' = [kind |-> "related", relation |-> relation, nodes |-> nodes,
                components |-> LoadComponents(nodes, relation),
                incidents |-> LoadIncidents(nodes, relation)]

QueryOwned ==
  /\ case = Idle
  /\ \E fk \in [Ids -> Ids \cup {Null}], nodes \in Orders, existing \in SUBSET Ids :
       case' = [kind |-> "owned", fk |-> fk, nodes |-> nodes, existing |-> existing,
                attributes |-> LoadAttributes(nodes, fk), component |-> LoadComponent(nodes, fk, existing),
                notifications |-> LoadNotifications(nodes, fk), incident |-> LoadIncident(nodes, fk, existing)]

(***************************************************************************)
(* The other questions.                                                    *)
(***************************************************************************)

NoFilter ==
  [types |-> Null, impact |-> Null, system |-> Null, components |-> Null, active |-> Null,
   status |-> Null, start |-> Null, end |-> Null]

\* An event, in the row and in its history.  The status of the row need not be
\* that of the last update: SYSTEM updates leave it, backfilled ones precede it.
Show ==
  /\ case = Idle
  /\ \E h \in Histories, end \in {Null, 1}, isAuth \in BOOLEAN, filter \in Filters :
       case' = [kind |-> "event", isAuth |-> isAuth, filter |-> filter,
                inc |-> [type |-> h.type, status |-> h.status, end_date |-> end,
                         start_date |-> 0, impact |-> 0, system |-> FALSE, description |-> "first", created_by |-> "u",
                         contact_email |-> "u@x", version |-> 1],
                statuses |-> [i \in DOMAIN h.statuses |->
                                [id |-> i, status |-> h.statuses[i], text |-> "text"]]]

Measure ==
  /\ case = Idle
  /\ \E incidents \in Outages, now \in Clock :
       case' = [kind |-> "availability", incidents |-> incidents, now |-> now,
                answer |-> CalculateAvailability(incidents, now)]

Ask ==
  /\ case = Idle
  /\ \E r \in Requests :
       case' = [kind |-> "request", asked |-> r,
                answer |-> Serve(r.route, Request(r.svc, r.token), r.stored, r.sent)]

Load ==
  /\ case = Idle
  /\ \E e \in Environments : case' = [kind |-> "config", given |-> e, answer |-> LoadConf(e.env, e.file)]

Next ==
  \/ Bootstrap \/ MigrateUp \/ MigrateDown \/ Generate
  \/ Insert \/ Update \/ Conflict \/ QueryRelated \/ QueryOwned \/ Show \/ Measure \/ Ask \/ Load

Spec == Init /\ [][Next]_case

(***************************************************************************)
(* Properties.                                                             *)
(***************************************************************************)

\* What the generator made of an entity in a dozen files agrees with its
\* declaration; whatever scripts ran up and down before, a version of the
\* database has one schema, and the last one has the columns, NULLs, defaults
\* and unique keys the generated client (ent/migrate/schema.go) was made for
\* and no foreign key it does not know.  (The client also declares one from
\* the relation to incident.)
SchemaFits ==
  /\ case.kind = "entity" => AsDeclared(case.e)
  /\ case.kind = "schema" =>
       /\ case.tables = Migrated(case.version)
       /\ case.version = 9 =>
            \A e \in Entity \cup {"Relation"} :
              LET mine == IF e = "Relation" THEN IncidentComponentRelationTable ELSE Schema[e].table
                  theirs == case.tables[e]
              IN  /\ mine.columns = theirs.columns /\ mine.nullable = theirs.nullable
                  /\ mine.default = theirs.default /\ mine.unique = theirs.unique
                  /\ theirs.refs \subseteq mine.refs

\* An insert passes check() exactly when every field declared required is
\* given and none declared not empty is blank.  A statement whose builder
\* passed leaves a row the deployed tables accept, with what an insert set
\* read back as it was set and what an update set in its column.  The
\* exception is the edge of the outbox: check() lets it be cleared on its own.
BuildersFitTables ==
  LET d == Declared[case.e]
      m == case.m
  IN  /\ case.kind = "insert" =>
           /\ case.passes = (RequiredFields(d) \cap case.missing = {} /\ d.notEmpty \cap case.blank = {})
           /\ case.passes =>
                \A f \in DOMAIN m.set : ReadBack(case.e, case.row)[f] = m.set[f]
      /\ case.kind = "update" /\ case.passes => \A f \in DOMAIN m.set : case.row[f] = m.set[f]
      /\ case.kind \in {"insert", "update", "upsert"} /\ case.passes =>
           NotNull(Deployed[case.e], case.row) \/ "incident" \in m.clearedEdges

\* Declaration, generated client and migrated tables fit: one schema per version of
\* the database, the last one the client's, and builders whose check() lets only
\* statements through that it accepts.
ClientFits == SchemaFits /\ BuildersFitTables

\* An edge that was loaded holds what its table relates and nothing else, for
\* every node of the result whatever their order and however many share a
\* neighbour, and the two ends of the many-to-many edge say the same.
LoadersComplete ==
  /\ case.kind = "related" =>
       \A i \in DOMAIN case.nodes :
         /\ case.components[i] = {id \in Ids : <<case.nodes[i], id>> \in case.relation}
         /\ \A j \in DOMAIN case.nodes :
              case.nodes[j] \in case.components[i] <=> case.nodes[i] \in case.incidents[j]
  /\ case.kind = "owned" =>
       \A i \in DOMAIN case.nodes :
         LET node == case.nodes[i]
             owned == {a \in Ids : case.fk[a] = node}
             owner == IF case.fk[node] \in case.existing THEN case.fk[node] ELSE NotFound
         IN  /\ case.attributes[i] = owned /\ case.notifications[i] = owned
             /\ case.component[i] = owner /\ case.incident[i] = owner

\* The rule that keeps drafts from the public is written three times: in the
\* handler of one event, as predicates of the lists, and in the SQL of the
\* feeds by region.  They agree on every event, no filter finds what the rule
\* hides, no update or feed item the public sees is a draft's, and when the last
\* stored update is the one that set the status, an editor sees it with the
\* status of the event.  (A SYSTEM update of an open incident leaves the status.)
OneAudience ==
  case.kind = "event" =>
    LET inc == case.inc
        sts == case.statuses
        shown == ToAPIEvent(inc, sts, {}, case.isAuth)
        Public(s) == \A i \in DOMAIN s : ~IsInternalStatus(s[i])
        Found(filter) == Selected(ApplyEventsFilters(filter, inc, sts, {"c"}, 0, case.isAuth))
        OfComponent(active) == Selected(GetEventsByComponentID("c", active, inc, sts, {"c"}, 0))
        listed == Found(NoFilter)
    IN  /\ listed = ~HiddenFrom(case.isAuth, inc, sts)
        /\ Found(case.filter) => listed
        /\ ~case.isAuth =>
             /\ listed = OfComponent(FALSE)
             /\ OfComponent(TRUE) => listed
             /\ listed = Selected(IncidentsByComponentAttr(inc, sts))
             /\ listed => /\ ~IsInternalStatus(shown.status)
                          /\ Public([i \in DOMAIN shown.updates |-> shown.updates[i].status])
                          /\ Public(CreateFeedItems(inc, sts))
                          /\ Public(CreateFeedContent(inc, sts))
             /\ shown.creator = Null /\ shown.contact = Null /\ shown.version = Null
        /\ case.isAuth /\ sts # << >> /\ shown.updates # << >> =>
             (sts[Len(sts)].status = inc.status => Last(shown.updates).status = shown.status)

\* The reference: the hours of a month that lie in an outage, one by one.
CoveredHours(inc, month, now) ==
  Cardinality({t \in MonthStart[month] .. MonthEnd(month) - 1 :
                 /\ inc.impact = 3 /\ inc.end_date # Null
                 /\ inc.start_date <= t /\ t < inc.end_date /\ t < now})

\* An outage costs a month exactly the hours it covers of it, across months
\* and years, at both ends of the period and at the clock; outages that
\* overlap are each counted in full, so a month can fall below zero.  Every
\* one of the last twelve months is answered once, latest first.
AvailabilityTrue ==
  case.kind = "availability" /\ case.incidents # << >> =>
    /\ Len(case.answer) = MonthsInYear
    /\ \A i \in 1 .. MonthsInYear :
         LET month == MonthOf(case.now) - (i - 1)
         IN  case.answer[i] =
               [year |-> Year(month), month |-> Month(month),
                percentage |->
                  Percentage(Total([k \in DOMAIN case.incidents |->
                                      CoveredHours(case.incidents[k], month, case.now)]),
                             HoursInMonth(month))]

\* A reporter is served no write but a system incident at POST /v2/events, the
\* notification routes serve admins only, and a creator's PATCH of a maintenance
\* is of an own draft, which stays a draft or is cancelled.  (The text of an
\* update is open to every role but the reporter.)  Reading needs no token; the
\* roles from creator up see the internal fields.
ScopesKept ==
  case.kind = "request" /\ case.answer.status = 0 =>
    LET asked == case.asked
        names == ExtractRolesFromClaims(asked.token.claims, RoleNames(asked.svc))
        roles == {RoleForName(asked.svc, n) : n \in names} \cup {NoRole}
        role == CHOOSE r \in roles : \A other \in roles : other <= r
    IN  /\ asked.route # "GetEvents" => asked.token.valid /\ ~asked.token.absent
        /\ role = Reporter /\ asked.route # "GetEvents" =>
             asked.route = "PostEvent" /\ IsSystemIncident(asked.sent)
        /\ asked.route \in {"GetStats", "GetFailed", "PostRedrive"} => role = Admin
        /\ asked.route = "PatchEvent" /\ asked.stored.type = "maintenance" /\ role < Operator =>
             /\ asked.stored.created_by = asked.token.subject
             /\ asked.stored.status = "pending_review"
             /\ asked.sent.status \in {"pending_review", "cancelled"}
        /\ asked.route = "GetEvents" => HasExtendedView(case.answer) = (role >= Creator)

\* In a configuration that was accepted the metrics have a port of their own, a
\* lease outlives a send (the outbox needs more of it, LeaseAssumption there),
\* a message is tried at least once, the cache has a lifetime and a budget; and
\* no text of the environment is replaced by one of the file, nor is a switch
\* turned off that the environment turns on.
ConfigSound ==
  case.kind = "config" /\ case.answer.ok =>
    LET conf == case.answer.conf
        env == case.given.env
    IN  /\ conf.MetricsPort # Unset /\ conf.MetricsPort # conf.Port
        /\ conf.Enabled => /\ conf.LeaseTimeout > conf.SMTPTimeout
                           /\ conf.MaxAttempts >= 1
                           /\ conf.SMTPHost # Unset /\ conf.SMTPFrom # Unset
        /\ OriginList(conf) # << >> => conf.CacheTTL > 0 /\ conf.CacheMaxBytes > 0
        /\ \A f \in Strings : env[f] # Unset => conf[f] = env[f]
        /\ \A f \in Bools : env[f] = TRUE => conf[f] = TRUE

=============================================================================
