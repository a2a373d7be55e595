----------------------------- MODULE RulesProofs -----------------------------
(***************************************************************************)
(* Theorems about the rules that have no state of their own, for any role  *)
(* names, tokens, bodies and settings, any history of an event and any     *)
(* filter, any tables an edge is loaded from, any calendar and any outages.*)
(*                                                                         *)
(* A behaviour of Rules asks one question.  What is proved of an answer    *)
(* is first proved of the operator that computes it; the invariant below   *)
(* says that an answer came from that operator.                            *)
(***************************************************************************)
EXTENDS Rules, FiniteSetTheorems, NaturalsInduction, WellFoundedInduction, TLAPS

\* The questions as they were asked.
Asked ==
  /\ "kind" \in DOMAIN case
  /\ case.kind = "request" =>
       \E r \in Requests :
         /\ case.asked = r
         /\ case.answer = Serve(r.route, Request(r.svc, r.token), r.stored, r.sent)
  /\ case.kind = "config" =>
       \E e \in Environments : case.given = e /\ case.answer = LoadConf(e.env, e.file)
  /\ case.kind = "event" =>
       /\ case.isAuth \in BOOLEAN
       /\ \E h \in Histories :
            /\ case.inc.type = h.type /\ case.inc.status = h.status
            /\ case.statuses = [i \in DOMAIN h.statuses |-> [id |-> i, status |-> h.statuses[i], text |-> "text"]]
  /\ case.kind = "related" =>
       /\ case.relation \in SUBSET (Ids \X Ids) /\ case.nodes \in Orders
       /\ case.components = LoadComponents(case.nodes, case.relation)
       /\ case.incidents = LoadIncidents(case.nodes, case.relation)
  /\ case.kind = "owned" =>
       /\ case.fk \in [Ids -> Ids \cup {Null}] /\ case.nodes \in Orders /\ case.existing \in SUBSET Ids
       /\ case.attributes = LoadAttributes(case.nodes, case.fk)
       /\ case.component = LoadComponent(case.nodes, case.fk, case.existing)
       /\ case.notifications = LoadNotifications(case.nodes, case.fk)
       /\ case.incident = LoadIncident(case.nodes, case.fk, case.existing)
  /\ case.kind = "availability" =>
       /\ case.incidents \in Outages /\ case.now \in Clock
       /\ case.answer = CalculateAvailability(case.incidents, case.now)

(* Every action asks a question of its own kind; a migration keeps the kind. *)
LEMMA AskedKept == Asked /\ [Next]_case => Asked'
<1> SUFFICES ASSUME Asked, [Next]_case PROVE Asked'
  OBVIOUS
<1>1. CASE UNCHANGED case
  BY <1>1 DEF Asked
<1>2. CASE Bootstrap
  BY <1>2 DEF Bootstrap, Asked
<1>3. CASE MigrateUp
  <2>1. case'.kind = "schema" /\ "kind" \in DOMAIN case'
    BY <1>3 DEF MigrateUp, Asked
  <2> QED BY <2>1 DEF Asked
<1>4. CASE MigrateDown
  <2>1. case'.kind = "schema" /\ "kind" \in DOMAIN case'
    BY <1>4 DEF MigrateDown, Asked
  <2> QED BY <2>1 DEF Asked
<1>5. CASE Generate
  BY <1>5 DEF Generate, Asked
<1>6. CASE Insert
  <2>1. case'.kind = "insert" /\ "kind" \in DOMAIN case'
    BY <1>6 DEF Insert
  <2> QED BY <2>1 DEF Asked
<1>7. CASE Update
  <2>1. case'.kind = "update" /\ "kind" \in DOMAIN case'
    BY <1>7 DEF Update
  <2> QED BY <2>1 DEF Asked
<1>8. CASE Conflict
  <2>1. case'.kind = "upsert" /\ "kind" \in DOMAIN case'
    BY <1>8 DEF Conflict
  <2> QED BY <2>1 DEF Asked
<1>9. CASE QueryRelated
  <2>1. PICK relation \in SUBSET (Ids \X Ids), nodes \in Orders :
          case' = [kind |-> "related", relation |-> relation, nodes |-> nodes,
                   components |-> LoadComponents(nodes, relation),
                   incidents |-> LoadIncidents(nodes, relation)]
    BY <1>9 DEF QueryRelated
  <2> QED BY <2>1 DEF Asked
<1>10. CASE QueryOwned
  <2>1. PICK fk \in [Ids -> Ids \cup {Null}], nodes \in Orders, existing \in SUBSET Ids :
          case' = [kind |-> "owned", fk |-> fk, nodes |-> nodes, existing |-> existing,
                   attributes |-> LoadAttributes(nodes, fk), component |-> LoadComponent(nodes, fk, existing),
                   notifications |-> LoadNotifications(nodes, fk), incident |-> LoadIncident(nodes, fk, existing)]
    BY <1>10 DEF QueryOwned
  <2> QED BY <2>1 DEF Asked
<1>11. CASE Show
  <2>1. PICK h \in Histories, end \in {Null, 1}, isAuth \in BOOLEAN, filter \in Filters :
          case' = [kind |-> "event", isAuth |-> isAuth, filter |-> filter,
                inc |-> [type |-> h.type, status |-> h.status, end_date |-> end,
                         start_date |-> 0, impact |-> 0, system |-> FALSE, description |-> "first", created_by |-> "u",
                         contact_email |-> "u@x", version |-> 1],
                statuses |-> [i \in DOMAIN h.statuses |->
                                [id |-> i, status |-> h.statuses[i], text |-> "text"]]]
    BY <1>11 DEF Show
  <2>2. case'.kind = "event" /\ "kind" \in DOMAIN case' /\ case'.isAuth = isAuth
    BY <2>1
  <2>3. case'.inc.type = h.type /\ case'.inc.status = h.status
    BY <2>1
  <2>4. case'.statuses = [i \in DOMAIN h.statuses |-> [id |-> i, status |-> h.statuses[i], text |-> "text"]]
    BY <2>1
  <2> QED BY <2>2, <2>3, <2>4 DEF Asked
<1>12. CASE Measure
  <2>1. PICK incidents \in Outages, now \in Clock :
          case' = [kind |-> "availability", incidents |-> incidents, now |-> now,
                   answer |-> CalculateAvailability(incidents, now)]
    BY <1>12 DEF Measure
  <2> QED BY <2>1 DEF Asked
<1>13. CASE Ask
  <2>1. PICK r \in Requests : case' = [kind |-> "request", asked |-> r,
                answer |-> Serve(r.route, Request(r.svc, r.token), r.stored, r.sent)]
    BY <1>13 DEF Ask
  <2> QED BY <2>1 DEF Asked
<1>14. CASE Load
  <2>1. PICK e \in Environments : case' = [kind |-> "config", given |-> e, answer |-> LoadConf(e.env, e.file)]
    BY <1>14 DEF Load
  <2> QED BY <2>1 DEF Asked
<1> QED BY <1>1, <1>2, <1>3, <1>4, <1>5, <1>6, <1>7, <1>8, <1>9, <1>10, <1>11, <1>12, <1>13, <1>14 DEF Next

(* An answer is the answer to the question that was asked. *)
LEMMA AnswersAsked == Spec => []Asked
<1>1. Init => Asked
  BY DEF Init, Idle, Asked
<1> QED BY <1>1, AskedKept, PTL DEF Spec

-----------------------------------------------------------------------------
(* Configuration *)

\* What ConfigSound says of a configuration and the environment it was loaded from.
Sound(conf, env) ==
  /\ conf.MetricsPort # Unset /\ conf.MetricsPort # conf.Port
  /\ conf.Enabled => /\ conf.LeaseTimeout > conf.SMTPTimeout
                     /\ conf.MaxAttempts >= 1
                     /\ conf.SMTPHost # Unset /\ conf.SMTPFrom # Unset
  /\ OriginList(conf) # << >> => conf.CacheTTL > 0 /\ conf.CacheMaxBytes > 0
  /\ \A f \in Strings : env[f] # Unset => conf[f] = env[f]
  /\ \A f \in Bools : env[f] = TRUE => conf[f] = TRUE

(* What the loader accepts is sound, whichever settings came *)
(* from the environment, the file or the defaults: the defaults are filled in    *)
(* before the validation.                                                        *)
LEMMA LoadConfSound ==
  ASSUME NEW env, NEW file, DOMAIN env = Settings, DOMAIN file = Settings, LoadConf(env, file).ok
  PROVE  Sound(LoadConf(env, file).conf, env)
<1> DEFINE merged == MergeConfigs(file, env)
           conf == FillDefaults(merged)
<1>1. LoadConf(env, file).conf = conf /\ Validate(conf)
  BY DEF LoadConf
<1>2. conf.MetricsPort # Unset
  <2>1. "MetricsPort" \in Settings /\ "MetricsPort" \in DOMAIN Default /\ "MetricsPort" \notin MailDefaults
    BY DEF Settings, Strings, Default, MailDefaults
  <2>2. Default["MetricsPort"] \in Int
    BY DEF Default
  <2>3. conf["MetricsPort"] = IF merged["MetricsPort"] = Unset THEN Default["MetricsPort"]
                              ELSE merged["MetricsPort"]
    BY <2>1 DEF FillDefaults
  <2> HIDE DEF conf, merged
  <2> QED BY <2>2, <2>3, EnvironmentsAssumption
<1>3. \A f \in Strings : env[f] # Unset => conf[f] = env[f]
  <2> SUFFICES ASSUME NEW f \in Strings, env[f] # Unset PROVE conf[f] = env[f]
    OBVIOUS
  <2>1. f \in Settings /\ f \notin Bools
    BY DEF Settings, Strings, Bools
  <2>2. merged[f] = env[f]
    BY <2>1 DEF MergeConfigs
  <2> QED BY <2>1, <2>2 DEF FillDefaults
<1>7. \A f \in Bools : env[f] = TRUE => conf[f] = TRUE
  <2> SUFFICES ASSUME NEW f \in Bools, env[f] = TRUE PROVE conf[f] = TRUE
    OBVIOUS
  <2>1. f \in Settings /\ f \notin DOMAIN Default
    BY DEF Settings, Bools, Default
  <2>2. merged[f] = TRUE
    BY <2>1 DEF MergeConfigs
  <2> QED BY <2>1, <2>2 DEF FillDefaults
<1> HIDE DEF conf, merged
<1>4. conf.MetricsPort # conf.Port
  BY <1>1, <1>2 DEF Validate, ValidateMetricsPort
<1>5. conf.Enabled => /\ conf.LeaseTimeout > conf.SMTPTimeout /\ conf.MaxAttempts >= 1
                      /\ conf.SMTPHost # Unset /\ conf.SMTPFrom # Unset
  BY <1>1 DEF Validate, ValidateNotifications, ValidateSMTP
<1>6. OriginList(conf) # << >> => conf.CacheTTL > 0 /\ conf.CacheMaxBytes > 0
  BY <1>1 DEF Validate, StaticValidate, TTL, MaxBytes
<1> QED BY ONLY <1>1, <1>2, <1>3, <1>4, <1>5, <1>6, <1>7 DEF Sound

(* A configuration that the loader accepted is usable, and no text the environment *)
(* sets is replaced by one of the .env file, for any environment and any file      *)
(* (LoadConf, Validate).  A switch the environment turns off may still be on.      *)
THEOREM ConfigurationSound == Spec => []ConfigSound
<1>1. Asked => ConfigSound
  <2> SUFFICES ASSUME Asked, case.kind = "config", case.answer.ok PROVE ConfigSound
    BY DEF ConfigSound
  <2>1. PICK e \in Environments : case.given = e /\ case.answer = LoadConf(e.env, e.file)
    BY DEF Asked
  <2>2. DOMAIN e.env = Settings /\ DOMAIN e.file = Settings /\ LoadConf(e.env, e.file).ok
    BY <2>1, EnvironmentsAssumption
  <2>3. Sound(LoadConf(e.env, e.file).conf, e.env)
    BY <2>2, LoadConfSound
  <2>4. Sound(case.answer.conf, case.given.env)
    BY <2>1, <2>3
  <2> QED BY ONLY <2>4 DEF Sound, ConfigSound
<1> QED BY <1>1, AnswersAsked, PTL

-----------------------------------------------------------------------------
(* Roles *)

Names(svc, token) == ExtractRolesFromClaims(token.claims, RoleNames(svc))
Roles(svc, names) == {RoleForName(svc, n) : n \in names} \cup {NoRole}

(* The role of a caller is the highest its names give, and there is one. *)
LEMMA ResolvedRole ==
  ASSUME NEW svc, NEW names
  PROVE  /\ ResolveRole(svc, names) \in Int
         /\ ResolveRole(svc, names) = CHOOSE r \in Roles(svc, names) : \A other \in Roles(svc, names) : other <= r
<1> DEFINE S == Roles(svc, names)
<1>1. S \in SUBSET {0, 5, 10, 30, 50} /\ 0 \in S
  BY DEF Roles, RoleForName, NoRole, Reporter, Creator, Operator, Admin
<1>2. ResolveRole(svc, names) = CHOOSE x \in S : \A y \in S : x >= y
  <2>1. {NoRole} \cup {RoleForName(svc, name) : name \in names} = S
    BY DEF Roles
  <2> QED BY <2>1 DEF ResolveRole, Max
<1> HIDE DEF S
<1>3. \E x \in S : \A y \in S : x >= y
  <2>1. CASE 50 \in S
    BY <1>1, <2>1
  <2>2. CASE 50 \notin S /\ 30 \in S
    BY <1>1, <2>2
  <2>3. CASE 50 \notin S /\ 30 \notin S /\ 10 \in S
    BY <1>1, <2>3
  <2>4. CASE 50 \notin S /\ 30 \notin S /\ 10 \notin S /\ 5 \in S
    BY <1>1, <2>4
  <2>5. CASE 50 \notin S /\ 30 \notin S /\ 10 \notin S /\ 5 \notin S
    BY <1>1, <2>5
  <2> QED BY <2>1, <2>2, <2>3, <2>4, <2>5
<1>4. \A x, y \in S : x \in Int /\ (y <= x <=> x >= y)
  BY <1>1
<1> DEFINE m == CHOOSE x \in S : \A y \in S : x >= y
           n == CHOOSE x \in S : \A y \in S : y <= x
<1>5. m \in S /\ \A y \in S : m >= y
  BY <1>3
<1>6. \E x \in S : \A y \in S : y <= x
  BY <1>3, <1>4
<1>7. n \in S /\ \A y \in S : y <= n
  BY <1>6
<1> HIDE DEF m, n
<1>8. m \in Int /\ n \in Int /\ m >= n /\ m <= n
  BY <1>4, <1>5, <1>7
<1>9. m = n
  BY <1>8
<1> QED BY <1>2, <1>8, <1>9 DEF S, m, n

-----------------------------------------------------------------------------
(* The steps of a chain *)

\* The context behind AuthenticationMW, and behind RBACAuthorizationMW.
Known(c, svc, token) ==
  /\ c.status = 0 /\ c.svc = svc /\ c.authenticated
  /\ c.roles = Names(svc, token) /\ c.subject = token.subject
Ranked(c, svc, token) ==
  Known(c, svc, token) /\ c.hasRole /\ c.role = ResolveRole(svc, Names(svc, token))

(* A request passes the authentication with a valid token only. *)
LEMMA Authenticated ==
  ASSUME NEW svc, NEW token, AuthenticationMW(Request(svc, token)).status = 0,
         token.absent \in BOOLEAN, token.valid \in BOOLEAN
  PROVE  ~token.absent /\ token.valid /\ Known(AuthenticationMW(Request(svc, token)), svc, token)
<1> DEFINE c == Request(svc, token)
<1>1. c.token = token /\ c.svc = svc /\ c.status = 0
  BY DEF Request
<1>0. Refuse(c, 401).status = 401 /\ AuthenticationMW(c).status = 0
  BY DEF Refuse, Request
<1>2. ~token.absent /\ AuthenticationMW(c) = Authenticate(c)
  <2> HIDE DEF c
  <2> QED BY <1>0, <1>1 DEF AuthenticationMW
<1>3. Verify(svc, token).ok
  <2> HIDE DEF c
  <2> QED BY <1>0, <1>1, <1>2 DEF Authenticate
<1>4. token.valid /\ Verify(svc, token) = [ok |-> TRUE, subject |-> token.subject, roles |-> Names(svc, token)]
  BY <1>3 DEF Verify, Names
<1>5. Authenticate(c) = [c EXCEPT !.subject = token.subject, !.roles = Names(svc, token), !.authenticated = TRUE]
  BY <1>1, <1>4 DEF Authenticate
<1> QED BY <1>2, <1>4, <1>5 DEF Known, Request

(* The second step gives the context its role. *)
LEMMA Authorized ==
  ASSUME NEW svc, NEW token, NEW c, Known(c, svc, token), RBACAuthorizationMW(c).status = 0,
         DOMAIN c = DOMAIN Request(svc, token)
  PROVE  /\ Ranked(RBACAuthorizationMW(c), svc, token)
         /\ DOMAIN RBACAuthorizationMW(c) = DOMAIN Request(svc, token)
<1>1. "status" \in DOMAIN c /\ "role" \in DOMAIN c /\ "hasRole" \in DOMAIN c
  BY DEF Request
<1>2. RBACAuthorizationMW(c) = [c EXCEPT !.role = ResolveRole(c.svc, c.roles), !.hasRole = TRUE]
  BY <1>1 DEF RBACAuthorizationMW, Refuse, Known
<1> QED BY <1>1, <1>2 DEF Known, Ranked

(* A reporter goes no further. *)
LEMMA NotReporter ==
  ASSUME NEW svc, NEW token, NEW c, Known(c, svc, token), DenyReporterScopeMW(c).status = 0,
         DOMAIN c = DOMAIN Request(svc, token)
  PROVE  DenyReporterScopeMW(c) = c /\ ResolveRole(svc, Names(svc, token)) # Reporter
<1>1. "status" \in DOMAIN c
  BY DEF Request
<1> QED BY <1>1 DEF DenyReporterScopeMW, ResolveCallerRole, IsReporter, Refuse, Known

\* What Serve does at position i.
Pass(route, i, c, stored, sent) ==
  IF i > Len(Chain[route]) \/ c.status # 0 THEN c ELSE Apply(Chain[route][i], c, stored, sent)

(* A request that was served passed every step. *)
LEMMA PassedAll ==
  ASSUME NEW route, NEW c, NEW stored, NEW sent, Serve(route, c, stored, sent).status = 0
  PROVE  \E c1, c2, c3 :
           /\ c1 = Pass(route, 1, c, stored, sent) /\ c1.status = 0
           /\ c2 = Pass(route, 2, c1, stored, sent) /\ c2.status = 0
           /\ c3 = Pass(route, 3, c2, stored, sent) /\ c3.status = 0
           /\ Serve(route, c, stored, sent) = Pass(route, 4, c3, stored, sent)
<1>1. PICK c1 : c1 = Pass(route, 1, c, stored, sent)
  OBVIOUS
<1>2. PICK c2 : c2 = Pass(route, 2, c1, stored, sent)
  OBVIOUS
<1>3. PICK c3 : c3 = Pass(route, 3, c2, stored, sent)
  OBVIOUS
<1>4. Serve(route, c, stored, sent) = Pass(route, 4, c3, stored, sent)
  BY <1>1, <1>2, <1>3 DEF Serve, Pass
<1>5. c3.status = 0
  BY <1>4 DEF Pass
<1>6. c2.status = 0
  BY <1>3, <1>5 DEF Pass
<1>7. c1.status = 0
  BY <1>2, <1>6 DEF Pass
<1> QED BY <1>1, <1>2, <1>3, <1>4, <1>5, <1>6, <1>7

-----------------------------------------------------------------------------
(* The routes *)

\* What ScopesKept says of a request that was served with the role given.
InScope(route, token, stored, sent, role) ==
  /\ route # "GetEvents" => token.valid /\ ~token.absent
  /\ role = Reporter /\ route # "GetEvents" => route = "PostEvent" /\ IsSystemIncident(sent)
  /\ route \in {"GetStats", "GetFailed", "PostRedrive"} => role = Admin
  /\ route = "PatchEvent" /\ stored.type = "maintenance" /\ role < Operator =>
       /\ stored.created_by = token.subject
       /\ stored.status = "pending_review"
       /\ sent.status \in {"pending_review", "cancelled"}

(* Every chain but that of the reads begins with the authentication. *)
LEMMA ChainsAre ==
  /\ DOMAIN Chain = {"PostComponent", "PostIncident", "PostEvent", "PatchEvent", "PostExtract", "PatchUpdate",
                     "GetEvents", "GetStats", "GetFailed", "PostRedrive"}
  /\ \A r \in DOMAIN Chain \ {"GetEvents"} : Len(Chain[r]) >= 2 /\ Chain[r][1] = "AuthenticationMW"
  /\ \A r \in DOMAIN Chain \ {"GetEvents", "PostComponent"} :
       Len(Chain[r]) >= 3 /\ Chain[r][2] = "RBACAuthorizationMW"
  /\ Len(Chain["PostComponent"]) = 2 /\ Chain["PostComponent"][2] = "DenyReporterScopeMW"
  /\ \A r \in {"PostIncident", "PatchEvent", "PostExtract", "PatchUpdate"} : Chain[r][3] = "DenyReporterScopeMW"
  /\ Len(Chain["PatchEvent"]) = 4 /\ Chain["PatchEvent"][4] = "patch"
  /\ Chain["PostEvent"][3] = "create"
  /\ \A r \in {"GetStats", "GetFailed", "PostRedrive"} : Chain[r][3] = "RequireAdmin"
  /\ Chain["GetEvents"] = <<"SetJWTClaims">>
BY DEF Chain

(* The chain of each route keeps its callers in their scope. *)
LEMMA RoutesKeepScope ==
  ASSUME NEW route \in DOMAIN Chain, NEW svc, NEW token, NEW stored, NEW sent,
         token.absent \in BOOLEAN, token.valid \in BOOLEAN,
         Serve(route, Request(svc, token), stored, sent).status = 0
  PROVE  InScope(route, token, stored, sent, ResolveRole(svc, Names(svc, token)))
<1> DEFINE role == ResolveRole(svc, Names(svc, token))
<1>0. role \in Int
  BY ResolvedRole
<1> HIDE DEF role
<1>1. PICK c0 : c0 = Request(svc, token)
  OBVIOUS
<1>2. PICK c1, c2, c3 :
        /\ c1 = Pass(route, 1, c0, stored, sent) /\ c1.status = 0
        /\ c2 = Pass(route, 2, c1, stored, sent) /\ c2.status = 0
        /\ c3 = Pass(route, 3, c2, stored, sent) /\ c3.status = 0
        /\ Serve(route, c0, stored, sent) = Pass(route, 4, c3, stored, sent)
  BY <1>1, PassedAll
<1>3. Pass(route, 4, c3, stored, sent).status = 0
  BY <1>1, <1>2
<1>4. CASE route = "GetEvents"
  BY <1>4 DEF InScope
<1>5. CASE route # "GetEvents"
  <2>1. c1 = AuthenticationMW(c0)
    <3>1. c0.status = 0
      BY <1>1 DEF Request
    <3>2. Len(Chain[route]) \in Int /\ Len(Chain[route]) >= 2 /\ Chain[route][1] = "AuthenticationMW"
      BY <1>5, ChainsAre DEF Chain
    <3>3. ~(1 > Len(Chain[route]))
      BY <3>2
    <3> QED BY <1>2, <3>1, <3>2, <3>3 DEF Pass, Apply
  <2>2. ~token.absent /\ token.valid /\ Known(c1, svc, token)
    BY <1>1, <1>2, <2>1, Authenticated
  <2>3. DOMAIN c1 = DOMAIN c0
    BY <1>1, <2>1 DEF AuthenticationMW, Authenticate, Refuse, Request
  <2>4. CASE route = "PostComponent"
    <3>1. c2 = DenyReporterScopeMW(c1)
      <4>1. ~(2 > Len(Chain[route])) /\ Chain[route][2] = "DenyReporterScopeMW"
        BY <2>4, ChainsAre
      <4> QED BY <1>2, <4>1 DEF Pass, Apply
    <3>2. role # Reporter
      BY <1>1, <1>2, <2>2, <2>3, <3>1, NotReporter DEF role
    <3> QED BY <2>2, <2>4, <3>2 DEF InScope, role
  <2>5. CASE route # "PostComponent"
    <3>1. c2 = RBACAuthorizationMW(c1)
      <4>1. ~(2 > Len(Chain[route])) /\ Chain[route][2] = "RBACAuthorizationMW"
        <5>1. Len(Chain[route]) \in Int /\ Len(Chain[route]) >= 3 /\ Chain[route][2] = "RBACAuthorizationMW"
          BY <1>5, <2>5, ChainsAre DEF Chain
        <5> QED BY <5>1
      <4> QED BY <1>2, <4>1 DEF Pass, Apply
    <3>2. Ranked(c2, svc, token) /\ DOMAIN c2 = DOMAIN c0
      BY <1>1, <1>2, <2>2, <2>3, <3>1, Authorized
    <3>3. c2.hasRole /\ c2.role = role /\ c2.subject = token.subject /\ Known(c2, svc, token) /\ "status" \in DOMAIN c2
      BY <1>1, <3>2 DEF Ranked, Known, role, Request
    <3>4. ~(3 > Len(Chain[route]))
      <4>1. Len(Chain[route]) \in Int /\ Len(Chain[route]) >= 3
        BY <1>5, <2>5, ChainsAre DEF Chain
      <4> QED BY <4>1
    <3>5. CASE route \in {"PostIncident", "PatchEvent", "PostExtract", "PatchUpdate"}
      <4>1. c3 = DenyReporterScopeMW(c2)
        <5>1. Chain[route][3] = "DenyReporterScopeMW"
          BY <3>5, ChainsAre
        <5> QED BY <1>2, <3>4, <5>1 DEF Pass, Apply
      <4>2. c3 = c2 /\ role # Reporter
        BY <1>1, <1>2, <3>2, <3>3, <4>1, NotReporter DEF role
      <4>3. ASSUME route = "PatchEvent", stored.type = "maintenance", role < Operator
            PROVE  /\ stored.created_by = token.subject /\ stored.status = "pending_review"
                   /\ sent.status \in {"pending_review", "cancelled"}
        <5>1. AllowMaintenancePatch(c2, stored, sent).status = 0
          <6>1. Chain[route][4] = "patch" /\ ~(4 > Len(Chain[route]))
            BY <4>3, ChainsAre
          <6> QED BY <1>2, <1>3, <4>2, <6>1 DEF Pass, Apply
        <5>2. Refuse(c2, 403).status = 403 /\ Refuse(c2, 409).status = 409
          BY <3>3 DEF Refuse
        <5>3. ~(role >= Operator)
          BY <1>0, <4>3 DEF Operator
        <5>4. AllowMaintenancePatchAsCreator(c2, stored, sent).status = 0
          BY <3>3, <4>3, <5>1, <5>2, <5>3 DEF AllowMaintenancePatch
        <5> QED BY <3>3, <5>2, <5>4 DEF AllowMaintenancePatchAsCreator
      <4> QED BY <2>2, <3>5, <4>2, <4>3 DEF InScope, role
    <3>6. CASE route = "PostEvent"
      <4>1. c3 = PrepareIncidentCreate(c2, sent)
        <5>1. Chain[route][3] = "create"
          BY <3>6, ChainsAre
        <5> QED BY <1>2, <3>4, <5>1 DEF Pass, Apply
      <4>2. role = Reporter => IsSystemIncident(sent)
        <5>1. Refuse(c2, 403).status = 403
          BY <3>3 DEF Refuse
        <5>2. ASSUME role = Reporter, ~IsSystemIncident(sent) PROVE FALSE
          <6>1. PrepareIncidentCreate(c2, sent) = Refuse(c2, 403)
            BY <3>3, <5>2 DEF PrepareIncidentCreate, IsReporter
          <6>2. c3.status = 0
            BY <1>2
          <6> QED BY <4>1, <5>1, <6>1, <6>2
        <5> QED BY <5>2
      <4> QED BY <2>2, <3>6, <4>2 DEF InScope, role
    <3>7. CASE route \in {"GetStats", "GetFailed", "PostRedrive"}
      <4>1. c3 = RequireAdmin(c2)
        <5>1. Chain[route][3] = "RequireAdmin"
          BY <3>7, ChainsAre
        <5> QED BY <1>2, <3>4, <5>1 DEF Pass, Apply
      <4>2. role = Admin
        <5>1. Refuse(c2, 403).status = 403
          BY <3>3 DEF Refuse
        <5> QED BY <1>2, <3>3, <4>1, <5>1 DEF RequireAdmin
      <4> QED BY <2>2, <3>7, <4>2 DEF InScope, role, Reporter, Admin
    <3> QED BY <1>5, <2>5, <3>5, <3>6, <3>7, ChainsAre
  <2> QED BY <2>4, <2>5
<1> QED BY <1>4, <1>5

(* A reader is shown the internal fields exactly with the role of a creator or more; *)
(* a reader without a token is served without them.                                  *)
LEMMA ReadersView ==
  ASSUME NEW svc, NEW token, NEW stored, NEW sent, token.absent \in BOOLEAN, token.valid \in BOOLEAN,
         token.absent => Names(svc, token) = {},
         Serve("GetEvents", Request(svc, token), stored, sent).status = 0
  PROVE  HasExtendedView(Serve("GetEvents", Request(svc, token), stored, sent))
           = (ResolveRole(svc, Names(svc, token)) >= Creator)
<1> DEFINE role == ResolveRole(svc, Names(svc, token))
           answer == Serve("GetEvents", Request(svc, token), stored, sent)
<1>1. PICK c0 : c0 = Request(svc, token)
  OBVIOUS
<1>2. answer = SetJWTClaims(c0)
  <2>0. c0.status = 0
    BY <1>1 DEF Request
  <2>1. c0.status = 0 /\ Len(Chain["GetEvents"]) = 1 /\ Chain["GetEvents"][1] = "SetJWTClaims"
    BY <2>0 DEF Chain
  <2>2. PICK c1, c2, c3 :
          /\ c1 = Pass("GetEvents", 1, c0, stored, sent) /\ c2 = Pass("GetEvents", 2, c1, stored, sent)
          /\ c3 = Pass("GetEvents", 3, c2, stored, sent)
          /\ Serve("GetEvents", c0, stored, sent) = Pass("GetEvents", 4, c3, stored, sent)
    BY <1>1, PassedAll
  <2>3. c1 = SetJWTClaims(c0)
    BY <2>1, <2>2 DEF Pass, Apply
  <2>4. Pass("GetEvents", 4, c3, stored, sent) = c1
    BY <2>1, <2>2 DEF Pass
  <2> QED BY <1>1, <2>2, <2>3, <2>4
<1>3. CASE token.absent
  <2>1. answer = c0 /\ ~c0.authenticated
    BY <1>1, <1>2, <1>3 DEF SetJWTClaims, Request
  <2>2. role = 0
    <3>1. Roles(svc, Names(svc, token)) = {0}
      BY <1>3 DEF Roles, NoRole
    <3>2. role = CHOOSE r \in {0} : \A other \in {0} : other <= r
      BY <3>1, ResolvedRole
    <3> QED BY <3>2
  <2> HIDE DEF answer, role
  <2>3. HasExtendedView(answer) = FALSE
    BY <2>1 DEF HasExtendedView
  <2>4. (role >= Creator) = FALSE
    BY <2>2 DEF Creator
  <2> QED BY <2>3, <2>4 DEF answer, role
<1>4. CASE ~token.absent
  <2>1. answer = Authenticate(c0) /\ AuthenticationMW(c0) = Authenticate(c0)
    BY <1>1, <1>2, <1>4 DEF SetJWTClaims, AuthenticationMW, Request
  <2>2. Known(answer, svc, token)
    BY <1>1, <2>1, Authenticated
  <2> HIDE DEF answer
  <2>3. HasExtendedView(answer) = (ResolveRole(svc, Names(svc, token)) >= Creator)
    BY <2>2 DEF HasExtendedView, CanViewInternalFields, Known
  <2> QED BY <2>3 DEF answer
<1> QED BY <1>3, <1>4

(* Every role stays in its scope, whatever names the deployment gives its roles and *)
(* whichever of them a token nests in its claims: no route serves what the role of  *)
(* the caller does not allow (routes.go, middleware.go and the handlers' checks).   *)
THEOREM RolesKeepScope == Spec => []ScopesKept
<1>1. Asked => ScopesKept
  <2> SUFFICES ASSUME Asked, case.kind = "request", case.answer.status = 0 PROVE ScopesKept
    BY DEF ScopesKept
  <2>1. PICK r \in Requests :
          /\ case.asked = r
          /\ case.answer = Serve(r.route, Request(r.svc, r.token), r.stored, r.sent)
    BY DEF Asked
  <2>2. PICK route, svc, token, stored, sent :
          route = r.route /\ svc = r.svc /\ token = r.token /\ stored = r.stored /\ sent = r.sent
    OBVIOUS
  <2>3. /\ route \in DOMAIN Chain /\ token.absent \in BOOLEAN /\ token.valid \in BOOLEAN
        /\ token.absent => \A c \in DOMAIN token.claims : token.claims[c] = {}
    BY <2>2, RequestsAssumption
  <2>4. case.answer = Serve(route, Request(svc, token), stored, sent)
    BY <2>1, <2>2
  <2>5. InScope(route, token, stored, sent, ResolveRole(svc, Names(svc, token)))
    BY <2>3, <2>4, RoutesKeepScope
  <2>6. token.absent => Names(svc, token) = {}
    BY <2>3 DEF Names, ExtractRolesFromClaims, CollectRoleNames
  <2>7. route = "GetEvents" =>
          HasExtendedView(case.answer) = (ResolveRole(svc, Names(svc, token)) >= Creator)
    BY <2>3, <2>4, <2>6, ReadersView
  <2>8. PICK role : role = ResolveRole(svc, Names(svc, token))
    OBVIOUS
  <2>9. role = CHOOSE x \in Roles(svc, Names(svc, token)) : \A other \in Roles(svc, Names(svc, token)) : other <= x
    BY <2>8, ResolvedRole
  <2>10. LET names == ExtractRolesFromClaims(case.asked.token.claims, RoleNames(case.asked.svc))
             roles == {RoleForName(case.asked.svc, n) : n \in names} \cup {NoRole}
         IN  role = CHOOSE x \in roles : \A other \in roles : other <= x
    BY <2>1, <2>2, <2>9 DEF Names, Roles
  <2> QED BY <2>1, <2>2, <2>5, <2>7, <2>8, <2>10 DEF ScopesKept, InScope
<1> QED BY <1>1, AnswersAsked, PTL

-----------------------------------------------------------------------------
(* Folds over a sequence, one element at a time *)

LessNat == {s \in Nat \X Nat : s[1] < s[2]}

(* A set of naturals that holds 0 and the successor of each member holds them all. *)
LEMMA Induction ==
  ASSUME NEW P \in SUBSET Nat, 0 \in P, \A n \in P : n + 1 \in P
  PROVE  P = Nat
<1> SUFFICES ASSUME Nat \ P # {} PROVE FALSE
  OBVIOUS
<1>1. IsWellFoundedOn(LessNat, Nat)
  BY NatLessThanWellFounded DEF OpToRel, LessNat
<1>2. PICK n \in Nat \ P : \A m \in Nat \ P : ~(<<m, n>> \in LessNat)
  BY <1>1, WFMin
<1>3. \A m \in Nat \ P : ~(m < n)
  BY <1>2 DEF LessNat
<1>4. n # 0 /\ n - 1 \in Nat /\ n - 1 \in P
  BY <1>3
<1>5. (n - 1) + 1 = n
  OBVIOUS
<1> QED BY <1>2, <1>4, <1>5

LEMMA MaxOf ==
  ASSUME NEW n \in Nat, NEW s \in SUBSET (1..(n + 1)), n + 1 \in s
  PROVE  Max(s) = n + 1
<1>1. n + 1 \in s /\ \A y \in s : n + 1 >= y
  OBVIOUS
<1>2. Max(s) \in s /\ \A y \in s : Max(s) >= y
  BY <1>1 DEF Max
<1>3. Max(s) >= n + 1 /\ Max(s) \in 1..(n + 1)
  BY <1>1, <1>2
<1> QED BY <1>3

LEMMA MaxBelow ==
  \A n \in Nat : \A s \in SUBSET (1..n) : s # {} => Max(s) \in s
<1> DEFINE P == {n \in Nat : \A s \in SUBSET (1..n) : s # {} => Max(s) \in s}
<1>1. 0 \in P
  <2>1. \A s \in SUBSET (1..0) : s = {}
    OBVIOUS
  <2> QED BY <2>1
<1>2. ASSUME NEW n \in P PROVE n + 1 \in P
  <2>1. ASSUME NEW s \in SUBSET (1..(n + 1)), s # {} PROVE Max(s) \in s
    <3>1. CASE n + 1 \in s
      BY <3>1, MaxOf
    <3>2. CASE n + 1 \notin s
      <4>1. s \in SUBSET (1..n)
        BY <3>2
      <4> QED BY <2>1, <4>1
    <3> QED BY <3>1, <3>2
  <2> QED BY <2>1
<1>3. P = Nat
  <2>1. P \in SUBSET Nat
    OBVIOUS
  <2> HIDE DEF P
  <2> QED BY <1>1, <1>2, <2>1, Induction
<1> QED BY <1>3

(* The positions before the last of a set of positions. *)
LEMMA MaxLeaves ==
  ASSUME NEW n \in Nat, NEW s \in SUBSET (1..(n + 1)), n + 1 \in s
  PROVE  Max(s) = n + 1 /\ s \ {Max(s)} \in SUBSET (1..n)
<1>1. Max(s) = n + 1
  BY MaxOf
<1> QED BY <1>1

\* g gives the accumulator after the positions of each set, the largest one taken last.
Accumulates(g, base, Q, n) ==
  \A s \in SUBSET (1..n) : g[s] = IF s = {} THEN base ELSE Q[<<g[s \ {Max(s)}], Max(s)>>]

(* The accumulators of a fold exist. *)
LEMMA FoldExists ==
  ASSUME NEW n \in Nat, NEW R, NEW base \in R, NEW Q \in [R \X (1..n) -> R]
  PROVE  \E g \in [SUBSET (1..n) -> R] : Accumulates(g, base, Q, n)
<1> DEFINE P == {m \in Nat : m <= n => \E g \in [SUBSET (1..m) -> R] : Accumulates(g, base, Q, m)}
<1>1. 0 \in P
  <2> DEFINE g == [s \in SUBSET (1..0) |-> base]
  <2>1. \A s \in SUBSET (1..0) : s = {}
    OBVIOUS
  <2>2. g \in [SUBSET (1..0) -> R] /\ Accumulates(g, base, Q, 0)
    BY <2>1 DEF Accumulates
  <2> QED BY <2>1, <2>2
<1>2. ASSUME NEW m \in P PROVE m + 1 \in P
  <2>a. m \in Nat /\ m + 1 \in Nat
    OBVIOUS
  <2> SUFFICES ASSUME m + 1 <= n
               PROVE  \E g \in [SUBSET (1..(m + 1)) -> R] : Accumulates(g, base, Q, m + 1)
    BY <2>a
  <2>0. m \in Nat /\ m <= n
    BY <2>a
  <2>1. PICK g \in [SUBSET (1..m) -> R] : Accumulates(g, base, Q, m)
    BY <2>0
  <2> HIDE DEF P
  <2>2. ASSUME NEW s \in SUBSET (1..(m + 1)), s # {}
        PROVE  Max(s) \in s /\ s \ {Max(s)} \in SUBSET (1..m)
    <3>1. CASE m + 1 \in s
      BY <2>0, <3>1, MaxLeaves
    <3>2. CASE m + 1 \notin s
      <4>1. s \in SUBSET (1..m)
        BY <2>0, <3>2
      <4>2. Max(s) \in s
        BY <2>0, <2>2, <4>1, MaxBelow
      <4> QED BY <4>1, <4>2
    <3> QED BY <3>1, <3>2
  <2> DEFINE h == [s \in SUBSET (1..(m + 1)) |->
                     IF s = {} THEN base ELSE Q[<<g[s \ {Max(s)}], Max(s)>>]]
  <2>3. ASSUME NEW s \in SUBSET (1..m) PROVE s \in SUBSET (1..(m + 1)) /\ h[s] = g[s]
    <3>1. s \in SUBSET (1..(m + 1))
      BY <2>0
    <3> QED BY <2>1, <3>1 DEF Accumulates
  <2>4. Accumulates(h, base, Q, m + 1)
    <3> SUFFICES ASSUME NEW s \in SUBSET (1..(m + 1))
                 PROVE  h[s] = IF s = {} THEN base ELSE Q[<<h[s \ {Max(s)}], Max(s)>>]
      BY DEF Accumulates
    <3>1. CASE s = {}
      BY <3>1
    <3>2. CASE s # {}
      BY <2>2, <2>3, <3>2
    <3> QED BY <3>1, <3>2
  <2>5. h \in [SUBSET (1..(m + 1)) -> R]
    <3> SUFFICES ASSUME NEW s \in SUBSET (1..(m + 1)), s # {} PROVE Q[<<g[s \ {Max(s)}], Max(s)>>] \in R
      OBVIOUS
    <3>1. g[s \ {Max(s)}] \in R
      BY <2>2
    <3>2. \A i \in 1..(m + 1) : i \in 1..n
      BY <2>0
    <3>3. Max(s) \in 1..n
      BY <2>2, <3>2
    <3> QED BY <3>1, <3>3
  <2> HIDE DEF h
  <2> QED BY <2>2, <2>4, <2>5
<1>3. P = Nat
  <2>1. P \in SUBSET Nat
    OBVIOUS
  <2> HIDE DEF P
  <2> QED BY <1>1, <1>2, <2>1, Induction
<1>4. n <= n
  OBVIOUS
<1> QED BY <1>3, <1>4

(* From one prefix to the next. *)
LEMMA NextPrefix ==
  ASSUME NEW n \in Nat, NEW k \in 0..(n - 1)
  PROVE  \E s \in SUBSET (1..n) : s = 1..(k + 1) /\ s # {} /\ s \ {Max(s)} = 1..k /\ Max(s) = k + 1
<1>0. PICK s : s = 1..(k + 1)
  OBVIOUS
<1>1. k \in Nat /\ s \in SUBSET (1..(k + 1)) /\ k + 1 \in s
  BY <1>0
<1>2. Max(s) = k + 1
  BY <1>1, MaxOf
<1>3. s \in SUBSET (1..n) /\ s # {} /\ s \ {k + 1} = 1..k
  BY <1>0
<1> QED BY <1>0, <1>2, <1>3

-----------------------------------------------------------------------------
(* The items of a feed *)

(* A feed has items only for the statuses it shows. *)
LEMMA ItemsShown ==
  ASSUME NEW n \in Nat, NEW statuses, DOMAIN statuses = 1..n, NEW shown
  PROVE  Items(statuses, shown) \in Seq(shown)
<1> DEFINE R == Seq(shown)
           Q == [p \in R \X (1..n) |-> ItemIf(p[1], statuses[p[2]], shown)]
           G == CHOOSE g : g = [s \in SUBSET (1..n) |->
                     IF s = {} THEN <<>> ELSE ItemIf(g[s \ {Max(s)}], statuses[Max(s)], shown)]
<1>1. Q \in [R \X (1..n) -> R] /\ <<>> \in R
  BY DEF ItemIf
<1>2. \E g : g = [s \in SUBSET (1..n) |->
                     IF s = {} THEN <<>> ELSE ItemIf(g[s \ {Max(s)}], statuses[Max(s)], shown)]
  <2>1. PICK g \in [SUBSET (1..n) -> R] : Accumulates(g, <<>>, Q, n)
    <3> HIDE DEF Q, R
    <3> QED BY <1>1, FoldExists
  <2>2. ASSUME NEW s \in SUBSET (1..n), s # {}
        PROVE  g[s] = ItemIf(g[s \ {Max(s)}], statuses[Max(s)], shown)
    <3>1. Max(s) \in s
      BY <2>2, MaxBelow
    <3>2. g[s \ {Max(s)}] \in R /\ Max(s) \in 1..n
      BY <3>1
    <3>3. g[s] = Q[<<g[s \ {Max(s)}], Max(s)>>]
      BY <2>1, <2>2 DEF Accumulates
    <3> QED BY <3>2, <3>3
  <2>3. g[{}] = <<>> /\ {} \in SUBSET (1..n)
    BY <2>1 DEF Accumulates
  <2> QED BY <2>2, <2>3
<1>3. G = [s \in SUBSET (1..n) |->
                     IF s = {} THEN <<>> ELSE ItemIf(G[s \ {Max(s)}], statuses[Max(s)], shown)]
  BY <1>2
<1>4. Items(statuses, shown) = G[1..n]
  BY DEF Items, FoldLeft, MapThenFoldSet
<1> HIDE DEF G
<1> DEFINE P == {k \in Nat : k <= n => G[1..k] \in R}
<1>5. 0 \in P
  <2>1. 1..0 = {} /\ {} \in SUBSET (1..n)
    OBVIOUS
  <2> QED BY <1>1, <1>3, <2>1
<1>6. ASSUME NEW k \in P PROVE k + 1 \in P
  <2> SUFFICES ASSUME k + 1 <= n PROVE G[1..(k + 1)] \in R
    OBVIOUS
  <2>1. k \in 0..(n - 1) /\ G[1..k] \in R
    OBVIOUS
  <2>2. PICK s \in SUBSET (1..n) : s = 1..(k + 1) /\ s # {} /\ s \ {Max(s)} = 1..k /\ Max(s) = k + 1
    BY <2>1, NextPrefix
  <2>3. G[s] = ItemIf(G[1..k], statuses[k + 1], shown)
    BY <1>3, <2>2
  <2> QED BY <2>1, <2>2, <2>3 DEF ItemIf
<1>7. P = Nat
  <2>1. P \in SUBSET Nat
    OBVIOUS
  <2> HIDE DEF P
  <2> QED BY <1>5, <1>6, <2>1, Induction
<1> QED BY <1>4, <1>7

-----------------------------------------------------------------------------
(* The updates of an event *)

Normalized(inc, x) == NormalizeStatus(x, inc.end_date, inc.type)

\* The statuses, texts and ids the updates of an event are made of.
UpdateStatuses(statuses, inc) == {Normalized(inc, x) : x \in StatusesOf(statuses) \cup {inc.status}}
UpdateTexts(statuses) == {statuses[i].text : i \in DOMAIN statuses} \cup {""}
UpdateRows(statuses) == {statuses[i].id : i \in DOMAIN statuses}
Accumulators(statuses, inc) ==
  [last : UpdateStatuses(statuses, inc),
   updates : Seq([status : UpdateStatuses(statuses, inc), text : UpdateTexts(statuses), row : UpdateRows(statuses)]),
   description : UpdateTexts(statuses)]
NoUpdates(inc) == [last |-> Normalized(inc, inc.status), updates |-> <<>>, description |-> ""]

LEMMA MapUpdateIn ==
  ASSUME NEW statuses, NEW inc, NEW isAuth, NEW i \in DOMAIN statuses, NEW acc \in Accumulators(statuses, inc)
  PROVE  MapUpdate(acc, statuses[i], isAuth, inc) \in Accumulators(statuses, inc)
<1> DEFINE S == UpdateStatuses(statuses, inc)
           U == [status : S, text : UpdateTexts(statuses), row : UpdateRows(statuses)]
           s == statuses[i]
           status == Collapse(NormalizeStatus(s.status, inc.end_date, inc.type), acc.last)
<1>1. acc \in [last : S, updates : Seq(U), description : UpdateTexts(statuses)]
  BY DEF Accumulators
<1>2. s.text \in UpdateTexts(statuses) /\ s.id \in UpdateRows(statuses)
  BY DEF UpdateTexts, UpdateRows
<1>3. status \in S
  BY <1>1 DEF Collapse, UpdateStatuses, StatusesOf, Normalized
<1>4. PICK u : u = [status |-> status, text |-> s.text, row |-> s.id]
  OBVIOUS
<1>5. u \in U
  BY <1>2, <1>3, <1>4
<1>6. \/ MapUpdate(acc, s, isAuth, inc) = acc
      \/ MapUpdate(acc, s, isAuth, inc) = [acc EXCEPT !.description = s.text]
      \/ MapUpdate(acc, s, isAuth, inc) = [acc EXCEPT !.last = status, !.updates = Append(@, u)]
  BY <1>4 DEF MapUpdate
<1> HIDE DEF S, U, status, s
<1>7. Append(acc.updates, u) \in Seq(U)
  BY <1>1, <1>5
<1>8. CASE MapUpdate(acc, s, isAuth, inc) = acc
  BY <1>8 DEF s
<1>9. CASE MapUpdate(acc, s, isAuth, inc) = [acc EXCEPT !.description = s.text]
  <2>1. [acc EXCEPT !.description = s.text] \in [last : S, updates : Seq(U), description : UpdateTexts(statuses)]
    BY <1>1, <1>2
  <2> QED BY <1>9, <2>1 DEF s, S, U, Accumulators
<1>10. CASE MapUpdate(acc, s, isAuth, inc) = [acc EXCEPT !.last = status, !.updates = Append(@, u)]
  <2>1. [acc EXCEPT !.last = status, !.updates = Append(@, u)]
          \in [last : S, updates : Seq(U), description : UpdateTexts(statuses)]
    BY <1>1, <1>3, <1>7
  <2> QED BY <1>10, <2>1 DEF s, S, U, Accumulators
<1> QED BY <1>6, <1>8, <1>9, <1>10 DEF s

\* h gives the accumulator after each prefix of the history.
Maps(h, statuses, isAuth, inc, n) ==
  /\ h[0] = NoUpdates(inc) /\ h[n] = MapEventUpdates(statuses, isAuth, inc)
  /\ \A k \in 0..n : h[k] \in Accumulators(statuses, inc)
  /\ \A k \in 0..(n - 1) : h[k + 1] = MapUpdate(h[k], statuses[k + 1], isAuth, inc)

LEMMA MapsExist ==
  ASSUME NEW n \in Nat, NEW statuses, DOMAIN statuses = 1..n, NEW isAuth, NEW inc
  PROVE  \E h : Maps(h, statuses, isAuth, inc, n)
<1> DEFINE R == Accumulators(statuses, inc)
           base == NoUpdates(inc)
           Q == [p \in R \X (1..n) |-> MapUpdate(p[1], statuses[p[2]], isAuth, inc)]
           G == CHOOSE g : g = [s \in SUBSET (1..n) |->
                     IF s = {} THEN base ELSE MapUpdate(g[s \ {Max(s)}], statuses[Max(s)], isAuth, inc)]
<1>1. Q \in [R \X (1..n) -> R]
  <2> SUFFICES ASSUME NEW p \in R \X (1..n) PROVE MapUpdate(p[1], statuses[p[2]], isAuth, inc) \in R
    OBVIOUS
  <2>1. p[1] \in R /\ p[2] \in DOMAIN statuses
    OBVIOUS
  <2> HIDE DEF R
  <2> QED BY <2>1, MapUpdateIn DEF R
<1>2. base \in R
  BY DEF NoUpdates, Accumulators, UpdateStatuses, UpdateTexts
<1>3. \E g : g = [s \in SUBSET (1..n) |->
                     IF s = {} THEN base ELSE MapUpdate(g[s \ {Max(s)}], statuses[Max(s)], isAuth, inc)]
  <2>1. PICK g \in [SUBSET (1..n) -> R] : Accumulates(g, base, Q, n)
    <3> HIDE DEF Q, R, base
    <3> QED BY <1>1, <1>2, FoldExists
  <2> HIDE DEF R, base
  <2>2. ASSUME NEW s \in SUBSET (1..n), s # {}
        PROVE  g[s] = MapUpdate(g[s \ {Max(s)}], statuses[Max(s)], isAuth, inc)
    <3>1. Max(s) \in s
      BY <2>2, MaxBelow
    <3>2. g[s \ {Max(s)}] \in R /\ Max(s) \in 1..n
      BY <3>1
    <3>3. g[s] = Q[<<g[s \ {Max(s)}], Max(s)>>]
      BY <2>1, <2>2 DEF Accumulates
    <3> QED BY <3>2, <3>3
  <2>3. g[{}] = base /\ {} \in SUBSET (1..n)
    BY <2>1 DEF Accumulates
  <2> QED BY <2>2, <2>3
<1>4. G = [s \in SUBSET (1..n) |->
                     IF s = {} THEN base ELSE MapUpdate(G[s \ {Max(s)}], statuses[Max(s)], isAuth, inc)]
  BY <1>3
<1>5. MapEventUpdates(statuses, isAuth, inc) = G[1..n]
  BY DEF MapEventUpdates, FoldLeft, MapThenFoldSet, NoUpdates, Normalized
<1> HIDE DEF G, Q, R, base
<1>6. G[1..0] = base
  <2>1. 1..0 = {} /\ {} \in SUBSET (1..n)
    OBVIOUS
  <2> QED BY <1>4, <2>1
<1>7. ASSUME NEW k \in 0..(n - 1) PROVE G[1..(k + 1)] = MapUpdate(G[1..k], statuses[k + 1], isAuth, inc)
  <2>1. PICK s \in SUBSET (1..n) : s = 1..(k + 1) /\ s # {} /\ s \ {Max(s)} = 1..k /\ Max(s) = k + 1
    BY NextPrefix
  <2> QED BY <1>4, <2>1
<1> DEFINE P == {k \in Nat : k <= n => G[1..k] \in R}
<1>8. 0 \in P
  BY <1>2, <1>6
<1>9. ASSUME NEW k \in P PROVE k + 1 \in P
  <2> SUFFICES ASSUME k + 1 <= n PROVE G[1..(k + 1)] \in R
    OBVIOUS
  <2>1. k \in 0..(n - 1) /\ G[1..k] \in R /\ k + 1 \in 1..n
    OBVIOUS
  <2>2. G[1..(k + 1)] = MapUpdate(G[1..k], statuses[k + 1], isAuth, inc)
    BY <1>7, <2>1
  <2> QED BY <2>1, <2>2, MapUpdateIn DEF R
<1>10. P = Nat
  <2>1. P \in SUBSET Nat
    OBVIOUS
  <2> HIDE DEF P
  <2> QED BY <1>8, <1>9, <2>1, Induction
<1> DEFINE h == [k \in 0..n |-> G[1..k]]
<1>11. h[0] = base /\ h[n] = G[1..n] /\ \A k \in 0..n : h[k] \in R
  BY <1>6, <1>10
<1>12. ASSUME NEW k \in 0..(n - 1) PROVE h[k + 1] = MapUpdate(h[k], statuses[k + 1], isAuth, inc)
  <2>1. k \in 0..n /\ k + 1 \in 0..n
    OBVIOUS
  <2> QED BY <1>7, <2>1
<1> HIDE DEF h
<1> QED BY <1>5, <1>11, <1>12 DEF Maps, R, base

(* Nothing becomes internal that was not. *)
LEMMA NormalizedPublic ==
  ASSUME NEW inc, NEW x
  PROVE  IsInternalStatus(Normalized(inc, x)) => IsInternalStatus(x)
BY DEF Normalized, NormalizeStatus, IsInternalStatus

(* What the public is shown of a history has no status of a draft. *)
LEMMA UpdatesPublic ==
  ASSUME NEW n \in Nat, NEW statuses, DOMAIN statuses = 1..n, NEW inc,
         ~IsInternalStatus(inc.status)
  PROVE  LET updates == MapEventUpdates(statuses, FALSE, inc).updates
         IN  \A j \in DOMAIN updates : ~IsInternalStatus(updates[j].status)
<1>1. PICK h : Maps(h, statuses, FALSE, inc, n)
  BY MapsExist
<1> DEFINE Clean(acc) == /\ ~IsInternalStatus(acc.last)
                         /\ \A j \in DOMAIN acc.updates : ~IsInternalStatus(acc.updates[j].status)
           P == {k \in Nat : k <= n => Clean(h[k])}
<1>2. 0 \in P
  <2>1. h[0] = NoUpdates(inc) /\ ~IsInternalStatus(Normalized(inc, inc.status))
    BY <1>1, NormalizedPublic DEF Maps
  <2>2. Clean(NoUpdates(inc))
    <3>1. PICK b : b = NoUpdates(inc)
      OBVIOUS
    <3>2. b.last = Normalized(inc, inc.status)
      BY <3>1 DEF NoUpdates
    <3>3. b.updates = <<>>
      BY <3>1 DEF NoUpdates
    <3>4. DOMAIN b.updates = {}
      BY <3>3
    <3> QED BY <2>1, <3>1, <3>2, <3>4
  <2> QED BY <2>1, <2>2
<1>3. ASSUME NEW k \in P PROVE k + 1 \in P
  <2> SUFFICES ASSUME k + 1 <= n PROVE Clean(h[k + 1])
    OBVIOUS
  <2>1. k \in 0..(n - 1) /\ k \in 0..n /\ Clean(h[k])
    OBVIOUS
  <2> HIDE DEF Clean
  <2>2. PICK acc, s : acc = h[k] /\ s = statuses[k + 1]
    OBVIOUS
  <2>3. h[k + 1] = MapUpdate(acc, s, FALSE, inc) /\ acc \in Accumulators(statuses, inc) /\ Clean(acc)
    BY <1>1, <2>1, <2>2 DEF Maps
  <2> HIDE DEF P
  <2> USE DEF Clean
  <2>4. CASE IsInternalStatus(s.status)
    BY <2>3, <2>4 DEF MapUpdate
  <2>5. CASE ~IsInternalStatus(s.status) /\ s.status = "description"
    <3>1. h[k + 1] = [acc EXCEPT !.description = s.text]
      BY <2>3, <2>5 DEF MapUpdate
    <3>2. h[k + 1].last = acc.last /\ h[k + 1].updates = acc.updates
      BY <2>3, <3>1 DEF Accumulators
    <3> QED BY <2>3, <3>2
  <2>6. CASE ~IsInternalStatus(s.status) /\ s.status # "description"
    <3>1. PICK status, u : /\ status = Collapse(Normalized(inc, s.status), acc.last)
                           /\ u = [status |-> status, text |-> s.text, row |-> s.id]
      OBVIOUS
    <3>2. h[k + 1] = [acc EXCEPT !.last = status, !.updates = Append(@, u)]
      BY <2>3, <2>6, <3>1 DEF MapUpdate, Normalized
    <3>3. h[k + 1].last = status /\ h[k + 1].updates = Append(acc.updates, u)
      BY <2>3, <3>2 DEF Accumulators
    <3>4. ~IsInternalStatus(status)
      BY <2>3, <2>6, <3>1, NormalizedPublic DEF Collapse
    <3>5. PICK U : acc.updates \in Seq(U)
      BY <2>3 DEF Accumulators
    <3>6. ASSUME NEW j \in DOMAIN Append(acc.updates, u)
          PROVE  Append(acc.updates, u)[j] = u \/ (j \in DOMAIN acc.updates /\ Append(acc.updates, u)[j] = acc.updates[j])
      BY <3>5
    <3>7. u.status = status
      BY <3>1
    <3> QED BY <2>3, <3>3, <3>4, <3>6, <3>7
  <2> QED BY <2>4, <2>5, <2>6
<1>4. P = Nat
  <2>1. P \in SUBSET Nat
    OBVIOUS
  <2> HIDE DEF P
  <2> QED BY <1>2, <1>3, <2>1, Induction
<1>5. Clean(h[n])
  BY <1>4
<1> QED BY <1>1, <1>5 DEF Maps

\* l gives the status of the event after each prefix of the history.
Follows(l, statuses, inc, n) ==
  /\ l[0] = Normalized(inc, inc.status)
  /\ l[n] = FoldLeft(LAMBDA prev, s : LaterStatus(prev, s, inc), Normalized(inc, inc.status), statuses)
  /\ \A k \in 0..n : l[k] \in UpdateStatuses(statuses, inc)
  /\ \A k \in 0..(n - 1) : l[k + 1] = LaterStatus(l[k], statuses[k + 1], inc)

LEMMA FollowsExist ==
  ASSUME NEW n \in Nat, NEW statuses, DOMAIN statuses = 1..n, NEW inc
  PROVE  \E l : Follows(l, statuses, inc, n)
<1> DEFINE R == UpdateStatuses(statuses, inc)
           base == Normalized(inc, inc.status)
           Q == [p \in R \X (1..n) |-> LaterStatus(p[1], statuses[p[2]], inc)]
           G == CHOOSE g : g = [s \in SUBSET (1..n) |->
                     IF s = {} THEN base ELSE LaterStatus(g[s \ {Max(s)}], statuses[Max(s)], inc)]
<1>1. Q \in [R \X (1..n) -> R]
  <2> SUFFICES ASSUME NEW p \in R \X (1..n) PROVE LaterStatus(p[1], statuses[p[2]], inc) \in R
    OBVIOUS
  <2>1. p[1] \in R /\ p[2] \in DOMAIN statuses
    OBVIOUS
  <2>2. Normalized(inc, statuses[p[2]].status) \in R
    BY <2>1 DEF UpdateStatuses, StatusesOf
  <2> HIDE DEF R
  <2> QED BY <2>1, <2>2 DEF LaterStatus, Collapse, Normalized
<1>2. base \in R
  BY DEF UpdateStatuses
<1>3. \E g : g = [s \in SUBSET (1..n) |->
                     IF s = {} THEN base ELSE LaterStatus(g[s \ {Max(s)}], statuses[Max(s)], inc)]
  <2>1. PICK g \in [SUBSET (1..n) -> R] : Accumulates(g, base, Q, n)
    <3> HIDE DEF Q, R, base
    <3> QED BY <1>1, <1>2, FoldExists
  <2> HIDE DEF R, base
  <2>2. ASSUME NEW s \in SUBSET (1..n), s # {}
        PROVE  g[s] = LaterStatus(g[s \ {Max(s)}], statuses[Max(s)], inc)
    <3>1. Max(s) \in s
      BY <2>2, MaxBelow
    <3>2. g[s \ {Max(s)}] \in R /\ Max(s) \in 1..n
      BY <3>1
    <3>3. g[s] = Q[<<g[s \ {Max(s)}], Max(s)>>]
      BY <2>1, <2>2 DEF Accumulates
    <3> QED BY <3>2, <3>3
  <2>3. g[{}] = base /\ {} \in SUBSET (1..n)
    BY <2>1 DEF Accumulates
  <2> QED BY <2>2, <2>3
<1>4. G = [s \in SUBSET (1..n) |->
                     IF s = {} THEN base ELSE LaterStatus(G[s \ {Max(s)}], statuses[Max(s)], inc)]
  BY <1>3
<1>5. FoldLeft(LAMBDA prev, s : LaterStatus(prev, s, inc), Normalized(inc, inc.status), statuses) = G[1..n]
  BY DEF FoldLeft, MapThenFoldSet
<1> HIDE DEF G, Q, R
<1>6. G[1..0] = base
  <2>1. 1..0 = {} /\ {} \in SUBSET (1..n)
    OBVIOUS
  <2> QED BY <1>4, <2>1
<1>a. ASSUME NEW k \in 0..(n - 1), G[1..k] \in R PROVE G[1..(k + 1)] \in R
  <2>1. PICK s \in SUBSET (1..n) : s = 1..(k + 1) /\ s # {} /\ s \ {Max(s)} = 1..k /\ Max(s) = k + 1
    BY NextPrefix
  <2>2. G[1..(k + 1)] = LaterStatus(G[1..k], statuses[k + 1], inc)
    BY <1>4, <2>1
  <2>3. k + 1 \in 1..n
    OBVIOUS
  <2>4. Q[<<G[1..k], k + 1>>] = LaterStatus(G[1..k], statuses[k + 1], inc)
    BY <1>a, <2>3 DEF Q
  <2> QED BY <1>1, <1>a, <2>2, <2>3, <2>4
<1> DEFINE P == {k \in Nat : k <= n => G[1..k] \in R}
<1>b. 0 \in P
  BY <1>2, <1>6
<1>c. ASSUME NEW k \in P PROVE k + 1 \in P
  <2> SUFFICES ASSUME k + 1 <= n PROVE G[1..(k + 1)] \in R
    OBVIOUS
  <2>1. k \in 0..(n - 1) /\ G[1..k] \in R
    OBVIOUS
  <2> QED BY <1>a, <2>1
<1>d. P = Nat
  <2>1. P \in SUBSET Nat
    OBVIOUS
  <2> HIDE DEF P
  <2> QED BY <1>b, <1>c, <2>1, Induction
<1> DEFINE l == [k \in 0..n |-> G[1..k]]
<1>7. l[0] = base /\ l[n] = G[1..n] /\ \A k \in 0..n : l[k] \in R
  BY <1>6, <1>d
<1>8. ASSUME NEW k \in 0..(n - 1) PROVE l[k + 1] = LaterStatus(l[k], statuses[k + 1], inc)
  <2>1. PICK s \in SUBSET (1..n) : s = 1..(k + 1) /\ s # {} /\ s \ {Max(s)} = 1..k /\ Max(s) = k + 1
    BY NextPrefix
  <2>2. G[1..(k + 1)] = LaterStatus(G[1..k], statuses[k + 1], inc)
    BY <1>4, <2>1
  <2>3. k \in 0..n /\ k + 1 \in 0..n
    OBVIOUS
  <2> QED BY <2>2, <2>3
<1> HIDE DEF l
<1> QED BY <1>5, <1>7, <1>8 DEF Follows, R

(* The last update an editor sees has the status of the event. *)
LEMMA EditorSees ==
  ASSUME NEW n \in Nat \ {0}, NEW statuses, DOMAIN statuses = 1..n, NEW inc,
         statuses[n].status = inc.status, inc.status # "description",
         MapEventUpdates(statuses, TRUE, inc).updates # <<>>
  PROVE  LET updates == MapEventUpdates(statuses, TRUE, inc).updates
         IN  updates[Len(updates)].status = EventStatus(inc, statuses)
<1>1. PICK h : Maps(h, statuses, TRUE, inc, n)
  BY MapsExist
<1>2. PICK l : Follows(l, statuses, inc, n)
  BY FollowsExist
<1> DEFINE Same(acc, last) == /\ acc.last = last
                              /\ acc.updates # <<>> => acc.updates[Len(acc.updates)].status = last
           P == {k \in Nat : k <= n => Same(h[k], l[k])}
<1>3. ASSUME NEW k \in 0..(n - 1), Same(h[k], l[k])
      PROVE  Same(h[k + 1], l[k + 1]) /\ (statuses[k + 1].status # "description" =>
               l[k + 1] = Collapse(Normalized(inc, statuses[k + 1].status), l[k]))
  <2>1. k \in 0..n
    OBVIOUS
  <2>2. PICK acc, s : acc = h[k] /\ s = statuses[k + 1]
    OBVIOUS
  <2>3. /\ h[k + 1] = MapUpdate(acc, s, TRUE, inc) /\ acc \in Accumulators(statuses, inc)
        /\ l[k + 1] = LaterStatus(l[k], s, inc) /\ Same(acc, l[k])
    BY <1>1, <1>2, <1>3, <2>1, <2>2 DEF Maps, Follows
  <2> HIDE DEF P
  <2>4. CASE s.status = "description"
    <3>1. h[k + 1] = [acc EXCEPT !.description = s.text]
      BY <2>3, <2>4 DEF MapUpdate
    <3>2. h[k + 1].last = acc.last /\ h[k + 1].updates = acc.updates
      BY <2>3, <3>1 DEF Accumulators
    <3>3. l[k + 1] = l[k]
      BY <2>3, <2>4 DEF LaterStatus
    <3> QED BY <2>2, <2>3, <2>4, <3>2, <3>3
  <2>5. CASE s.status # "description"
    <3>1. PICK status, u : /\ status = Collapse(Normalized(inc, s.status), acc.last)
                           /\ u = [status |-> status, text |-> s.text, row |-> s.id]
      OBVIOUS
    <3>2. h[k + 1] = [acc EXCEPT !.last = status, !.updates = Append(@, u)]
      BY <2>3, <2>5, <3>1 DEF MapUpdate, Normalized
    <3>3. h[k + 1].last = status /\ h[k + 1].updates = Append(acc.updates, u)
      BY <2>3, <3>2 DEF Accumulators
    <3>4. l[k + 1] = status
      BY <2>3, <2>5, <3>1 DEF LaterStatus, Normalized
    <3>5. PICK U : acc.updates \in Seq(U)
      BY <2>3 DEF Accumulators
    <3>6. Append(acc.updates, u)[Len(Append(acc.updates, u))] = u
      BY <3>5
    <3>7. u.status = status
      BY <3>1
    <3>8. acc.last = l[k]
      BY <2>3
    <3> QED BY <2>2, <3>1, <3>3, <3>4, <3>6, <3>7, <3>8
  <2> QED BY <2>4, <2>5
<1>4. 0 \in P
  <2>1. PICK b : b = NoUpdates(inc)
    OBVIOUS
  <2>2. b.last = Normalized(inc, inc.status) /\ b.updates = <<>>
    BY <2>1 DEF NoUpdates
  <2> QED BY <1>1, <1>2, <2>1, <2>2 DEF Maps, Follows
<1>5. ASSUME NEW k \in P PROVE k + 1 \in P
  <2> SUFFICES ASSUME k + 1 <= n PROVE Same(h[k + 1], l[k + 1])
    OBVIOUS
  <2>1. k \in 0..(n - 1) /\ Same(h[k], l[k])
    OBVIOUS
  <2> HIDE DEF P, Same
  <2> QED BY <1>3, <2>1
<1>6. P = Nat
  <2>1. P \in SUBSET Nat
    OBVIOUS
  <2> HIDE DEF P
  <2> QED BY <1>4, <1>5, <2>1, Induction
<1>7. Same(h[n], l[n]) /\ Same(h[n - 1], l[n - 1]) /\ n - 1 \in 0..(n - 1) /\ (n - 1) + 1 = n
  BY <1>6
<1>8. l[n] = Collapse(Normalized(inc, inc.status), l[n - 1])
  <2> HIDE DEF P, Same
  <2> QED BY <1>3, <1>7
<1> HIDE DEF P
<1>9. l[n] = EventStatus(inc, statuses)
  <2>1. CASE Normalized(inc, inc.status) \in {"changed", "impact changed"}
    BY <1>2, <2>1 DEF Follows, EventStatus, Normalized
  <2>2. CASE Normalized(inc, inc.status) \notin {"changed", "impact changed"}
    BY <1>8, <2>2 DEF EventStatus, Normalized, Collapse
  <2> QED BY <2>1, <2>2
<1> QED BY <1>1, <1>7, <1>9 DEF Maps

LEMMA LastPosition ==
  ASSUME NEW X, NEW s \in Seq(X), s # <<>>
  PROVE  Len(s) \in Nat \ {0} /\ DOMAIN s = 1..Len(s) /\ Len(s) \in DOMAIN s
OBVIOUS

LEMMA Positions ==
  ASSUME NEW X, NEW s \in Seq(X)
  PROVE  Len(s) \in Nat /\ DOMAIN s = 1..Len(s)
OBVIOUS

LEMMA LastPrefix == \A n \in Nat : n \in 0..n
OBVIOUS

-----------------------------------------------------------------------------
(* The predicates of the lists *)

LEMMA SelectedIs ==
  ASSUME Null \notin BOOLEAN, NEW truths
  PROVE  Selected(truths) <=> FALSE \notin truths /\ Null \notin truths
BY DEF Selected, And

LEMMA SelectedFewer ==
  ASSUME Null \notin BOOLEAN, NEW S, NEW T, T \subseteq S
  PROVE  Selected(S) => Selected(T)
BY SelectedIs

LEMMA AllOfComponent ==
  ASSUME Null \notin BOOLEAN, NEW c, NEW active, NEW row, NEW statuses, NEW comps, NEW now,
         active = FALSE, c \in comps
  PROVE  Selected(GetEventsByComponentID(c, active, row, statuses, comps, now))
           <=> Selected(PublicEventPredicates(row, statuses))
<1>1. PICK p, q : /\ p = PublicEventPredicates(row, statuses)
                  /\ q = GetEventsByComponentID(c, active, row, statuses, comps, now)
  OBVIOUS
<1>2. q = {c \in comps} \cup p
  BY <1>1 DEF GetEventsByComponentID
<1>3. FALSE \in q <=> FALSE \in p
  BY <1>2
<1>4. Null \in q <=> Null \in p
  BY <1>2
<1> QED BY <1>1, <1>3, <1>4, SelectedIs

LEMMA AndTwo ==
  ASSUME Null \notin BOOLEAN, NEW p \in BOOLEAN, NEW q \in BOOLEAN
  PROVE  And({p, q}) = (p /\ q)
<1>1. p = TRUE \/ p = FALSE
  OBVIOUS
<1>2. q = TRUE \/ q = FALSE
  OBVIOUS
<1> QED BY <1>1, <1>2 DEF And

(* The predicates of a list select what the handler of one event shows. *)
LEMMA PublicPredicates ==
  ASSUME Null \notin BOOLEAN, NEW inc, NEW statuses, inc.type # Null, inc.status # Null
  PROVE  Selected(PublicEventPredicates(inc, statuses)) <=> ~HiddenFrom(FALSE, inc, statuses)
<1> DEFINE a == And({EQ(inc, "type", "maintenance"), In(inc, "status", {"pending_review", "reviewed"})})
           b == And({EQ(inc, "type", "maintenance"), EQ(inc, "status", "cancelled"), NoPublicStatus(statuses)})
<1>1. a = (inc.type = "maintenance" /\ IsInternalStatus(inc.status))
  <2>1. EQ(inc, "type", "maintenance") = (inc.type = "maintenance")
    BY DEF EQ, Cmp
  <2>2. In(inc, "status", {"pending_review", "reviewed"}) = (inc.status \in {"pending_review", "reviewed"})
    BY DEF In, Cmp
  <2>3. PICK p, q : p = (inc.type = "maintenance") /\ q = (inc.status \in {"pending_review", "reviewed"})
    OBVIOUS
  <2>4. p \in BOOLEAN /\ q \in BOOLEAN
    BY <2>3
  <2>5. And({p, q}) = (p /\ q)
    BY <2>4, AndTwo
  <2> QED BY <2>1, <2>2, <2>3, <2>5 DEF IsInternalStatus
<1>2. b = IsCancelledWithoutPublicStatus(inc, statuses)
  BY DEF And, EQ, Cmp, NoPublicStatus, IsCancelledWithoutPublicStatus
<1>3. PublicEventPredicates(inc, statuses) = {Not(a), Not(b)}
  BY DEF PublicEventPredicates
<1>4. a \in BOOLEAN /\ b \in BOOLEAN
  BY <1>1, <1>2 DEF IsCancelledWithoutPublicStatus, IsInternalStatus
<1> HIDE DEF a, b
<1>5. Not(a) = ~a /\ Not(b) = ~b
  BY <1>4 DEF Not
<1>6. Selected({Not(a), Not(b)}) <=> ~a /\ ~b
  BY <1>4, <1>5, SelectedIs
<1> QED BY <1>1, <1>2, <1>3, <1>6 DEF HiddenFrom

(* What a history with no status of a draft is read as is none either. *)
LEMMA StatusPublic ==
  ASSUME NEW n \in Nat, NEW statuses, DOMAIN statuses = 1..n, NEW inc, ~IsInternalStatus(inc.status),
         \/ inc.status \notin {"changed", "impact changed"}
         \/ \A i \in 1..n : ~IsInternalStatus(statuses[i].status)
  PROVE  ~IsInternalStatus(EventStatus(inc, statuses))
<1>0. ~IsInternalStatus(Normalized(inc, inc.status))
  BY NormalizedPublic
<1>1. CASE inc.status \notin {"changed", "impact changed"}
  <2>1. Normalized(inc, inc.status) \notin {"changed", "impact changed"}
    BY <1>1 DEF Normalized, NormalizeStatus
  <2> QED BY <1>0, <2>1 DEF EventStatus, Normalized
<1>2. CASE \A i \in 1..n : ~IsInternalStatus(statuses[i].status)
  <2>1. PICK l : Follows(l, statuses, inc, n)
    BY FollowsExist
  <2>a. n \in 0..n
    BY LastPrefix
  <2>2. l[n] \in UpdateStatuses(statuses, inc)
    BY <2>1, <2>a DEF Follows
  <2>3. PICK x \in StatusesOf(statuses) \cup {inc.status} : l[n] = Normalized(inc, x)
    BY <2>2 DEF UpdateStatuses
  <2>4. ~IsInternalStatus(x)
    BY <1>2, <2>3 DEF StatusesOf
  <2>5. ~IsInternalStatus(l[n])
    BY <2>3, <2>4, NormalizedPublic
  <2>6. EventStatus(inc, statuses) = l[n] \/ EventStatus(inc, statuses) = Normalized(inc, inc.status)
    BY <2>1 DEF EventStatus, Follows, Normalized
  <2> QED BY <1>0, <2>5, <2>6
<1> QED BY <1>1, <1>2

(* The items of both feeds. *)
LEMMA FeedsPublic ==
  ASSUME NEW X, NEW statuses \in Seq(X), NEW inc,
         inc.type # "maintenance" => \A i \in DOMAIN statuses : ~IsInternalStatus(statuses[i].status)
  PROVE  /\ \A i \in DOMAIN CreateFeedItems(inc, statuses) : ~IsInternalStatus(CreateFeedItems(inc, statuses)[i])
         /\ \A i \in DOMAIN CreateFeedContent(inc, statuses) : ~IsInternalStatus(CreateFeedContent(inc, statuses)[i])
<1>1. PICK n \in Nat : n = Len(statuses) /\ DOMAIN statuses = 1..n
  OBVIOUS
<1>2. ASSUME NEW S, \A x \in S : ~IsInternalStatus(x), NEW t \in Seq(S)
      PROVE  \A i \in DOMAIN t : ~IsInternalStatus(t[i])
  BY <1>2
<1>3. ASSUME NEW shown PROVE Items(statuses, shown) \in Seq(shown)
  BY <1>1, ItemsShown
<1>4. \A i \in DOMAIN CreateFeedItems(inc, statuses) : ~IsInternalStatus(CreateFeedItems(inc, statuses)[i])
  <2>1. CASE inc.type = "maintenance"
    <3>1. PICK S : S = PublicStatus \cup {"cancelled"}
      OBVIOUS
    <3>2. CreateFeedItems(inc, statuses) = Items(statuses, S)
      BY <2>1, <3>1 DEF CreateFeedItems, MaintenanceFeedItems
    <3>3. \A x \in S : ~IsInternalStatus(x)
      BY <3>1 DEF PublicStatus, IsInternalStatus
    <3>4. Items(statuses, S) \in Seq(S)
      BY <1>3
    <3> QED BY <1>2, <3>2, <3>3, <3>4
  <2>2. CASE inc.type = "info"
    <3>1. CreateFeedItems(inc, statuses) = <<>>
      BY <2>2 DEF CreateFeedItems
    <3> QED BY <3>1
  <2>3. CASE inc.type \notin {"maintenance", "info"}
    <3>1. PICK S, T : S = StatusesOf(statuses) \ {"detected"} /\ T = S \cup {"event"}
      OBVIOUS
    <3>2. CreateFeedItems(inc, statuses) = <<"event">> \o Items(statuses, S)
      BY <2>3, <3>1 DEF CreateFeedItems, IncidentFeedItems
    <3>3. \A x \in T : ~IsInternalStatus(x)
      BY <2>3, <3>1 DEF StatusesOf, IsInternalStatus
    <3>4. Items(statuses, S) \in Seq(S)
      BY <1>3
    <3>5. <<"event">> \in Seq(T) /\ Items(statuses, S) \in Seq(T)
      <4>1. S \subseteq T /\ "event" \in T
        BY <3>1
      <4> QED BY <3>4, <4>1
    <3>6. <<"event">> \o Items(statuses, S) \in Seq(T)
      BY <3>5
    <3> QED BY <1>2, <3>2, <3>3, <3>6
  <2> QED BY <2>1, <2>2, <2>3
<1>5. \A i \in DOMAIN CreateFeedContent(inc, statuses) : ~IsInternalStatus(CreateFeedContent(inc, statuses)[i])
  <2>1. PICK r : r = Reverse(statuses)
    OBVIOUS
  <2>2. DOMAIN r = 1..n
    BY <1>1, <2>1 DEF Reverse
  <2>3. PICK S : S = {x \in StatusesOf(statuses) : ~(inc.type = "maintenance" /\ IsInternalStatus(x))}
    OBVIOUS
  <2>4. \A x \in S : ~IsInternalStatus(x)
    BY <2>3 DEF StatusesOf
  <2>5. Items(r, S) \in Seq(S)
    BY <2>2, ItemsShown
  <2>6. CreateFeedContent(inc, statuses) = Items(r, S)
    BY <2>1, <2>3 DEF CreateFeedContent
  <2> QED BY <1>2, <2>4, <2>5, <2>6
<1> QED BY <1>4, <1>5

\* What the rule owes a reader about an event, as OneAudience states it of a case.
AudienceAgrees(inc, sts, isAuth, filter) ==
  LET shown == ToAPIEvent(inc, sts, {}, isAuth)
      Public(s) == \A i \in DOMAIN s : ~IsInternalStatus(s[i])
      Found(f) == Selected(ApplyEventsFilters(f, inc, sts, {"c"}, 0, isAuth))
      OfComponent(active) == Selected(GetEventsByComponentID("c", active, inc, sts, {"c"}, 0))
      listed == Found(NoFilter)
  IN  /\ listed = ~HiddenFrom(isAuth, inc, sts)
      /\ Found(filter) => listed
      /\ ~isAuth =>
           /\ listed = OfComponent(FALSE)
           /\ OfComponent(TRUE) => listed
           /\ listed = Selected(IncidentsByComponentAttr(inc, sts))
           /\ listed => /\ ~IsInternalStatus(shown.status)
                        /\ Public([i \in DOMAIN shown.updates |-> shown.updates[i].status])
                        /\ Public(CreateFeedItems(inc, sts))
                        /\ Public(CreateFeedContent(inc, sts))
           /\ shown.creator = Null /\ shown.contact = Null /\ shown.version = Null
      /\ isAuth /\ sts # << >> /\ shown.updates # << >> =>
           (sts[Len(sts)].status = inc.status => Last(shown.updates).status = shown.status)

(* The rule is the same wherever it is written, and what it shows the public is public. *)
LEMMA Audience ==
  ASSUME Null \notin BOOLEAN, NEW X, NEW sts \in Seq(X), NEW inc, NEW isAuth \in BOOLEAN, NEW filter,
         inc.type # Null, inc.status # Null, inc.status # "description",
         inc.type # "maintenance" => ~IsInternalStatus(inc.status),
         inc.type # "maintenance" => \A i \in DOMAIN sts : ~IsInternalStatus(sts[i].status),
         inc.type = "maintenance" => inc.status \notin {"changed", "impact changed"}
  PROVE  AudienceAgrees(inc, sts, isAuth, filter)
<1> DEFINE shown == ToAPIEvent(inc, sts, {}, isAuth)
           Found(f) == Selected(ApplyEventsFilters(f, inc, sts, {"c"}, 0, isAuth))
           OfComponent(active) == Selected(GetEventsByComponentID("c", active, inc, sts, {"c"}, 0))
           public == PublicEventPredicates(inc, sts)
           rule == IF isAuth THEN {} ELSE public
<1>1. PICK n \in Nat : n = Len(sts) /\ DOMAIN sts = 1..n
  BY Positions
<1>2. ApplyEventsFilters(NoFilter, inc, sts, {"c"}, 0, isAuth) = rule
  <2>1. PICK f : f = NoFilter
    OBVIOUS
  <2>2. /\ f.types = Null /\ f.impact = Null /\ f.system = Null /\ f.components = Null /\ f.active = Null
        /\ f.status = Null /\ f.start = Null /\ f.end = Null
    BY <2>1 DEF NoFilter
  <2>3. ApplyEventsFilters(f, inc, sts, {"c"}, 0, isAuth) = rule
    BY <2>2 DEF ApplyEventsFilters
  <2> QED BY <2>1, <2>3
<1>3. rule \subseteq ApplyEventsFilters(filter, inc, sts, {"c"}, 0, isAuth)
  BY DEF ApplyEventsFilters
<1>4. Found(NoFilter) <=> ~HiddenFrom(isAuth, inc, sts)
  <2>1. CASE isAuth
    <3>1. Selected({}) /\ ~HiddenFrom(isAuth, inc, sts)
      BY <2>1, SelectedIs DEF HiddenFrom
    <3> QED BY <1>2, <2>1, <3>1
  <2>2. CASE ~isAuth
    <3>1. Selected(public) <=> ~HiddenFrom(FALSE, inc, sts)
      BY PublicPredicates
    <3>2. isAuth = FALSE
      BY <2>2
    <3> QED BY <1>2, <3>1, <3>2
  <2> QED BY <2>1, <2>2
<1>5. Found(filter) => Found(NoFilter)
  BY <1>2, <1>3, SelectedFewer
<1>6. ASSUME ~isAuth PROVE (Found(NoFilter) <=> OfComponent(FALSE)) /\ (OfComponent(TRUE) => Found(NoFilter))
  <2>a. PICK no, comps : no = FALSE /\ comps = {"c"}
    OBVIOUS
  <2>1. Selected(GetEventsByComponentID("c", no, inc, sts, comps, 0)) <=> Selected(public)
    BY <2>a, AllOfComponent
  <2>2. public \subseteq GetEventsByComponentID("c", TRUE, inc, sts, {"c"}, 0)
    BY Zenon DEF GetEventsByComponentID
  <2>3. rule = public
    BY <1>6
  <2> HIDE DEF public, rule
  <2> QED BY <1>2, <2>a, <2>1, <2>2, <2>3, SelectedFewer
<1>7. ASSUME ~isAuth PROVE Found(NoFilter) <=> Selected(IncidentsByComponentAttr(inc, sts))
  <2>1. IncidentsByComponentAttr(inc, sts) = public
    BY DEF IncidentsByComponentAttr, PublicEventPredicates
  <2> QED BY <1>2, <1>7, <2>1
<1>8. /\ shown.status = EventStatus(inc, sts) /\ shown.updates = MapEventUpdates(sts, isAuth, inc).updates
      /\ ~isAuth => shown.creator = Null /\ shown.contact = Null /\ shown.version = Null
  BY DEF ToAPIEvent
<1>9. ASSUME ~isAuth, Found(NoFilter)
      PROVE  /\ ~IsInternalStatus(shown.status)
             /\ \A i \in DOMAIN shown.updates : ~IsInternalStatus(shown.updates[i].status)
  <2>1. isAuth = FALSE /\ ~HiddenFrom(FALSE, inc, sts)
    BY <1>4, <1>9
  <2>2. ~IsInternalStatus(inc.status)
    <3>2. inc.type = "maintenance" => ~IsInternalStatus(inc.status)
      BY <2>1 DEF HiddenFrom
    <3> QED BY <3>2
  <2>3. ~IsInternalStatus(EventStatus(inc, sts))
    BY <1>1, <2>2, StatusPublic
  <2>4. \A j \in DOMAIN MapEventUpdates(sts, FALSE, inc).updates :
          ~IsInternalStatus(MapEventUpdates(sts, FALSE, inc).updates[j].status)
    BY <1>1, <2>2, UpdatesPublic
  <2> QED BY <1>8, <2>1, <2>3, <2>4
<1>10. /\ \A i \in DOMAIN CreateFeedItems(inc, sts) : ~IsInternalStatus(CreateFeedItems(inc, sts)[i])
       /\ \A i \in DOMAIN CreateFeedContent(inc, sts) : ~IsInternalStatus(CreateFeedContent(inc, sts)[i])
  BY FeedsPublic
<1>11. ASSUME isAuth, sts # << >>, shown.updates # << >>, sts[Len(sts)].status = inc.status
       PROVE  Last(shown.updates).status = shown.status
  <2>0. n \in Nat \ {0}
    BY <1>1, <1>11, LastPosition
  <2>1. isAuth = TRUE
    BY <1>11
  <2>2. PICK u : u = MapEventUpdates(sts, TRUE, inc).updates
    OBVIOUS
  <2>3. u[Len(u)].status = EventStatus(inc, sts)
    BY <1>1, <1>8, <1>11, <2>0, <2>1, <2>2, EditorSees
  <2> QED BY <1>8, <2>1, <2>2, <2>3 DEF Last
<1> HIDE DEF shown, Found, OfComponent, public, rule
<1>12. Found(NoFilter) = ~HiddenFrom(isAuth, inc, sts)
  BY <1>4 DEF Found, Selected, HiddenFrom
<1>13. ASSUME ~isAuth PROVE /\ Found(NoFilter) = OfComponent(FALSE)
                            /\ Found(NoFilter) = Selected(IncidentsByComponentAttr(inc, sts))
  BY <1>6, <1>7, <1>13 DEF Found, OfComponent, Selected
<1>14. ASSUME ~isAuth, Found(NoFilter)
       PROVE  \A i \in DOMAIN [i \in DOMAIN shown.updates |-> shown.updates[i].status] :
                ~IsInternalStatus([j \in DOMAIN shown.updates |-> shown.updates[j].status][i])
  BY <1>9, <1>14
<1> QED BY <1>5, <1>6, <1>8, <1>9, <1>10, <1>11, <1>12, <1>13, <1>14 DEF shown, Found, OfComponent, AudienceAgrees

-----------------------------------------------------------------------------
(* Eager loading *)

LEMMA OrderIs ==
  ASSUME NEW nodes \in Orders
  PROVE  /\ \A i \in DOMAIN nodes : nodes[i] \in Ids
         /\ \A i, j \in DOMAIN nodes : nodes[i] = nodes[j] => i = j
<1>1. PICK s \in SUBSET Ids : nodes \in SetToSeqs(s)
  BY DEF Orders
<1>2. PICK D : nodes \in [D -> s] /\ \A i, j \in D : i # j => nodes[i] # nodes[j]
  BY <1>1 DEF SetToSeqs
<1> QED BY <1>2

(* A map from ids to nodes finds the node of an id. *)
LEMMA HolderIs ==
  ASSUME NEW nodes \in Orders, NEW i \in DOMAIN nodes
  PROVE  Holder(nodes, nodes[i]) = i
<1>1. DOMAIN nodes \subseteq Int
  <2>1. PICK s \in SUBSET Ids : nodes \in SetToSeqs(s)
    BY DEF Orders
  <2>2. PICK n : nodes \in [1..n -> s]
    BY <2>1 DEF SetToSeqs
  <2> QED BY <2>2
<1>2. nodes[i] = nodes[i] /\ \A j \in DOMAIN nodes : nodes[j] = nodes[i] => j <= i
  BY <1>1, OrderIs
<1>3. \A k \in DOMAIN nodes : nodes[k] = nodes[i] => k = i
  BY OrderIs
<1> QED BY <1>2, <1>3 DEF Holder

(* Over the join table. *)
LEMMA ManyLoaded ==
  ASSUME NEW relation \in SUBSET (Ids \X Ids), NEW nodes \in Orders, NEW i \in DOMAIN nodes
  PROVE  /\ DOMAIN LoadM2M(nodes, relation) = DOMAIN nodes
         /\ LoadM2M(nodes, relation)[i] = {id \in Ids : <<nodes[i], id>> \in relation}
<1> DEFINE joined == {p \in relation : p[1] \in ToSet(nodes)}
           nids == Nids(nodes, joined)
<1>1. /\ DOMAIN LoadM2M(nodes, relation) = DOMAIN nodes
      /\ LoadM2M(nodes, relation)[i] = {n \in DOMAIN nids : i \in nids[n]}
  BY DEF LoadM2M
<1>2. /\ DOMAIN nids = {p[2] : p \in joined}
      /\ \A n \in DOMAIN nids : nids[n] = {Holder(nodes, p[1]) : p \in {q \in joined : q[2] = n}}
  BY DEF Nids
<1>3. ASSUME NEW n \in DOMAIN nids, i \in nids[n] PROVE n \in Ids /\ <<nodes[i], n>> \in relation
  <2>1. PICK p \in joined : p[2] = n /\ Holder(nodes, p[1]) = i
    BY <1>2, <1>3
  <2>2. PICK k \in DOMAIN nodes : p[1] = nodes[k]
    BY DEF ToSet
  <2>3. k = i
    BY <2>1, <2>2, HolderIs
  <2>4. p \in Ids \X Ids /\ p \in relation
    OBVIOUS
  <2>5. p = <<p[1], p[2]>> /\ p[2] \in Ids
    BY <2>4
  <2> QED BY <2>1, <2>2, <2>3, <2>4, <2>5
<1>4. ASSUME NEW n \in Ids, <<nodes[i], n>> \in relation PROVE n \in DOMAIN nids /\ i \in nids[n]
  <2>1. PICK p : p = <<nodes[i], n>>
    OBVIOUS
  <2>2. p \in joined /\ p[1] = nodes[i] /\ p[2] = n
    BY <1>4, <2>1 DEF ToSet
  <2>3. Holder(nodes, p[1]) = i
    BY <2>2, HolderIs
  <2>4. n \in DOMAIN nids
    BY <1>2, <2>2
  <2> QED BY <1>2, <2>2, <2>3, <2>4
<1> QED BY <1>1, <1>3, <1>4

(* Over a foreign key, from the side that has many. *)
LEMMA OwnedLoaded ==
  ASSUME NEW fk \in [Ids -> Ids \cup {Null}], NEW nodes \in Orders, NEW i \in DOMAIN nodes
  PROVE  LoadO2M(nodes, {[id |-> a, fk |-> fk[a]] : a \in DOMAIN fk})[i] = {a \in Ids : fk[a] = nodes[i]}
<1> DEFINE rows == {[id |-> a, fk |-> fk[a]] : a \in DOMAIN fk}
           near == {r \in rows : r.fk \in ToSet(nodes)}
<1>1. LoadO2M(nodes, rows)[i] = {r.id : r \in {r \in near : Holder(nodes, r.fk) = i}}
  BY DEF LoadO2M
<1>2. ASSUME NEW r \in near, Holder(nodes, r.fk) = i PROVE r.id \in Ids /\ fk[r.id] = nodes[i]
  <2>1. PICK a \in Ids : r = [id |-> a, fk |-> fk[a]]
    OBVIOUS
  <2>2. PICK k \in DOMAIN nodes : r.fk = nodes[k]
    BY DEF ToSet
  <2>3. k = i
    BY <1>2, <2>2, HolderIs
  <2> QED BY <2>1, <2>2, <2>3
<1>3. ASSUME NEW a \in Ids, fk[a] = nodes[i]
      PROVE  \E r \in near : Holder(nodes, r.fk) = i /\ r.id = a
  <2>1. PICK r : r = [id |-> a, fk |-> fk[a]]
    OBVIOUS
  <2>2. r \in rows /\ r.id = a /\ r.fk = nodes[i]
    BY <1>3, <2>1
  <2>3. r.fk \in ToSet(nodes)
    BY <2>2 DEF ToSet
  <2>4. Holder(nodes, r.fk) = i
    BY <2>2, HolderIs
  <2> QED BY <2>2, <2>3, <2>4
<1> HIDE DEF near
<1>4. {r.id : r \in {r \in near : Holder(nodes, r.fk) = i}} = {a \in Ids : fk[a] = nodes[i]}
  BY <1>2, <1>3
<1> QED BY <1>1, <1>4

(* Over a foreign key, from the side that has one. *)
LEMMA OwnerLoaded ==
  ASSUME Null \notin Ids, NEW fk \in [Ids -> Ids \cup {Null}], NEW nodes \in Orders, NEW existing \in SUBSET Ids,
         NEW i \in DOMAIN nodes
  PROVE  LoadM2O([k \in DOMAIN nodes |-> ReadFk(fk[nodes[k]])], existing)[i]
           = IF fk[nodes[i]] \in existing THEN fk[nodes[i]] ELSE NotFound
<1>1. PICK x : x = fk[nodes[i]]
  OBVIOUS
<1>2. LoadM2O([k \in DOMAIN nodes |-> ReadFk(fk[nodes[k]])], existing)[i]
        = IF ReadFk(x) \in existing THEN ReadFk(x) ELSE NotFound
  BY <1>1 DEF LoadM2O
<1> QED BY <1>1, <1>2 DEF ReadFk, NotFound

(* A loaded edge holds what its table relates and nothing else, whatever rows there *)
(* are and in whatever order a query returned its nodes (the loaders of the         *)
(* generated queries).                                                              *)
THEOREM EdgesComeComplete == Spec => []LoadersComplete
<1>1. Asked => LoadersComplete
  <2>1. ASSUME Asked, case.kind = "related", NEW i \in DOMAIN case.nodes
        PROVE  /\ case.components[i] = {id \in Ids : <<case.nodes[i], id>> \in case.relation}
               /\ \A j \in DOMAIN case.nodes :
                    case.nodes[j] \in case.components[i] <=> case.nodes[i] \in case.incidents[j]
    <3>1. PICK relation, nodes : relation = case.relation /\ nodes = case.nodes
      OBVIOUS
    <3>2. /\ relation \in SUBSET (Ids \X Ids) /\ nodes \in Orders
          /\ case.components = LoadM2M(nodes, relation)
      BY <2>1, <3>1 DEF Asked, LoadComponents
    <3>3. PICK back : back = {<<p[2], p[1]>> : p \in relation}
      OBVIOUS
    <3>4. back \in SUBSET (Ids \X Ids) /\ case.incidents = LoadM2M(nodes, back)
      BY <2>1, <3>1, <3>2, <3>3 DEF Asked, LoadIncidents
    <3>5. case.components[i] = {id \in Ids : <<nodes[i], id>> \in relation}
      BY <2>1, <3>1, <3>2, ManyLoaded
    <3>6. ASSUME NEW j \in DOMAIN nodes PROVE nodes[j] \in case.components[i] <=> nodes[i] \in case.incidents[j]
      <4>1. case.incidents[j] = {id \in Ids : <<nodes[j], id>> \in back}
        BY <3>2, <3>4, ManyLoaded
      <4>2. <<nodes[j], nodes[i]>> \in back <=> <<nodes[i], nodes[j]>> \in relation
        BY <3>2, <3>3
      <4>3. nodes[i] \in Ids /\ nodes[j] \in Ids
        BY <2>1, <3>1, <3>2, OrderIs
      <4> QED BY <3>5, <4>1, <4>2, <4>3
    <3> QED BY <3>1, <3>5, <3>6
  <2>2. ASSUME Asked, case.kind = "owned", NEW i \in DOMAIN case.nodes
        PROVE  LET node == case.nodes[i]
                   owned == {a \in Ids : case.fk[a] = node}
                   owner == IF case.fk[node] \in case.existing THEN case.fk[node] ELSE NotFound
               IN  /\ case.attributes[i] = owned /\ case.notifications[i] = owned
                   /\ case.component[i] = owner /\ case.incident[i] = owner
    <3>1. PICK fk, nodes, existing : fk = case.fk /\ nodes = case.nodes /\ existing = case.existing
      OBVIOUS
    <3>2. PICK rows, fks : /\ rows = {[id |-> a, fk |-> fk[a]] : a \in DOMAIN fk}
                           /\ fks = [k \in DOMAIN nodes |-> ReadFk(fk[nodes[k]])]
      OBVIOUS
    <3>3. /\ fk \in [Ids -> Ids \cup {Null}] /\ nodes \in Orders /\ existing \in SUBSET Ids
          /\ case.attributes = LoadO2M(nodes, rows) /\ case.notifications = LoadO2M(nodes, rows)
          /\ case.component = LoadM2O(fks, existing) /\ case.incident = LoadM2O(fks, existing)
      BY <2>2, <3>1, <3>2 DEF Asked, LoadAttributes, LoadNotifications, LoadComponent, LoadIncident
    <3>4. LoadO2M(nodes, rows)[i] = {a \in Ids : fk[a] = nodes[i]}
      BY <2>2, <3>1, <3>2, <3>3, OwnedLoaded
    <3>5. LoadM2O(fks, existing)[i] = IF fk[nodes[i]] \in existing THEN fk[nodes[i]] ELSE NotFound
      BY <2>2, <3>1, <3>2, <3>3, OwnerLoaded, IdsAssumption
    <3> QED BY <3>1, <3>3, <3>4, <3>5
  <2> QED BY <2>1, <2>2 DEF LoadersComplete
<1> QED BY <1>1, AnswersAsked, PTL

-----------------------------------------------------------------------------

(* The rule that keeps drafts from the public is one rule, in the handler of one   *)
(* event, in the lists and in the feeds, for any history an event may have and any *)
(* filter of a list (HiddenFrom, PublicEventPredicates, IncidentsByComponentAttr). *)
THEOREM AudienceIsOne == Spec => []OneAudience
<1>1. Asked => OneAudience
  <2> SUFFICES ASSUME Asked, case.kind = "event" PROVE OneAudience
    BY DEF OneAudience
  <2>1. PICK inc, sts, isAuth, filter : inc = case.inc /\ sts = case.statuses /\ isAuth = case.isAuth /\ filter = case.filter
    OBVIOUS
  <2>2. isAuth \in BOOLEAN
    BY <2>1 DEF Asked
  <2>3. PICK h \in Histories :
          /\ inc.type = h.type /\ inc.status = h.status
          /\ sts = [i \in DOMAIN h.statuses |-> [id |-> i, status |-> h.statuses[i], text |-> "text"]]
    BY <2>1 DEF Asked
  <2>4. PICK t : t = h.statuses
    OBVIOUS
  <2>5. /\ t \in Seq(STRING) /\ Null # h.type /\ Null # h.status
        /\ h.type # "maintenance" => ~IsInternalStatus(h.status) /\ \A i \in DOMAIN t : ~IsInternalStatus(t[i])
        /\ h.type = "maintenance" => h.status \notin {"changed", "impact changed"}
        /\ h.status # "description" /\ Null \notin BOOLEAN
    BY <2>4, HistoriesAssumption
  <2>6. Len(t) \in Nat /\ DOMAIN t = 1..Len(t)
    BY <2>5, Positions
  <2>7. DOMAIN sts = 1..Len(t) /\ \A i \in DOMAIN sts : sts[i].status = t[i]
    BY <2>3, <2>4, <2>6
  <2>8. PICK X : X = {sts[i] : i \in DOMAIN sts}
    OBVIOUS
  <2>9. sts = [i \in 1..Len(t) |-> sts[i]] /\ \A i \in 1..Len(t) : sts[i] \in X
    BY <2>3, <2>4, <2>7, <2>8
  <2>10. sts \in Seq(X) /\ Len(sts) = Len(t)
    BY <2>6, <2>9
  <2>12. /\ inc.type # Null /\ inc.status # Null /\ inc.status # "description"
         /\ inc.type # "maintenance" => ~IsInternalStatus(inc.status)
         /\ inc.type # "maintenance" => \A i \in DOMAIN sts : ~IsInternalStatus(sts[i].status)
         /\ inc.type = "maintenance" => inc.status \notin {"changed", "impact changed"}
    BY <2>3, <2>4, <2>5, <2>6, <2>7
  <2>13. AudienceAgrees(inc, sts, isAuth, filter)
    BY <2>2, <2>5, <2>10, <2>12, Audience
  <2>14. AudienceAgrees(case.inc, case.statuses, case.isAuth, case.filter)
    BY <2>1, <2>13
  <2> QED BY <2>14 DEF OneAudience, AudienceAgrees
<1> QED BY <1>1, AnswersAsked, PTL

-----------------------------------------------------------------------------

(* Months follow each other without a gap, and none is empty. *)
LEMMA Calendar ==
  /\ \A m \in Months : /\ m \in Nat /\ m \in DOMAIN MonthStart /\ m + 1 \in DOMAIN MonthStart
                       /\ MonthStart[m] \in Int /\ MonthEnd(m) \in Int /\ MonthStart[m] < MonthEnd(m)
  /\ \A a, b \in Months : a < b => MonthStart[a] < MonthStart[b] /\ MonthEnd(a) <= MonthStart[b]
  /\ \A a, b \in Months : \A c \in Int : a <= c /\ c <= b => c \in Months
<1>1. PICK k : k = Cardinality(DOMAIN MonthStart)
  OBVIOUS
<1>2. DOMAIN MonthStart = 0 .. k - 1 /\ Months = 0 .. k - 2
  BY <1>1, MonthStartAssumption DEF Months
<1>3. CASE k \in Int
  <2>1. \A m \in Months : m \in Nat /\ m \in DOMAIN MonthStart /\ m + 1 \in DOMAIN MonthStart /\ m < m + 1
    BY <1>2, <1>3
  <2>2. \A m \in Months : MonthStart[m] \in Int /\ MonthEnd(m) \in Int /\ MonthStart[m] < MonthEnd(m)
    BY <2>1, MonthStartAssumption DEF MonthEnd
  <2>3. ASSUME NEW a \in Months, NEW b \in Months, a < b
        PROVE  MonthStart[a] < MonthStart[b] /\ MonthEnd(a) <= MonthStart[b]
    <3>1. a + 1 = b \/ a + 1 < b
      BY <2>1, <2>3
    <3>2. MonthStart[a] < MonthStart[b]
      BY <2>1, <2>3, MonthStartAssumption
    <3>3. CASE a + 1 = b
      BY <2>2, <3>2, <3>3 DEF MonthEnd
    <3>4. CASE a + 1 < b
      BY <2>1, <2>2, <3>2, <3>4, MonthStartAssumption DEF MonthEnd
    <3> QED BY <3>1, <3>2, <3>3, <3>4
  <2>4. \A a, b \in Months : \A c \in Int : a <= c /\ c <= b => c \in Months
    BY <1>2, <1>3
  <2> QED BY <2>1, <2>2, <2>3, <2>4
<1>4. k \in Int
  BY <1>1, MonthStartAssumption, FS_CardinalityType
<1> QED BY <1>3, <1>4

(* A moment of a month has that month. *)
LEMMA MonthOfIs ==
  ASSUME NEW m \in Months, NEW t \in Int, MonthStart[m] <= t, t < MonthEnd(m)
  PROVE  MonthOf(t) = m
<1>1. ASSUME NEW k \in Months, MonthStart[k] <= t, t < MonthEnd(k) PROVE k = m
  <2>1. k \in Nat /\ m \in Nat /\ MonthStart[k] \in Int /\ MonthStart[m] \in Int /\ MonthEnd(k) \in Int /\ MonthEnd(m) \in Int
    BY Calendar
  <2>2. ~(k < m)
    BY <1>1, <2>1, Calendar
  <2>3. ~(m < k)
    BY <1>1, <2>1, Calendar
  <2> QED BY <2>1, <2>2, <2>3
<1> QED BY <1>1 DEF MonthOf

(* A moment between two months of the calendar has a month. *)
LEMMA HasMonth ==
  ASSUME NEW a \in Months, NEW b \in Months, NEW t \in Int, MonthStart[a] <= t, t < MonthEnd(b), a <= b
  PROVE  \E m \in Months : MonthStart[m] <= t /\ t < MonthEnd(m)
<1> DEFINE P == {n \in Nat : a + n \in Months /\ t < MonthEnd(a + n) =>
                               \E m \in Months : MonthStart[m] <= t /\ t < MonthEnd(m)}
<1>1. a \in Nat /\ b \in Nat /\ b - a \in Nat /\ a + (b - a) = b /\ a + 0 = a
  BY Calendar
<1>2. 0 \in P
  BY <1>1
<1>3. ASSUME NEW n \in P PROVE n + 1 \in P
  <2>0. n \in Nat /\ n + 1 \in Nat
    OBVIOUS
  <2> SUFFICES ASSUME a + (n + 1) \in Months, t < MonthEnd(a + (n + 1))
               PROVE  \E m \in Months : MonthStart[m] <= t /\ t < MonthEnd(m)
    BY <2>0
  <2>1. a + n \in Months
    <3>1. a + n \in Int /\ a <= a + n /\ a + n <= a + (n + 1)
      BY <1>1, <2>0
    <3> QED BY <3>1, Calendar
  <2>2. MonthEnd(a + n) = MonthStart[a + (n + 1)] /\ MonthEnd(a + n) \in Int
    <3>1. (a + n) + 1 = a + (n + 1)
      BY <1>1, <2>0
    <3> QED BY <2>1, <3>1, Calendar DEF MonthEnd
  <2>3. CASE t < MonthEnd(a + n)
    BY <2>1, <2>3
  <2>4. CASE ~(t < MonthEnd(a + n))
    <3>1. MonthStart[a + (n + 1)] <= t
      BY <2>2, <2>4
    <3> QED BY <3>1
  <2> QED BY <2>3, <2>4
<1> HIDE DEF P
<1>4. P \in SUBSET Nat
  BY DEF P
<1>5. b - a \in P
  BY <1>1, <1>2, <1>3, <1>4, Induction
<1> QED BY <1>1, <1>5 DEF P

(* The year and the month of a date number the months of a period. *)
LEMMA IndexIs ==
  ASSUME NEW m \in Nat, NEW p \in Nat
  PROVE  (Year(m) - Year(p)) * MonthsInYear + (Month(m) - Month(p)) = m - p
<1>1. m = 12 * (m \div 12) + (m % 12) /\ p = 12 * (p \div 12) + (p % 12)
  OBVIOUS
<1>2. m \div 12 \in Int /\ p \div 12 \in Int /\ m % 12 \in Int /\ p % 12 \in Int
  OBVIOUS
<1>3. \A a, b, c, d \in Int : (a - c) * 12 + ((b + 1) - (d + 1)) = (12 * a + b) - (12 * c + d)
  OBVIOUS
<1> QED BY <1>1, <1>2, <1>3 DEF Year, Month, MonthsInYear

(* A sum over no month. *)
LEMMA NoSum ==
  ASSUME NEW f
  PROVE  SumFunctionOnSet(f, {}) = 0
<1> DEFINE g == [s \in SUBSET {} |-> 0]
<1>1. g = [s \in SUBSET {} |-> IF s = {} THEN 0 ELSE f[CHOOSE y \in s : TRUE] + g[s \ {CHOOSE y \in s : TRUE}]]
  OBVIOUS
<1> DEFINE G == CHOOSE h : h = [s \in SUBSET {} |-> IF s = {} THEN 0 ELSE f[CHOOSE y \in s : TRUE] + h[s \ {CHOOSE y \in s : TRUE}]]
<1>2. G = [s \in SUBSET {} |-> IF s = {} THEN 0 ELSE f[CHOOSE y \in s : TRUE] + G[s \ {CHOOSE y \in s : TRUE}]]
  BY <1>1
<1>3. SumFunctionOnSet(f, {}) = G[{}]
  BY DEF SumFunctionOnSet, FoldFunctionOnSet, MapThenFoldSet
<1> HIDE DEF G
<1> QED BY <1>2, <1>3

(* A sum over one month. *)
LEMMA SumOfOne ==
  ASSUME NEW f, NEW x, f[x] \in Int
  PROVE  SumFunctionOnSet(f, {x}) = f[x]
<1> DEFINE g == [s \in SUBSET {x} |-> IF s = {} THEN 0 ELSE f[x]]
           G == CHOOSE h : h = [s \in SUBSET {x} |-> IF s = {} THEN 0 ELSE f[CHOOSE y \in s : TRUE] + h[s \ {CHOOSE y \in s : TRUE}]]
<1>1. \A s \in SUBSET {x} : s = {} \/ (s = {x} /\ (CHOOSE y \in s : TRUE) = x /\ s \ {x} = {})
  OBVIOUS
<1>2. g[{}] = 0 /\ f[x] + 0 = f[x]
  OBVIOUS
<1>3. g = [s \in SUBSET {x} |-> IF s = {} THEN 0 ELSE f[CHOOSE y \in s : TRUE] + g[s \ {CHOOSE y \in s : TRUE}]]
  BY <1>1, <1>2
<1>4. G = [s \in SUBSET {x} |-> IF s = {} THEN 0 ELSE f[CHOOSE y \in s : TRUE] + G[s \ {CHOOSE y \in s : TRUE}]]
  BY <1>3
<1>5. SumFunctionOnSet(f, {x}) = G[{x}]
  BY DEF SumFunctionOnSet, FoldFunctionOnSet, MapThenFoldSet
<1> HIDE DEF G
<1>6. G[{}] = 0
  BY <1>4
<1>7. G[{x}] = f[x] + G[{}]
  BY <1>1, <1>4
<1> QED BY <1>2, <1>5, <1>6, <1>7

(* The clock has a month, and so has the year before it. *)
LEMMA PeriodIs ==
  ASSUME NEW now \in Clock
  PROVE  /\ now \in Int /\ MonthOf(now) \in Months /\ MonthOf(now) \in Nat /\ MonthStart[MonthOf(now)] <= now
         /\ now < MonthEnd(MonthOf(now)) /\ PeriodStart(now) \in Months
         /\ PeriodStart(now) = MonthOf(now) - 11 /\ PeriodStart(now) \in Nat
         /\ \A index \in 0..11 : PeriodStart(now) + index \in Months
<1>1. PICK m \in Months : now \in Int /\ 11 <= m /\ MonthStart[m] <= now /\ now < MonthEnd(m)
  BY ClockAssumption DEF MonthsInYear
<1>2. MonthOf(now) = m /\ m \in Nat
  BY <1>1, MonthOfIs, Calendar
<1>3. PeriodStart(now) = m - 11
  BY <1>2 DEF PeriodStart, MonthsInYear
<1>4. 0 \in Months
  <2>1. PICK k : k = Cardinality(DOMAIN MonthStart)
    OBVIOUS
  <2>2. k \in Nat /\ Months = 0 .. k - 2
    BY <2>1, MonthStartAssumption, FS_CardinalityType DEF Months
  <2> QED BY <1>1, <2>2
<1>5. \A c \in Int : 0 <= c /\ c <= m => c \in Months
  BY <1>4, Calendar
<1>6. m - 11 \in Months /\ m - 11 \in Nat /\ \A index \in 0..11 : (m - 11) + index \in Months
  BY <1>1, <1>2, <1>5
<1> QED BY <1>1, <1>2, <1>3, <1>6

(* The month a visit of the loop begins in is the month visited. *)
LEMMA VisitIs ==
  ASSUME NEW p \in Int, NEW q \in Int, NEW a \in Months, a = MonthOf(p), MonthStart[a] <= p, p < MonthEnd(a),
         NEW m \in Visited(p, q)
  PROVE  /\ m \in Months /\ a <= m /\ p < q /\ MaxTime(p, MonthStart[m]) \in Int
         /\ MonthOf(MaxTime(p, MonthStart[m])) = m
         /\ MaxTime(p, MonthStart[m]) < q /\ MaxTime(p, MonthStart[m]) < MonthEnd(m)
<1>1. /\ m \in Months /\ p < q /\ a <= m /\ (m = a \/ MonthStart[m] < q)
  BY DEF Visited
<1>2. /\ a \in Nat /\ m \in Nat /\ MonthStart[a] \in Int /\ MonthStart[m] \in Int /\ MonthEnd(a) \in Int
      /\ MonthEnd(m) \in Int /\ MonthStart[m] < MonthEnd(m)
  BY <1>1, Calendar
<1>3. CASE m = a
  <2>1. MaxTime(p, MonthStart[m]) = p
    BY <1>2, <1>3 DEF MaxTime
  <2> QED BY <1>1, <1>3, <2>1
<1>4. CASE m # a
  <2>1. a < m /\ MonthEnd(a) <= MonthStart[m]
    BY <1>1, <1>2, <1>4, Calendar
  <2>2. MaxTime(p, MonthStart[m]) = MonthStart[m]
    BY <1>2, <2>1 DEF MaxTime
  <2>3. MonthOf(MonthStart[m]) = m
    BY <1>1, <1>2, MonthOfIs
  <2> QED BY <1>1, <1>2, <1>4, <2>2, <2>3
<1> QED BY <1>3, <1>4

\* The hours of a month between two moments and before the clock.
HoursWithin(m, start, end, now) ==
  {t \in MonthStart[m] .. MonthEnd(m) - 1 : start <= t /\ t < end /\ t < now}

\* An outage, cut at the start of a month and at the clock.
Clipped(p, q, start, end, now, s) ==
  /\ p = (IF start < MonthStart[s] THEN MonthStart[s] ELSE start)
  /\ q = (IF end > now THEN now ELSE end)

(* What an outage inside the period costs a month of the period. *)
LEMMA CostOfMonth ==
  ASSUME NEW p \in Int, NEW q \in Int, NEW start \in Int, NEW end \in Int, NEW now \in Int,
         NEW s \in Months, NEW m \in Months, s <= m,
         Clipped(p, q, start, end, now, s),
         NEW a \in Months, a = MonthOf(p), MonthStart[a] <= p, p < MonthEnd(a)
  PROVE  Cardinality(HoursWithin(m, start, end, now)) =
           IF m \in Visited(p, q) THEN MinTime(q, MonthEnd(m)) - MaxTime(p, MonthStart[m]) ELSE 0
<1> DEFINE T == HoursWithin(m, start, end, now)
<1>1. /\ a \in Nat /\ m \in Nat /\ s \in Nat /\ MonthStart[a] \in Int /\ MonthStart[m] \in Int
      /\ MonthEnd(a) \in Int /\ MonthEnd(m) \in Int /\ MonthStart[m] < MonthEnd(m) /\ MonthStart[s] \in Int
  BY Calendar
<1>2. MonthStart[s] <= MonthStart[m]
  BY <1>1, Calendar
<1>3. T = {t \in MonthStart[m] .. MonthEnd(m) - 1 : p <= t /\ t < q}
  BY <1>1, <1>2 DEF HoursWithin, Clipped
<1>4. CASE m \in Visited(p, q)
  <2>1. PICK x, y : x = MaxTime(p, MonthStart[m]) /\ y = MinTime(q, MonthEnd(m))
    OBVIOUS
  <2>2. x \in Int /\ x < q /\ x < MonthEnd(m)
    BY <1>4, <2>1, VisitIs
  <2>3. y \in Int /\ x < y /\ \A t \in Int : t < y <=> t < q /\ t < MonthEnd(m)
    BY <1>1, <2>1, <2>2 DEF MinTime
  <2>4. \A t \in Int : x <= t <=> p <= t /\ MonthStart[m] <= t
    BY <1>1, <2>1 DEF MaxTime
  <2>5. T = x .. (y - 1)
    <3>1. \A t \in Int : t \in T <=> x <= t /\ t < y
      BY <1>1, <1>3, <2>3, <2>4
    <3>2. \A t \in T : t \in Int
      BY <1>1, <1>3
    <3>3. T \subseteq x .. (y - 1)
      BY <2>2, <2>3, <3>1, <3>2
    <3>4. x .. (y - 1) \subseteq T
      BY <2>2, <2>3, <3>1
    <3> QED BY <3>3, <3>4
  <2>6. y - 1 \in Int /\ ~(x > y - 1) /\ (y - 1) - x + 1 = y - x
    BY <2>2, <2>3
  <2>7. Cardinality(x .. (y - 1)) = (y - 1) - x + 1
    BY <2>2, <2>6, FS_Interval
  <2> QED BY <1>4, <2>1, <2>5, <2>6, <2>7
<1>5. CASE m \notin Visited(p, q)
  <2>1. ~(p < q) \/ m < a \/ q <= MonthStart[m]
    BY <1>1, <1>5 DEF Visited
  <2>2. m < a => MonthEnd(m) <= p
    BY <1>1, Calendar
  <2>3. T = {}
    BY <1>1, <1>3, <2>1, <2>2
  <2> QED BY <1>5, <2>3, FS_EmptySet
<1> QED BY <1>4, <1>5

(* An outage costs a month of the period the hours it covers of it. *)
LEMMA DowntimeIs ==
  ASSUME NEW now \in Clock, NEW inc, inc.start_date \in Int, inc.end_date \in Int \cup {Null}, NEW index \in 0..11
  PROVE  Downtime(inc, index, now) = CoveredHours(inc, PeriodStart(now) + index, now)
<1>1. PICK s \in Months : s = PeriodStart(now) /\ s \in Nat
  BY PeriodIs
<1>2. PICK m \in Months : m = s + index /\ m \in Nat /\ s <= m
  BY <1>1, PeriodIs
<1>3. PICK start, end : start = inc.start_date /\ end = inc.end_date
  OBVIOUS
<1> DEFINE T == {t \in MonthStart[m] .. MonthEnd(m) - 1 :
                   /\ inc.impact = 3 /\ end # Null
                   /\ start <= t /\ t < end /\ t < now}
<1>4. CoveredHours(inc, PeriodStart(now) + index, now) = Cardinality(T)
  BY <1>1, <1>2, <1>3 DEF CoveredHours
<1>5. /\ now \in Int /\ MonthStart[m] \in Int /\ MonthEnd(m) \in Int /\ MonthStart[s] \in Int
      /\ MonthStart[s] <= MonthStart[m]
  BY <1>1, <1>2, PeriodIs, Calendar
<1>6. CASE end = Null \/ inc.impact # 3
  <2>1. Downtime(inc, index, now) = 0
    BY <1>3, <1>6 DEF Downtime
  <2>2. T = {}
    BY <1>6
  <2> QED BY <1>4, <2>1, <2>2, FS_EmptySet
<1>7. CASE ~(end = Null \/ inc.impact # 3) /\ (end < MonthStart[s] \/ start > now)
  <2>1. AdjustIncidentPeriod(start, end, MonthStart[s], now) = << >>
    BY <1>7 DEF AdjustIncidentPeriod
  <2>2. Downtime(inc, index, now) = 0
    BY <1>1, <1>3, <1>7, <2>1 DEF Downtime
  <2>3. start \in Int /\ end \in Int
    BY <1>3, <1>7
  <2>4. T = {}
    BY <1>5, <1>7, <2>3
  <2> QED BY <1>4, <2>2, <2>4, FS_EmptySet
<1>8. CASE ~(end = Null \/ inc.impact # 3) /\ ~(end < MonthStart[s] \/ start > now)
  <2>1. start \in Int /\ end \in Int
    BY <1>3, <1>8
  <2>2. PICK p, q : /\ p = (IF start < MonthStart[s] THEN MonthStart[s] ELSE start)
                    /\ q = (IF end > now THEN now ELSE end)
    OBVIOUS
  <2>3. AdjustIncidentPeriod(start, end, MonthStart[s], now) = <<p, q>>
    BY <1>8, <2>2 DEF AdjustIncidentPeriod
  <2>4. p \in Int /\ q \in Int /\ MonthStart[s] <= p /\ p <= now
    <3>1. PICK b \in Months : b = MonthOf(now) /\ b \in Nat /\ b = s + 11 /\ MonthStart[b] <= now
      BY <1>1, PeriodIs
    <3>2. MonthStart[s] < MonthStart[b] /\ MonthStart[b] \in Int
      BY <1>1, <3>1, Calendar
    <3> QED BY <1>5, <1>8, <2>1, <2>2, <3>1, <3>2
  <2>5. PICK a \in Months : MonthStart[a] <= p /\ p < MonthEnd(a) /\ a = MonthOf(p)
    <3>1. PICK b \in Months : b \in Nat /\ b = s + 11 /\ now < MonthEnd(b) /\ MonthEnd(b) \in Int
      BY <1>1, PeriodIs, Calendar
    <3>2. s <= b /\ p < MonthEnd(b)
      BY <1>1, <1>5, <2>4, <3>1
    <3> QED BY <2>4, <3>1, <3>2, HasMonth, MonthOfIs
  <2>6. PICK V : V = Visited(p, q)
    OBVIOUS
  <2> DEFINE hours == [k \in V |-> MinTime(q, MonthEnd(k)) - MaxTime(p, MonthStart[k])]
             Index(k) == (Year(MonthOf(MaxTime(p, MonthStart[k]))) - Year(s)) * MonthsInYear
                           + (Month(MonthOf(MaxTime(p, MonthStart[k]))) - Month(s))
             C == {k \in V : Index(k) = index}
  <2>7. Downtime(inc, index, now) = SumFunctionOnSet(hours, C)
    <3>1. <<p, q>> # << >> /\ <<p, q>>[1] = p /\ <<p, q>>[2] = q
      OBVIOUS
    <3>2. PICK d : d = AdjustIncidentPeriod(start, end, MonthStart[s], now)
      OBVIOUS
    <3>3. d # << >> /\ d[1] = p /\ d[2] = q
      BY <2>3, <3>1, <3>2
    <3>4. DOMAIN hours = V
      OBVIOUS
    <3> QED BY <1>1, <1>3, <1>8, <2>6, <3>2, <3>3, <3>4 DEF Downtime
  <2>8. ASSUME NEW k \in V PROVE k \in Nat /\ Index(k) = k - s
    <3>1. k \in Months /\ MonthOf(MaxTime(p, MonthStart[k])) = k
      BY <2>4, <2>5, <2>6, VisitIs
    <3>2. k \in Nat
      BY <3>1, Calendar
    <3> QED BY <1>1, <3>1, <3>2, IndexIs
  <2>9. C = IF m \in V THEN {m} ELSE {}
    <3>1. ASSUME NEW k \in V PROVE Index(k) = index <=> k = m
      <4>1. PICK i : i = Index(k)
        OBVIOUS
      <4>2. i = k - s /\ k \in Nat
        BY <2>8, <4>1
      <4>3. i = index <=> k = m
        BY <1>1, <1>2, <4>2
      <4> QED BY <4>1, <4>3
    <3> HIDE DEF Index
    <3> QED BY <3>1
  <2>10. Cardinality(T) = IF m \in V THEN MinTime(q, MonthEnd(m)) - MaxTime(p, MonthStart[m]) ELSE 0
    <3>1. T = HoursWithin(m, start, end, now)
      BY <1>8 DEF HoursWithin
    <3>2. Clipped(p, q, start, end, now, s) /\ s <= m /\ now \in Int
      BY <1>2, <1>5, <2>2 DEF Clipped
    <3> HIDE DEF T
    <3>3. Cardinality(HoursWithin(m, start, end, now)) =
            IF m \in Visited(p, q) THEN MinTime(q, MonthEnd(m)) - MaxTime(p, MonthStart[m]) ELSE 0
      BY <2>1, <2>4, <2>5, <3>2, CostOfMonth
    <3> QED BY <2>6, <3>1, <3>3
  <2>11. CASE m \in V
    <3>1. hours[m] = MinTime(q, MonthEnd(m)) - MaxTime(p, MonthStart[m])
      BY <2>11
    <3>2. hours[m] \in Int
      BY <1>5, <2>4, <3>1 DEF MinTime, MaxTime
    <3>3. SumFunctionOnSet(hours, {m}) = hours[m]
      BY <3>2, SumOfOne
    <3> QED BY <1>4, <2>7, <2>9, <2>10, <2>11, <3>1, <3>3
  <2>12. CASE m \notin V
    <3>1. PICK f : f = hours
      OBVIOUS
    <3>2. SumFunctionOnSet(f, {}) = 0
      BY NoSum
    <3> QED BY <1>4, <2>7, <2>9, <2>10, <2>12, <3>1, <3>2
  <2> QED BY <2>11, <2>12
<1> QED BY <1>6, <1>7, <1>8

(* Every one of the last twelve months is answered with the hours the outages cover *)
(* of it, whatever the calendar, the clock and the outages (calculateAvailability). *)
THEOREM AvailabilityIsTrue == Spec => []AvailabilityTrue
<1>1. Asked => AvailabilityTrue
  <2> SUFFICES ASSUME Asked, case.kind = "availability", case.incidents # << >> PROVE AvailabilityTrue
    BY DEF AvailabilityTrue
  <2>1. PICK incidents, now : incidents = case.incidents /\ now = case.now
    OBVIOUS
  <2>2. incidents \in Outages /\ now \in Clock /\ incidents # << >> /\ case.answer = CalculateAvailability(incidents, now)
    BY <2>1 DEF Asked
  <2>3. PICK p : p = PeriodStart(now)
    OBVIOUS
  <2>4. p \in Nat /\ MonthOf(now) = p + 11
    BY <2>2, <2>3, PeriodIs
  <2>5. case.answer = [i \in 1..12 |->
          [year |-> Year(p + (12 - i)), month |-> Month(p + (12 - i)),
           percentage |-> Percentage(MonthlyDowntime(incidents, 12 - i, now), HoursInMonth(p + (12 - i)))]]
    BY <2>2, <2>3 DEF CalculateAvailability, MonthsInYear
  <2>6. ASSUME NEW i \in 1..12
        PROVE  MonthlyDowntime(incidents, 12 - i, now) =
                 Total([k \in DOMAIN incidents |-> CoveredHours(incidents[k], p + (12 - i), now)])
    <3>1. 12 - i \in 0..11
      OBVIOUS
    <3>2. ASSUME NEW k \in DOMAIN incidents
          PROVE  Downtime(incidents[k], 12 - i, now) = CoveredHours(incidents[k], p + (12 - i), now)
      <4>1. incidents[k].start_date \in Int /\ incidents[k].end_date \in Int \cup {Null}
        BY <2>2, ClockAssumption
      <4> QED BY <2>2, <2>3, <3>1, <4>1, DowntimeIs
    <3> QED BY <3>2 DEF MonthlyDowntime
  <2>7. ASSUME NEW i \in 1..12
        PROVE  case.answer[i] =
                 [year |-> Year(MonthOf(now) - (i - 1)), month |-> Month(MonthOf(now) - (i - 1)),
                  percentage |->
                    Percentage(Total([k \in DOMAIN incidents |->
                                        CoveredHours(incidents[k], MonthOf(now) - (i - 1), now)]),
                               HoursInMonth(MonthOf(now) - (i - 1)))]
    <3>1. PICK month : month = p + (12 - i)
      OBVIOUS
    <3>2. month = MonthOf(now) - (i - 1)
      BY <2>4, <3>1
    <3>3. case.answer[i] =
            [year |-> Year(month), month |-> Month(month),
             percentage |-> Percentage(Total([k \in DOMAIN incidents |-> CoveredHours(incidents[k], month, now)]),
                                       HoursInMonth(month))]
      BY <2>5, <2>6, <3>1
    <3> QED BY <3>2, <3>3
  <2>8. Len(case.answer) = 12
    BY <2>5
  <2> QED BY <2>1, <2>7, <2>8 DEF AvailabilityTrue, MonthsInYear
<1> QED BY <1>1, AnswersAsked, PTL

=============================================================================
