------------------------------- MODULE Access -------------------------------
(***************************************************************************)
(* Who may do what: the roles of a token (api/auth, api/rbac), the chain   *)
(* of middleware in front of each route (api/routes.go, middleware.go) and *)
(* the checks the handlers of the writes make themselves (api/v2).         *)
(***************************************************************************)
EXTENDS Integers, Sequences, FiniteSetsExt

NoRole == 0
Reporter == 5
Creator == 10
Operator == 30
Admin == 50

CanApprove(role) == role >= Operator
IsReporter(role) == role = Reporter
CanViewInternalFields(role) == role >= Creator

(***************************************************************************)
(* Names to roles.  svc has the four sets of names parseRoles made of the  *)
(* configuration; a name may stand in several of them.                     *)
(***************************************************************************)

RoleForName(svc, name) ==
  CASE name \in svc.admins -> Admin
    [] name \in svc.operators -> Operator
    [] name \in svc.creators -> Creator
    [] name \in svc.reporters -> Reporter
    [] OTHER -> NoRole

RoleNames(svc) == svc.creators \cup svc.operators \cup svc.admins \cup svc.reporters

HasAuthorizedRole(svc, names) == \E name \in names : RoleForName(svc, name) # NoRole

\* The highest role of the names.
ResolveRole(svc, names) == Max({NoRole} \cup {RoleForName(svc, name) : name \in names})

(***************************************************************************)
(* The token.  A claim is a set of places: a name that occurs as a key or  *)
(* as a value, with the number of objects around it.                       *)
(***************************************************************************)

MaxRolesClaimDepth == 3

CollectRoleNames(claim, known) ==
  {place.name : place \in {p \in claim : p.depth <= MaxRolesClaimDepth /\ p.name \in known}}

\* The user's roles, the groups, and the roles of any one project.
ExtractRolesFromClaims(claims, known) ==
  UNION {CollectRoleNames(claims[c], known) : c \in {"roles", "groups", "project"} \cap DOMAIN claims}

\* Roles in the context of the request, or the refusal.  The code sorts the
\* names; nothing looks at their order.
Verify(svc, token) ==
  IF ~token.valid \/ token.subject = "" THEN [ok |-> FALSE]
  ELSE [ok |-> TRUE, subject |-> token.subject,
        roles |-> ExtractRolesFromClaims(token.claims, RoleNames(svc))]

(***************************************************************************)
(* The middleware.  A step takes the context of a request and returns it   *)
(* with what it sets, or with the status of its refusal.                   *)
(***************************************************************************)

Request(svc, token) ==
  [svc |-> svc, token |-> token, status |-> 0, subject |-> "", roles |-> {},
   authenticated |-> FALSE, role |-> NoRole, hasRole |-> FALSE]

Refuse(c, status) == [c EXCEPT !.status = status]

Authenticate(c) ==
  LET claims == Verify(c.svc, c.token)
  IN  IF ~claims.ok THEN Refuse(c, 401)
      ELSE [c EXCEPT !.subject = claims.subject, !.roles = claims.roles, !.authenticated = TRUE]

AuthenticationMW(c) == IF c.token.absent THEN Refuse(c, 401) ELSE Authenticate(c)
SetJWTClaims(c) == IF c.token.absent THEN c ELSE Authenticate(c)

RBACAuthorizationMW(c) ==
  IF ~c.authenticated THEN Refuse(c, 401)
  ELSE IF ~HasAuthorizedRole(c.svc, c.roles) THEN Refuse(c, 403)
  ELSE [c EXCEPT !.role = ResolveRole(c.svc, c.roles), !.hasRole = TRUE]

ResolveCallerRole(c) == IF c.authenticated THEN ResolveRole(c.svc, c.roles) ELSE NoRole
DenyReporterScopeMW(c) == IF IsReporter(ResolveCallerRole(c)) THEN Refuse(c, 403) ELSE c

(***************************************************************************)
(* The handlers' own checks: a request has the event it is about in        *)
(* `stored' and the body in `sent'.                                        *)
(***************************************************************************)

HasExtendedView(c) == c.authenticated /\ CanViewInternalFields(ResolveRole(c.svc, c.roles))

RequireAdmin(c) == IF ~c.hasRole \/ c.role # Admin THEN Refuse(c, 403) ELSE c

IsSystemIncident(sent) == sent.type = "incident" /\ sent.system

ResolveMaintenanceCreateStatus(role) ==
  IF role >= Operator THEN "planned" ELSE IF role >= Creator THEN "pending_review" ELSE ""

PrepareIncidentCreate(c, sent) ==
  IF ~c.hasRole THEN Refuse(c, 403)
  ELSE IF IsReporter(c.role) /\ ~IsSystemIncident(sent) THEN Refuse(c, 403)
  ELSE IF sent.type = "maintenance" /\ ResolveMaintenanceCreateStatus(c.role) = "" THEN Refuse(c, 403)
  ELSE c

AllowMaintenancePatchAsCreator(c, stored, sent) ==
  IF c.subject # stored.created_by THEN Refuse(c, 403)
  ELSE IF stored.status # "pending_review" THEN Refuse(c, 409)
  ELSE IF sent.status \notin {"pending_review", "cancelled"} THEN Refuse(c, 409)
  ELSE c

AllowMaintenancePatch(c, stored, sent) ==
  IF stored.type # "maintenance" THEN c
  ELSE IF ~c.hasRole THEN Refuse(c, 403)
  ELSE IF c.role >= Operator THEN c
  ELSE IF c.role >= Creator THEN AllowMaintenancePatchAsCreator(c, stored, sent)
  ELSE Refuse(c, 403)

PostIncidentExtract(c, stored) ==
  IF ~c.hasRole \/ ~CanApprove(c.role) THEN Refuse(c, 403)
  ELSE IF stored.type # "incident" THEN Refuse(c, 403)
  ELSE c

(***************************************************************************)
(* The routes with their chains; the deprecated incidents routes differ    *)
(* from the events routes only in the creation.                            *)
(***************************************************************************)

\* Faulty variant: one route of a pair loses a step of its chain.
ChainShort ==
  [PostComponent |-> <<"AuthenticationMW", "DenyReporterScopeMW">>,
   PostIncident |-> <<"AuthenticationMW", "RBACAuthorizationMW", "create">>,
   PostEvent |-> <<"AuthenticationMW", "RBACAuthorizationMW", "create">>,
   PatchEvent |-> <<"AuthenticationMW", "RBACAuthorizationMW", "DenyReporterScopeMW", "patch">>,
   PostExtract |-> <<"AuthenticationMW", "RBACAuthorizationMW", "DenyReporterScopeMW", "extract">>,
   PatchUpdate |-> <<"AuthenticationMW", "RBACAuthorizationMW">>,
   GetEvents |-> <<"SetJWTClaims">>,
   GetStats |-> <<"AuthenticationMW", "RBACAuthorizationMW", "RequireAdmin">>,
   GetFailed |-> <<"AuthenticationMW", "RBACAuthorizationMW", "RequireAdmin">>,
   PostRedrive |-> <<"AuthenticationMW", "RBACAuthorizationMW", "RequireAdmin">>]

Chain ==
  [PostComponent |-> <<"AuthenticationMW", "DenyReporterScopeMW">>,
   PostIncident |-> <<"AuthenticationMW", "RBACAuthorizationMW", "DenyReporterScopeMW", "create">>,
   PostEvent |-> <<"AuthenticationMW", "RBACAuthorizationMW", "create">>,
   PatchEvent |-> <<"AuthenticationMW", "RBACAuthorizationMW", "DenyReporterScopeMW", "patch">>,
   PostExtract |-> <<"AuthenticationMW", "RBACAuthorizationMW", "DenyReporterScopeMW", "extract">>,
   PatchUpdate |-> <<"AuthenticationMW", "RBACAuthorizationMW", "DenyReporterScopeMW">>,
   GetEvents |-> <<"SetJWTClaims">>,
   GetStats |-> <<"AuthenticationMW", "RBACAuthorizationMW", "RequireAdmin">>,
   GetFailed |-> <<"AuthenticationMW", "RBACAuthorizationMW", "RequireAdmin">>,
   PostRedrive |-> <<"AuthenticationMW", "RBACAuthorizationMW", "RequireAdmin">>]

Apply(step, c, stored, sent) ==
  CASE step = "AuthenticationMW" -> AuthenticationMW(c)
    [] step = "SetJWTClaims" -> SetJWTClaims(c)
    [] step = "RBACAuthorizationMW" -> RBACAuthorizationMW(c)
    [] step = "DenyReporterScopeMW" -> DenyReporterScopeMW(c)
    [] step = "RequireAdmin" -> RequireAdmin(c)
    [] step = "create" -> PrepareIncidentCreate(c, sent)
    [] step = "patch" -> AllowMaintenancePatch(c, stored, sent)
    [] step = "extract" -> PostIncidentExtract(c, stored)

\* A refusal ends the chain, which has at most four steps; status 0 means the
\* handler went on.
Serve(route, c, stored, sent) ==
  LET Pass(i, ctx) == IF i > Len(Chain[route]) \/ ctx.status # 0 THEN ctx
                      ELSE Apply(Chain[route][i], ctx, stored, sent)
  IN  Pass(4, Pass(3, Pass(2, Pass(1, c))))

=============================================================================
