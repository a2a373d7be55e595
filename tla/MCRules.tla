------------------------------- MODULE MCRules -------------------------------
EXTENDS Rules

OneOf(type) == CASE type \in {"string", "json"} -> "v" [] type = "enum" -> "info"
                 [] type \in {"int", "time"} -> 7 [] type = "bool" -> TRUE

MCSample == [e \in Entity |-> [f \in DOMAIN Schema[e].field |-> OneOf(Schema[e].field[f])]]

Histories3(type, first, later) ==
  {[type |-> type, status |-> Last(<<f>> \o rest), statuses |-> <<f>> \o rest] :
     f \in first, rest \in {<< >>} \cup {<<a>> : a \in later} \cup {<<a, b>> : a \in later, b \in later}}

\* Updates that do not set the status of the event: those of an extraction or a move,
\* which an event may also have lost, and those a checker fills in.
Histories2(type, status, first, later) ==
  {[type |-> type, status |-> s, statuses |-> sts] :
     s \in status, sts \in {<< >>} \cup {<<f>> : f \in first} \cup {<<f, a>> : f \in first, a \in later}}

MCHistories ==
  Histories3("maintenance", {"pending_review", "planned"},
             {"pending_review", "reviewed", "planned", "in_progress", "modified", "completed", "cancelled"})
    \cup Histories3("incident", {"detected"},
                    {"analysing", "fixing", "observing", "resolved", "reopened", "changed", "impact changed"})
    \cup Histories3("info", {"planned"}, {"active", "completed", "cancelled"})
    \cup Histories2("incident", {"SYSTEM", "detected", "analysing", "changed"}, {"detected", "SYSTEM"},
                    {"SYSTEM", "changed", "description"})
    \cup Histories2("maintenance", {"pending_review", "planned", "in_progress", "completed", "cancelled"},
                    {"pending_review", "planned"}, {"reviewed", "planned", "in_progress", "cancelled", "description"})

MCFilters ==
  {NoFilter, [NoFilter EXCEPT !.active = TRUE], [NoFilter EXCEPT !.active = FALSE], [NoFilter EXCEPT !.types = {"maintenance", "info"}],
   [NoFilter EXCEPT !.status = "cancelled", !.impact = 0], [NoFilter EXCEPT !.end = 1, !.system = FALSE],
   [NoFilter EXCEPT !.start = 0, !.components = {"c"}]}

\* Months of three and two hours, so that a period has both.
MCMonthStart == [month \in 0 .. 16 |-> 5 * (month \div 2) + 3 * (month % 2)]
MCClock == {MonthStart[13], MonthStart[13] + 1, MonthStart[14] + 2}

Outage(start, end, impact) == [start_date |-> start, end_date |-> end, impact |-> impact]
Times == 0 .. MonthEnd(15) - 1
Spans == {Outage(a, b, 3) : a \in Times, b \in Times}

\* One outage anywhere, two in the same or neighbouring months, one without an end.
MCOutages ==
  {<<o>> : o \in {o \in Spans : o.start_date <= o.end_date}}
    \cup {<<Outage(a, a + 2, 3), Outage(a + d, a + d + 4, 3)>> :
            a \in 5 .. MonthEnd(15) - 10, d \in -5 .. 5}
    \cup {<<Outage(a, Null, 3), Outage(a, a + 3, 2), Outage(a, a, 3)>> : a \in {0, 20, 30}}

Known == [admins |-> {"a"}, operators |-> {"o"}, creators |-> {"c"}, reporters |-> {"r", "o"}]

Tokens ==
  {[absent |-> TRUE, valid |-> FALSE, subject |-> "", claims |-> [roles |-> {}]],
   [absent |-> FALSE, valid |-> FALSE, subject |-> "u", claims |-> [roles |-> {[name |-> "a", depth |-> 0]}]]}
    \cup {[absent |-> FALSE, valid |-> TRUE, subject |-> "u",
           claims |-> (claim :> {[name |-> n, depth |-> d] : n \in names})] :
            claim \in {"roles", "groups", "project"}, d \in {3, 4},
            names \in {s \in SUBSET {"a", "o", "c", "r", "x"} : Cardinality(s) <= 2}}

Storeds == {[type |-> "incident", status |-> "detected", created_by |-> "u"]}
             \cup {[type |-> "maintenance", status |-> s, created_by |-> u] :
                     s \in {"pending_review", "planned"}, u \in {"u", "w"}}
Sents == {[type |-> "incident", system |-> s, status |-> "analysing"] : s \in BOOLEAN}
           \cup {[type |-> "maintenance", system |-> s, status |-> t] :
                   s \in BOOLEAN, t \in {"pending_review", "planned", "cancelled"}}

MCRequests ==
  {[route |-> r, svc |-> Known, token |-> t, stored |-> s, sent |-> b] :
     r \in DOMAIN Chain, t \in Tokens, s \in Storeds, b \in Sents}

Blank == [f \in Settings |-> Unset]
Sane == [Blank EXCEPT !.Issuer = "issuer", !.ClientID = "id", !.Admins = "admins"]
Mail == [Sane EXCEPT !.Enabled = TRUE, !.SMTPHost = "host", !.SMTPPort = 25, !.SMTPFrom = "from",
                     !.ReviewEmails = <<"r">>]

Ports == {[env |-> [Sane EXCEPT !.Port = p, !.MetricsPort = m],
           file |-> [Blank EXCEPT !.Port = q, !.MetricsPort = n]] :
            p \in {Unset, Malformed, 1023, 1024, 9090, 50000, 50001}, q \in {Unset, 9090},
            m \in {Unset, Malformed, 1023, 8000, 65535, 65536}, n \in {Unset, 8000}}
Timings == {[env |-> [Mail EXCEPT !.SMTPTimeout = s, !.LeaseTimeout = l, !.MaxAttempts = a],
             file |-> [Blank EXCEPT !.LeaseTimeout = k, !.Enabled = e]] :
              s \in {Unset, Malformed, 0, 60, 61}, l \in {Unset, Malformed, 60, 61},
              a \in {Unset, Malformed, 0, 1}, k \in {Unset, 30}, e \in BOOLEAN}
Required == {[env |-> [Mail EXCEPT ![f] = v], file |-> [Blank EXCEPT ![f] = w]] :
               f \in Strings \ {"Origins", "ReviewEmails"}, v \in {Unset, Malformed}, w \in {Unset, Malformed}}
Static == {[env |-> [Sane EXCEPT !.Origins = o, !.CacheTTL = t, !.CacheMaxBytes = b], file |-> Blank] :
             o \in {Unset, Malformed, << >>, <<"host">>}, t \in {Unset, Malformed, 0, 1},
             b \in {Unset, Malformed, -1, 0, 1}}

Switches == {[env |-> [Mail EXCEPT !.Enabled = e, !.TLS = t], file |-> [Blank EXCEPT !.Enabled = f, !.TLS = u]] :
               e \in {Unset, FALSE, TRUE}, t \in {Unset, FALSE, TRUE},
               f \in {Unset, FALSE, TRUE}, u \in {Unset, FALSE, TRUE}}

MCEnvironments == Ports \cup Timings \cup Required \cup Static \cup Switches

=============================================================================
