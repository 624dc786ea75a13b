---------------------------- MODULE Observability ----------------------------
(* The counters of one server process and the requests that move them: the    *)
(* routes and handlers in front of the services (cmd/nanda-server, internal/  *)
(* api), the middleware that counts a request once its handler has returned   *)
(* (internal/observability/http.go), the audit store that counts an event     *)
(* once its append is acknowledged (audit.go), and the registry behind one    *)
(* mutex (registry.go).  A restart of the server begins again at Init.        *)
(*                                                                            *)
(* What a service does between its call and its audit event is in the modules *)
(* Registration, Resolver and Admin; here it comes to one of the endings they *)
(* allow.  The method label is left out: a route serves one method.           *)
EXTENDS Integers, FiniteSets

CONSTANTS
  Clients,      \* connections, each with one request at a time
  Routes,       \* the routes they ask for
  MaxRequests   \* bound: requests made

RouteRegister == "/v1/agents/register"
RouteResolve == "/v1/resolve"
RouteAdminAgent == "/v1/admin/agents/{agentId}"
RouteAdminAudit == "/v1/admin/audit"
RouteAdminAuditAgent == "/v1/admin/audit/{agentId}"
RouteAdminRevocation == "/v1/admin/revocation"
RouteAdminRevokedID == "/v1/admin/revocation/{issuer}/{credentialId}"
RouteMetrics == "/metrics"
RouteUnknown == "unknown"

Probes == {"/healthz", "/readyz"}
AdminRoutes ==
  {RouteAdminAgent, RouteAdminAudit, RouteAdminAuditAgent, RouteAdminRevocation,
   RouteAdminRevokedID}
Protected == {RouteRegister, RouteResolve} \cup AdminRoutes
Posted == {RouteRegister, RouteResolve, RouteAdminRevocation}

ASSUME RoutesAssumption ==
  Routes \subseteq Protected \cup Probes \cup {RouteMetrics, RouteUnknown}
ASSUME BoundsAssumption == MaxRequests \in Nat /\ IsFiniteSet(Clients)

-----------------------------------------------------------------------------
(* What can become of a request *)

NoEvent == "none"
Denials == {"resolve.denied", "trust.denied"}
Events ==
  {"agent.registered", "resolve.allowed", "credential.revocation.updated"} \cup Denials
DecisionOf(e) == IF e \in Denials THEN "denied" ELSE "allowed"

\* What a request is refused with before any service is called: the mux redirects
\* a path that is not clean and finds no handler for others, some of which
\* ClassifyRoute still takes for a route with parameters; then come the token, the
\* method and the body.
Refusals(route) ==
  {"301"}
  \cup (IF route \in {RouteUnknown, RouteAdminAgent, RouteAdminAuditAgent, RouteAdminRevokedID}
          THEN {"404"} ELSE {})
  \cup (IF route \in Protected THEN {"401", "405"} ELSE {})
  \cup (IF route \in Posted THEN {"400"} ELSE {})

\* The events a service may end with, and the status its handler gives each when
\* the append succeeds; a service that ends without an event gives a status only.
Endings(route) ==
  CASE route = RouteRegister ->
         {<<NoEvent, "400">>, <<NoEvent, "500">>, <<"agent.registered", "200">>}
    [] route = RouteResolve ->
         {<<"resolve.allowed", "200">>, <<"trust.denied", "403">>}
           \cup {"resolve.denied"} \X {"400", "404", "410", "500"}
    [] route = RouteAdminRevocation ->
         {<<NoEvent, "400">>, <<NoEvent, "500">>, <<"credential.revocation.updated", "200">>}
    [] route = RouteAdminAgent -> {NoEvent} \X {"200", "400", "404", "500"}
    [] route \in {RouteAdminAudit, RouteAdminAuditAgent} -> {NoEvent} \X {"200", "400", "500"}
    [] route = RouteAdminRevokedID -> {NoEvent} \X {"200", "500"}
    [] route \in Probes -> {<<NoEvent, "200">>}
    [] OTHER -> {}

Statuses == {"200", "301", "400", "401", "403", "404", "405", "410", "500"}

-----------------------------------------------------------------------------
(* The metrics *)

requestDecision(status) ==
  CASE status = "200" -> "allowed" [] status = "500" -> "error" [] OTHER -> "denied"

resolveDecision(status) ==
  CASE status = "404" -> "not_found" [] status = "410" -> "expired"
    [] OTHER -> requestDecision(status)

HTTPRequests(route, status) == <<"nanda_http_requests_total", route, status>>
RegistrationRequests(status) ==
  <<"nanda_registration_requests_total", requestDecision(status), status>>
ResolveRequests(status) == <<"nanda_resolve_requests_total", resolveDecision(status), status>>
AdminRequests(route, status) == <<"nanda_admin_requests_total", route, status>>
AuditEvents(event) == <<"nanda_audit_events_total", event, DecisionOf(event)>>
TrustDenied == <<"nanda_trust_denied_total">>
RevocationUpdates == <<"nanda_revocation_updates_total">>

\* The counter of a route of its own, and recordRouteMetrics, which moves it for every
\* request of a route that has one.
RouteCounter(route, status) ==
  CASE route = RouteRegister -> RegistrationRequests(status)
    [] route = RouteResolve -> ResolveRequests(status)
    [] OTHER -> AdminRequests(route, status)

RouteMetric(route, status) ==
  IF route \in Protected THEN {RouteCounter(route, status)} ELSE {}

\* The counter it moves for some of them.
SpecialMetric(route, status) ==
  CASE route = RouteResolve /\ status = "403" -> {TrustDenied}
    [] route = RouteAdminRevocation /\ status = "200" -> {RevocationUpdates}
    [] OTHER -> {}

\* A key that a map does not have reads as zero.
Copies(m, values) == IF m \in DOMAIN values THEN values[m] ELSE 0
NoValues == [m \in {} |-> 0]

\* The map with one more of each of the metrics.
Counted(values, metrics) ==
  [m \in DOMAIN values \cup metrics |-> Copies(m, values) + IF m \in metrics THEN 1 ELSE 0]

-----------------------------------------------------------------------------
VARIABLES
  appended,   \* event -> how many the requests of this process put in the audit log
  counters,   \* metric -> how often it has been incremented, once it has been
  latencies,  \* route -> how often a duration was observed, once one was
  requests,   \* number of requests made
  stage,      \* client -> what its request does next
  route,      \* client -> the route of its request
  status,     \* client -> the status its handler answers, or "none"
  event,      \* client -> the event its service appends, or NoEvent
  page        \* what /metrics last showed

vars == <<appended, counters, latencies, requests, stage, route, status, event, page>>

Stages == {"idle", "serve", "append", "audited", "count", "observe", "route", "special"}

Init ==
  /\ appended = [e \in Events |-> 0]
  /\ counters = NoValues
  /\ latencies = NoValues
  /\ requests = 0
  /\ stage = [c \in Clients |-> "idle"]
  /\ route = [c \in Clients |-> RouteUnknown]
  /\ status = [c \in Clients |-> "none"]
  /\ event = [c \in Clients |-> NoEvent]
  /\ page = [counters |-> NoValues, latencies |-> NoValues]

Goto(c, next) == stage' = [stage EXCEPT ![c] = next]

\* addCounter, under the mutex.
Add(metrics) == counters' = Counted(counters, metrics)

-----------------------------------------------------------------------------
(* A request *)

Receive(c, r) ==
  /\ stage[c] = "idle"
  /\ requests < MaxRequests
  /\ requests' = requests + 1
  /\ route' = [route EXCEPT ![c] = r]
  /\ Goto(c, "serve")
  /\ UNCHANGED <<appended, counters, latencies, status, event, page>>

Refuse(c, s) ==
  /\ stage[c] = "serve"
  /\ s \in Refusals(route[c])
  /\ status' = [status EXCEPT ![c] = s]
  /\ Goto(c, "count")
  /\ UNCHANGED <<appended, counters, latencies, requests, route, event, page>>

\* The service does its work and has an event to append, or none.
Serve(c, ending) ==
  /\ stage[c] = "serve"
  /\ ending \in Endings(route[c])
  /\ event' = [event EXCEPT ![c] = ending[1]]
  /\ status' = [status EXCEPT ![c] = ending[2]]
  /\ Goto(c, IF ending[1] = NoEvent THEN "count" ELSE "append")
  /\ UNCHANGED <<appended, counters, latencies, requests, route, page>>

\* Mutation: the counters and the latencies are copied under the mutex one by one.
RenderInTwo(c) ==
  /\ stage[c] = "serve"
  /\ route[c] = RouteMetrics
  /\ \/ /\ status[c] = "none"
        /\ page' = [page EXCEPT !.counters = counters]
        /\ status' = [status EXCEPT ![c] = "200"]
        /\ UNCHANGED stage
     \/ /\ status[c] = "200"
        /\ page' = [page EXCEPT !.latencies = latencies]
        /\ Goto(c, "count")
        /\ UNCHANGED status
  /\ UNCHANGED <<appended, counters, latencies, requests, route, event>>

\* /metrics: Render copies all values under the mutex and writes them after it.
Render(c) ==
  /\ stage[c] = "serve"
  /\ route[c] = RouteMetrics
  /\ page' = [counters |-> counters, latencies |-> latencies]
  /\ status' = [status EXCEPT ![c] = "200"]
  /\ Goto(c, "count")
  /\ UNCHANGED <<appended, counters, latencies, requests, route, event>>

\* The append commits and its acknowledgement arrives.
AppendAcknowledged(c) ==
  /\ stage[c] = "append"
  /\ appended' = [appended EXCEPT ![event[c]] = @ + 1]
  /\ Goto(c, "audited")
  /\ UNCHANGED <<counters, latencies, requests, route, status, event, page>>

\* Mutation: the service drops the error.
AppendFailedUnnoticed(c) ==
  /\ stage[c] = "append"
  /\ \/ appended' = [appended EXCEPT ![event[c]] = @ + 1]
     \/ UNCHANGED appended
  /\ Goto(c, "count")
  /\ UNCHANGED <<counters, latencies, requests, route, status, event, page>>

\* It fails, or commits without acknowledgement: the service returns that error.
AppendFailed(c) ==
  /\ stage[c] = "append"
  /\ \/ appended' = [appended EXCEPT ![event[c]] = @ + 1]
     \/ UNCHANGED appended
  /\ status' = [status EXCEPT ![c] = "500"]
  /\ Goto(c, "count")
  /\ UNCHANGED <<counters, latencies, requests, route, event, page>>

\* observability.AuditStore.Append, after next.Append returned.
IncAuditEvents(c) ==
  /\ stage[c] = "audited"
  /\ Add({AuditEvents(event[c])})
  /\ Goto(c, "count")
  /\ UNCHANGED <<appended, latencies, requests, route, status, event, page>>

\* The handler has written its status and returned to the middleware.
IncHTTPRequests(c) ==
  /\ stage[c] = "count"
  /\ Add({HTTPRequests(route[c], status[c])})
  /\ Goto(c, "observe")
  /\ UNCHANGED <<appended, latencies, requests, route, status, event, page>>

ObserveHTTPRequest(c) ==
  /\ stage[c] = "observe"
  /\ latencies' = Counted(latencies, {route[c]})
  /\ Goto(c, "route")
  /\ UNCHANGED <<appended, counters, requests, route, status, event, page>>

\* recordRouteMetrics, one critical section per counter.
CountRoute(c) ==
  /\ stage[c] = "route"
  /\ Add(RouteMetric(route[c], status[c]))
  /\ Goto(c, "special")
  /\ UNCHANGED <<appended, latencies, requests, route, status, event, page>>

CountSpecial(c) ==
  /\ stage[c] = "special"
  /\ Add(SpecialMetric(route[c], status[c]))
  /\ Goto(c, "idle")
  /\ route' = [route EXCEPT ![c] = RouteUnknown]
  /\ status' = [status EXCEPT ![c] = "none"]
  /\ event' = [event EXCEPT ![c] = NoEvent]
  /\ UNCHANGED <<appended, latencies, requests, page>>

Next == \E c \in Clients :
  \/ \E r \in Routes : Receive(c, r)
  \/ \E s \in Refusals(route[c]) : Refuse(c, s)
  \/ \E ending \in Endings(route[c]) : Serve(c, ending)
  \/ Render(c)
  \/ AppendAcknowledged(c) \/ AppendFailed(c) \/ IncAuditEvents(c)
  \/ IncHTTPRequests(c) \/ ObserveHTTPRequest(c) \/ CountRoute(c) \/ CountSpecial(c)

Spec == Init /\ [][Next]_vars

-----------------------------------------------------------------------------
(* Properties *)

InFlight(stages) == {c \in Clients : stage[c] \in stages}

\* Requests past their append that have still to count it.
Counting(e) == {c \in InFlight({"audited"}) : event[c] = e}

\* The counter of audit events tells of no event the log does not have, and every
\* event it misses belongs to a request whose client is told of an internal error:
\* it has been counted with status 500 or is about to be.
CounterFollowsLog ==
  LET missed(e) == appended[e] - Copies(AuditEvents(e), counters) - Cardinality(Counting(e))
      failing(r) == {c \in InFlight({"count"}) : route[c] = r /\ status[c] = "500"}
      failed(r) == Cardinality(failing(r)) + Copies(HTTPRequests(r, "500"), counters)
  IN /\ \A e \in Events : 0 <= missed(e)
     /\ missed("agent.registered") <= failed(RouteRegister)
     /\ missed("resolve.allowed") + missed("resolve.denied") + missed("trust.denied")
          <= failed(RouteResolve)
     /\ missed("credential.revocation.updated") <= failed(RouteAdminRevocation)

\* What the values say of the outcomes of requests is borne out by audited events.
OutcomesAreAudited(values) ==
  LET v(m) == Copies(m, values) IN
  /\ v(RegistrationRequests("200")) <= v(AuditEvents("agent.registered"))
  /\ v(ResolveRequests("200")) <= v(AuditEvents("resolve.allowed"))
  /\ v(ResolveRequests("404")) + v(ResolveRequests("410")) <= v(AuditEvents("resolve.denied"))
  /\ v(TrustDenied) <= v(ResolveRequests("403"))
  /\ v(ResolveRequests("403")) <= v(AuditEvents("trust.denied"))
  /\ v(RevocationUpdates) <= v(AdminRequests(RouteAdminRevocation, "200"))
  /\ v(AdminRequests(RouteAdminRevocation, "200"))
       <= v(AuditEvents("credential.revocation.updated"))

\* The values of a route's counters, added up over the statuses they are labelled with.
OverStatuses(v) ==
  v["200"] + v["301"] + v["400"] + v["401"] + v["403"] + v["404"] + v["405"] + v["410"]
    + v["500"]

HTTPTotal(values, r) == OverStatuses([s \in Statuses |-> Copies(HTTPRequests(r, s), values)])
RouteTotal(values, r) == OverStatuses([s \in Statuses |-> Copies(RouteCounter(r, s), values)])

\* Whenever /metrics is read, a page shows all counters and latencies as they are at
\* one moment, although requests move them one after the other: successes, denials
\* and updates are backed by audit events, and no route has more latencies than
\* requests, nor more requests of its own counter than latencies.
PageIsConsistent ==
  /\ OutcomesAreAudited(page.counters)
  /\ \A r \in Routes :
       /\ r \in Protected => RouteTotal(page.counters, r) <= Copies(r, page.latencies)
       /\ Copies(r, page.latencies) <= HTTPTotal(page.counters, r)
=============================================================================
