------------------------ MODULE ObservabilityProofs ------------------------
(* Proofs about Observability, for every set of clients, every set of routes *)
(* and every number of requests: the counter of audit events follows the log *)
(* and every page of metrics is consistent.                                  *)
EXTENDS Observability, FiniteSetTheorems, TLAPS

-----------------------------------------------------------------------------
(* Maps of counters *)

\* A map as the registry keeps it.
Map(values) == values \in [DOMAIN values -> Nat]

One(P) == IF P THEN 1 ELSE 0

\* Counting adds one to each of the metrics and leaves every other as it was.
LEMMA CountedAdds ==
  ASSUME NEW values, Map(values), NEW metrics
  PROVE /\ Map(Counted(values, metrics))
        /\ \A m : /\ Copies(m, values) \in Nat
                  /\ Copies(m, Counted(values, metrics))
                       = Copies(m, values) + One(m \in metrics)
BY DEF Map, Counted, Copies, One

\* The map of a new registry reads as zero.
LEMMA NoValuesRead == Map(NoValues) /\ \A m : Copies(m, NoValues) = 0
BY DEF Map, NoValues, Copies

\* A sum over the statuses that grows at one of them grows by as much.
LEMMA OverStatusesAdds ==
  ASSUME NEW f \in [Statuses -> Nat], NEW g \in [Statuses -> Nat],
         NEW t \in Statuses, NEW n \in Nat,
         \A s \in Statuses : g[s] = f[s] + (IF s = t THEN n ELSE 0)
  PROVE /\ OverStatuses(f) \in Nat
        /\ OverStatuses(g) = OverStatuses(f) + n
BY DEF OverStatuses, Statuses

LEMMA OverStatusesZero ==
  ASSUME NEW f \in [Statuses -> Nat], \A s \in Statuses : f[s] = 0
  PROVE OverStatuses(f) = 0
BY DEF OverStatuses, Statuses

-----------------------------------------------------------------------------
(* The metrics *)

\* The route whose service appends an event, and the statuses it stands for there.
RouteOf(e) ==
  CASE e = "agent.registered" -> RouteRegister
    [] e = "credential.revocation.updated" -> RouteAdminRevocation
    [] OTHER -> RouteResolve

ProvenBy(e) ==
  CASE e = "resolve.denied" -> {"404", "410"}
    [] e = "trust.denied" -> {"403"}
    [] OTHER -> {"200"}

\* The counters of two routes are one counter only if they have the same labels, and
\* counters of different kinds are never the same.
LEMMA RouteCountersDiffer ==
  ASSUME NEW q \in Protected, NEW r \in Protected, NEW s, NEW t,
         RouteCounter(q, s) = RouteCounter(r, t)
  PROVE q = r /\ s = t
BY DEF RouteCounter, RegistrationRequests, ResolveRequests, AdminRequests, Protected,
       AdminRoutes, RouteRegister, RouteResolve, RouteAdminAgent, RouteAdminAudit,
       RouteAdminAuditAgent, RouteAdminRevocation, RouteAdminRevokedID

LEMMA KindsDiffer ==
  ASSUME NEW r, NEW s, NEW q, NEW t, NEW e
  PROVE /\ RouteCounter(r, s) # HTTPRequests(q, t)
        /\ RouteCounter(r, s) # AuditEvents(e)
        /\ RouteCounter(r, s) # TrustDenied
        /\ RouteCounter(r, s) # RevocationUpdates
        /\ HTTPRequests(q, t) # AuditEvents(e)
        /\ HTTPRequests(q, t) # TrustDenied
        /\ HTTPRequests(q, t) # RevocationUpdates
        /\ AuditEvents(e) # TrustDenied
        /\ AuditEvents(e) # RevocationUpdates
        /\ TrustDenied # RevocationUpdates
BY DEF RouteCounter, RegistrationRequests, ResolveRequests, AdminRequests, HTTPRequests,
       AuditEvents, TrustDenied, RevocationUpdates

\* The labels of a counter tell its event, or its route and status.
LEMMA LabelsTell ==
  /\ \A d, e : AuditEvents(d) = AuditEvents(e) => d = e
  /\ \A q, r, s, t : HTTPRequests(q, s) = HTTPRequests(r, t) => q = r /\ s = t
BY DEF AuditEvents, HTTPRequests

\* The requests of a route that its own counter tells to have been answered with
\* one of some statuses.
Answered(values, r, ss) ==
  OverStatuses([s \in Statuses |-> IF s \in ss THEN Copies(RouteCounter(r, s), values) ELSE 0])

LEMMA AnsweredCounts ==
  ASSUME NEW values, Map(values), NEW q \in Protected, NEW t \in Statuses,
         NEW r \in Protected, NEW ss
  PROVE /\ Answered(values, r, ss) \in Nat
        /\ Answered(Counted(values, RouteMetric(q, t)), r, ss)
             = Answered(values, r, ss) + One(q = r /\ t \in ss)
<1> DEFINE f == [s \in Statuses |-> IF s \in ss THEN Copies(RouteCounter(r, s), values) ELSE 0]
           more == Counted(values, RouteMetric(q, t))
           g == [s \in Statuses |-> IF s \in ss THEN Copies(RouteCounter(r, s), more) ELSE 0]
           n == One(q = r /\ t \in ss)
<1>1. \A m : /\ Copies(m, values) \in Nat
             /\ Copies(m, more) = Copies(m, values) + One(m \in RouteMetric(q, t))
  BY CountedAdds
<1>2. \A s : RouteCounter(r, s) \in RouteMetric(q, t) <=> q = r /\ s = t
  BY RouteCountersDiffer DEF RouteMetric
<1>3. f \in [Statuses -> Nat] /\ g \in [Statuses -> Nat] /\ n \in Nat
  BY <1>1 DEF One
<1>4. \A s \in Statuses : g[s] = f[s] + (IF s = t THEN n ELSE 0)
  BY <1>1, <1>2 DEF One
<1> HIDE DEF f, g, n
<1>5. OverStatuses(f) \in Nat /\ OverStatuses(g) = OverStatuses(f) + n
  BY <1>3, <1>4, OverStatusesAdds
<1> QED BY <1>5 DEF Answered, f, g, n

\* What is counted elsewhere leaves the counters of the routes alone.
LEMMA AnsweredStays ==
  ASSUME NEW values, Map(values), NEW metrics, NEW r, NEW ss,
         \A s : RouteCounter(r, s) \notin metrics
  PROVE /\ Answered(Counted(values, metrics), r, ss) = Answered(values, r, ss)
        /\ Answered(values, r, ss) \in Nat
<1>1. \A m : /\ Copies(m, values) \in Nat
             /\ Copies(m, Counted(values, metrics)) = Copies(m, values) + One(m \in metrics)
  BY CountedAdds
<1>2. \A s : Copies(RouteCounter(r, s), Counted(values, metrics))
               = Copies(RouteCounter(r, s), values)
  BY <1>1 DEF One
<1> DEFINE f == [s \in Statuses |-> IF s \in ss THEN Copies(RouteCounter(r, s), values) ELSE 0]
<1>3. f \in [Statuses -> Nat]
  BY <1>1
<1>4. OverStatuses(f) \in Nat
  <2> HIDE DEF f
  <2> QED BY <1>3, OverStatusesAdds, "200" \in Statuses DEF Statuses
<1> QED BY <1>2, <1>4, Zenon DEF Answered

LEMMA HTTPTotalCounts ==
  ASSUME NEW values, Map(values), NEW q, NEW t \in Statuses, NEW r
  PROVE /\ HTTPTotal(values, r) \in Nat
        /\ HTTPTotal(Counted(values, {HTTPRequests(q, t)}), r)
             = HTTPTotal(values, r) + One(q = r)
<1> DEFINE f == [s \in Statuses |-> Copies(HTTPRequests(r, s), values)]
           more == Counted(values, {HTTPRequests(q, t)})
           g == [s \in Statuses |-> Copies(HTTPRequests(r, s), more)]
           n == One(q = r)
<1>1. \A m : /\ Copies(m, values) \in Nat
             /\ Copies(m, more) = Copies(m, values) + One(m \in {HTTPRequests(q, t)})
  BY CountedAdds
<1>2. \A s : HTTPRequests(r, s) \in {HTTPRequests(q, t)} <=> q = r /\ s = t
  BY LabelsTell
<1>3. f \in [Statuses -> Nat] /\ g \in [Statuses -> Nat] /\ n \in Nat
  BY <1>1 DEF One
<1>4. \A s \in Statuses : g[s] = f[s] + (IF s = t THEN n ELSE 0)
  BY <1>1, <1>2 DEF One
<1> HIDE DEF f, g, n
<1>5. OverStatuses(f) \in Nat /\ OverStatuses(g) = OverStatuses(f) + n
  BY <1>3, <1>4, OverStatusesAdds
<1> QED BY <1>5 DEF HTTPTotal, f, g, n

LEMMA HTTPTotalStays ==
  ASSUME NEW values, Map(values), NEW metrics, NEW r,
         \A s : HTTPRequests(r, s) \notin metrics
  PROVE HTTPTotal(Counted(values, metrics), r) = HTTPTotal(values, r)
<1>1. \A s : Copies(HTTPRequests(r, s), Counted(values, metrics))
               = Copies(HTTPRequests(r, s), values)
  BY CountedAdds DEF One
<1> QED BY <1>1, Zenon DEF HTTPTotal

\* A new registry has counted nothing, and a page adds up what has been answered.
LEMMA NothingCounted ==
  ASSUME NEW r, NEW ss
  PROVE Answered(NoValues, r, ss) = 0 /\ HTTPTotal(NoValues, r) = 0
<1> DEFINE f == [s \in Statuses |-> IF s \in ss THEN Copies(RouteCounter(r, s), NoValues) ELSE 0]
           g == [s \in Statuses |-> Copies(HTTPRequests(r, s), NoValues)]
<1>1. /\ f \in [Statuses -> Nat] /\ \A s \in Statuses : f[s] = 0
      /\ g \in [Statuses -> Nat] /\ \A s \in Statuses : g[s] = 0
  BY NoValuesRead
<1> HIDE DEF f, g
<1>2. OverStatuses(f) = 0 /\ OverStatuses(g) = 0
  BY <1>1, OverStatusesZero
<1> QED BY <1>2 DEF Answered, HTTPTotal, f, g

LEMMA RouteTotalIsAnswered ==
  ASSUME NEW values, NEW r
  PROVE RouteTotal(values, r) = Answered(values, r, Statuses)
<1>1. [s \in Statuses |-> Copies(RouteCounter(r, s), values)]
        = [s \in Statuses |-> IF s \in Statuses THEN Copies(RouteCounter(r, s), values) ELSE 0]
  OBVIOUS
<1> QED BY <1>1, Zenon DEF RouteTotal, Answered

-----------------------------------------------------------------------------
(* The requests in hand *)

Holds(c, stages, r, ss) == stage[c] \in stages /\ route[c] = r /\ status[c] \in ss
InHand(stages, r, ss) == {c \in Clients : Holds(c, stages, r, ss)}

\* A step that concerns the request of one client only.
Moves(c) == \A d \in Clients \ {c} :
  stage'[d] = stage[d] /\ route'[d] = route[d] /\ status'[d] = status[d] /\ event'[d] = event[d]

\* Two sets that agree on everyone but one client differ by that client.
LEMMA Recount ==
  ASSUME NEW c \in Clients, NEW A \in SUBSET Clients, NEW B \in SUBSET Clients,
         A \ {c} = B \ {c}
  PROVE /\ Cardinality(A) \in Nat /\ Cardinality(B) \in Nat
        /\ Cardinality(B) = Cardinality(A) + One(c \in B) - One(c \in A)
<1>1. IsFiniteSet(A) /\ IsFiniteSet(B)
  BY BoundsAssumption, FS_Subset
<1>2. IsFiniteSet(A \ {c}) /\ Cardinality(A \ {c}) \in Nat
  BY <1>1, FS_RemoveElement, FS_CardinalityType
<1>3. Cardinality(A) \in Nat /\ Cardinality(B) \in Nat
  BY <1>1, FS_CardinalityType
<1>4. \A S \in {A, B} : Cardinality(S \ {c}) = Cardinality(S) - One(c \in S)
  <2> SUFFICES ASSUME NEW S \in {A, B}
               PROVE Cardinality(S \ {c}) = Cardinality(S) - One(c \in S)
    OBVIOUS
  <2>1. CASE c \in S
    BY <2>1, <1>1, FS_RemoveElement DEF One
  <2>2. CASE c \notin S
    <3>1. S \ {c} = S
      BY <2>2
    <3> QED BY <3>1, <2>2, <1>3 DEF One
  <2> QED BY <2>1, <2>2
<1>5. Cardinality(A \ {c}) = Cardinality(A) - One(c \in A)
  BY <1>4
<1>6. Cardinality(A \ {c}) = Cardinality(B) - One(c \in B)
  BY <1>4
<1> QED BY <1>3, <1>5, <1>6 DEF One

LEMMA InHandMoves ==
  ASSUME NEW c \in Clients, Moves(c), NEW stages, NEW r, NEW ss
  PROVE /\ Cardinality(InHand(stages, r, ss)) \in Nat
        /\ Cardinality(InHand(stages, r, ss)') \in Nat
        /\ Cardinality(InHand(stages, r, ss)')
             = Cardinality(InHand(stages, r, ss))
                 + One(Holds(c, stages, r, ss)') - One(Holds(c, stages, r, ss))
<1> DEFINE A == InHand(stages, r, ss)
           B == InHand(stages, r, ss)'
<1>1. A \in SUBSET Clients /\ B \in SUBSET Clients /\ A \ {c} = B \ {c}
  BY DEF InHand, Holds, Moves
<1>2. /\ One(c \in A) = One(Holds(c, stages, r, ss))
      /\ One(c \in B) = One(Holds(c, stages, r, ss)')
  BY DEF InHand, One
<1> HIDE DEF A, B
<1>3. /\ Cardinality(A) \in Nat /\ Cardinality(B) \in Nat
      /\ Cardinality(B) = Cardinality(A) + One(c \in B) - One(c \in A)
  BY <1>1, Recount
<1> QED BY <1>2, <1>3 DEF A, B

LEMMA CountingMoves ==
  ASSUME NEW c \in Clients, Moves(c), NEW e
  PROVE /\ Cardinality(Counting(e)) \in Nat
        /\ Cardinality(Counting(e)') \in Nat
        /\ Cardinality(Counting(e)')
             = Cardinality(Counting(e))
                 + One(stage'[c] = "audited" /\ event'[c] = e)
                 - One(stage[c] = "audited" /\ event[c] = e)
<1> DEFINE A == Counting(e)
           B == Counting(e)'
<1>1. A \in SUBSET Clients /\ B \in SUBSET Clients /\ A \ {c} = B \ {c}
  BY DEF Counting, InFlight, Moves
<1>2. /\ One(c \in A) = One(stage[c] = "audited" /\ event[c] = e)
      /\ One(c \in B) = One(stage'[c] = "audited" /\ event'[c] = e)
  BY DEF Counting, InFlight, One
<1> HIDE DEF A, B
<1>3. /\ Cardinality(A) \in Nat /\ Cardinality(B) \in Nat
      /\ Cardinality(B) = Cardinality(A) + One(c \in B) - One(c \in A)
  BY <1>1, Recount
<1> QED BY <1>2, <1>3 DEF A, B

-----------------------------------------------------------------------------
(* The invariant *)

Typed ==
  /\ appended \in [Events -> Nat]
  /\ Map(counters)
  /\ Map(latencies)
  /\ stage \in [Clients -> Stages]
  /\ route \in [Clients -> Routes \cup {RouteUnknown}]
  /\ status \in [Clients -> Statuses \cup {"none"}]
  /\ event \in [Clients -> Events \cup {NoEvent}]

Underway == \A c \in Clients :
  /\ stage[c] \in {"append", "audited"} =>
       <<event[c], status[c]>> \in Endings(route[c]) /\ event[c] # NoEvent
  /\ stage[c] \in {"count", "observe", "route", "special"} => status[c] \in Statuses

\* An outcome that tells of an event is told after the event has been counted.
EventsFirst == \A e \in Events :
  Answered(counters, RouteOf(e), ProvenBy(e))
      + Cardinality(InHand({"count", "observe", "route"}, RouteOf(e), ProvenBy(e)))
    <= Copies(AuditEvents(e), counters)

\* Denials of trust and updates of revocations come after their route's own counter.
RouteFirst ==
  /\ Copies(TrustDenied, counters) + Cardinality(InHand({"special"}, RouteResolve, {"403"}))
       <= Copies(RouteCounter(RouteResolve, "403"), counters)
  /\ Copies(RevocationUpdates, counters)
         + Cardinality(InHand({"special"}, RouteAdminRevocation, {"200"}))
       <= Copies(RouteCounter(RouteAdminRevocation, "200"), counters)

\* That counter comes after the latency, and the latency after the counter of all.
LatencyFirst == \A r \in Protected :
  Answered(counters, r, Statuses) + Cardinality(InHand({"route"}, r, Statuses))
    <= Copies(r, latencies)

HTTPFirst == \A r \in Routes :
  Copies(r, latencies) + Cardinality(InHand({"observe"}, r, Statuses)) <= HTTPTotal(counters, r)

\* What the counter of an event misses.
Missed(e) == appended[e] - Copies(AuditEvents(e), counters) - Cardinality(Counting(e))
Failed(r) ==
  Cardinality(InHand({"count"}, r, {"500"})) + Copies(HTTPRequests(r, "500"), counters)

Followed ==
  /\ \A e \in Events : 0 <= Missed(e)
  /\ Missed("agent.registered") <= Failed(RouteRegister)
  /\ Missed("resolve.allowed") + Missed("resolve.denied") + Missed("trust.denied")
       <= Failed(RouteResolve)
  /\ Missed("credential.revocation.updated") <= Failed(RouteAdminRevocation)

IInv ==
  /\ Typed /\ Underway
  /\ EventsFirst /\ RouteFirst /\ LatencyFirst /\ HTTPFirst
  /\ Followed /\ PageIsConsistent

-----------------------------------------------------------------------------
(* What a service ends with, and what a request is refused with *)

LEMMA EndingsTell ==
  ASSUME NEW r, NEW ending \in Endings(r)
  PROVE /\ ending = <<ending[1], ending[2]>>
        /\ ending[1] \in Events \cup {NoEvent} /\ ending[2] \in Statuses
        /\ ending[1] # NoEvent => ending[1] \in Events /\ r = RouteOf(ending[1])
        /\ \A e \in Events : r = RouteOf(e) /\ ending[2] \in ProvenBy(e) => ending[1] = e
<1>1. /\ NoEvent \notin Events
      /\ \A e \in Events :
           \/ e = "agent.registered" /\ RouteOf(e) = RouteRegister /\ ProvenBy(e) = {"200"}
           \/ e = "resolve.allowed" /\ RouteOf(e) = RouteResolve /\ ProvenBy(e) = {"200"}
           \/ e = "resolve.denied" /\ RouteOf(e) = RouteResolve /\ ProvenBy(e) = {"404", "410"}
           \/ e = "trust.denied" /\ RouteOf(e) = RouteResolve /\ ProvenBy(e) = {"403"}
           \/ /\ e = "credential.revocation.updated"
              /\ RouteOf(e) = RouteAdminRevocation /\ ProvenBy(e) = {"200"}
  BY DEF Events, Denials, NoEvent, RouteOf, ProvenBy
<1>2. /\ RouteRegister # RouteResolve /\ RouteRegister # RouteAdminRevocation
      /\ RouteResolve # RouteAdminRevocation
      /\ \A q \in {RouteRegister, RouteResolve, RouteAdminRevocation} :
           /\ q # RouteAdminAgent /\ q # RouteAdminAudit /\ q # RouteAdminAuditAgent
           /\ q # RouteAdminRevokedID /\ q \notin Probes
  BY DEF RouteRegister, RouteResolve, RouteAdminRevocation, RouteAdminAgent, RouteAdminAudit,
         RouteAdminAuditAgent, RouteAdminRevokedID, Probes
<1>3. /\ {"agent.registered", "resolve.allowed", "resolve.denied", "trust.denied",
           "credential.revocation.updated"} = Events
      /\ {"200", "400", "403", "404", "410", "500"} \subseteq Statuses
  BY DEF Events, Denials, Statuses
<1>4. CASE r = RouteRegister
  <2>1. ending \in {<<NoEvent, "400">>, <<NoEvent, "500">>, <<"agent.registered", "200">>}
    BY <1>2, <1>4 DEF Endings
  <2> QED BY <2>1, <1>1, <1>2, <1>3, <1>4
<1>5. CASE r = RouteResolve
  <2>1. ending \in {<<"resolve.allowed", "200">>, <<"trust.denied", "403">>,
                    <<"resolve.denied", "400">>, <<"resolve.denied", "404">>,
                    <<"resolve.denied", "410">>, <<"resolve.denied", "500">>}
    BY <1>5, <1>2 DEF Endings
  <2> QED BY <2>1, <1>1, <1>2, <1>3, <1>5
<1>6. CASE r = RouteAdminRevocation
  <2>1. ending \in {<<NoEvent, "400">>, <<NoEvent, "500">>,
                    <<"credential.revocation.updated", "200">>}
    BY <1>6, <1>2 DEF Endings
  <2> QED BY <2>1, <1>1, <1>2, <1>3, <1>6
<1>7. CASE r \notin {RouteRegister, RouteResolve, RouteAdminRevocation}
  <2>1. ending \in {NoEvent} \X {"200", "400", "404", "500"}
    BY <1>7 DEF Endings
  <2> QED BY <2>1, <1>1, <1>3, <1>7
<1> QED BY <1>4, <1>5, <1>6, <1>7

LEMMA RefusalsTell ==
  ASSUME NEW r, NEW s \in Refusals(r)
  PROVE /\ s \in Statuses
        /\ \A e \in Events : ~(r = RouteOf(e) /\ s \in ProvenBy(e))
BY DEF Refusals, Statuses, RouteOf, ProvenBy, Events, Denials, RouteUnknown, RouteAdminAgent,
       RouteAdminAuditAgent, RouteAdminRevokedID, RouteRegister, RouteResolve,
       RouteAdminRevocation

\* The events have the routes of three services, each with a counter of its own.
LEMMA RoutesOfEvents ==
  /\ \A e \in Events : RouteOf(e) \in Protected /\ RouteOf(e) # RouteMetrics
  /\ \A e \in Events : "500" \notin ProvenBy(e)
BY DEF Events, Denials, RouteOf, ProvenBy, Protected, AdminRoutes, RouteMetrics, RouteRegister,
       RouteResolve, RouteAdminRevocation

-----------------------------------------------------------------------------
(* Every step is of one client's request *)

Step(c) ==
  \/ \E r \in Routes : Receive(c, r)
  \/ \E s \in Refusals(route[c]) : Refuse(c, s)
  \/ \E ending \in Endings(route[c]) : Serve(c, ending)
  \/ Render(c)
  \/ AppendAcknowledged(c) \/ AppendFailed(c) \/ IncAuditEvents(c)
  \/ IncHTTPRequests(c) \/ ObserveHTTPRequest(c) \/ CountRoute(c) \/ CountSpecial(c)

LEMMA StepMoves ==
  ASSUME Typed, NEW c \in Clients, Step(c)
  PROVE Moves(c)
BY DEF Step, Moves, Typed, Receive, Refuse, Serve, Render, AppendAcknowledged, AppendFailed,
       IncAuditEvents, IncHTTPRequests, ObserveHTTPRequest, CountRoute, CountSpecial, Goto

LEMMA TypedStep ==
  ASSUME Typed, Underway, NEW c \in Clients, Step(c)
  PROVE Typed'
<1> USE DEF Typed
<1>0. "none" \in Statuses \cup {"none"} /\ {"200", "500"} \subseteq Statuses
  BY DEF Statuses
<1>1. {"idle", "serve", "append", "audited", "count", "observe", "route", "special"} = Stages
  BY DEF Stages
<1>2. ASSUME NEW r \in Routes, Receive(c, r) PROVE Typed'
  BY <1>2, <1>1 DEF Receive, Goto
<1>3. ASSUME NEW s \in Refusals(route[c]), Refuse(c, s) PROVE Typed'
  BY <1>3, <1>1, RefusalsTell DEF Refuse, Goto
<1>4. ASSUME NEW ending \in Endings(route[c]), Serve(c, ending) PROVE Typed'
  BY <1>4, <1>1, EndingsTell DEF Serve, Goto
<1>5. CASE Render(c)
  BY <1>5, <1>0, <1>1 DEF Render, Goto
<1>6. CASE AppendAcknowledged(c) \/ AppendFailed(c)
  <2>1. event[c] \in Events
    BY <1>6, EndingsTell DEF Underway, AppendAcknowledged, AppendFailed
  <2>2. appended' \in [Events -> Nat]
    BY <1>6, <2>1 DEF AppendAcknowledged, AppendFailed
  <2> QED BY <1>6, <1>0, <1>1, <2>2 DEF AppendAcknowledged, AppendFailed, Goto
<1>7. CASE IncAuditEvents(c) \/ IncHTTPRequests(c) \/ CountRoute(c) \/ CountSpecial(c)
  <2>1. Map(counters')
    BY <1>7, CountedAdds DEF IncAuditEvents, IncHTTPRequests, CountRoute, CountSpecial, Add
  <2>2. stage' \in [Clients -> Stages]
    BY <1>7, <1>1 DEF IncAuditEvents, IncHTTPRequests, CountRoute, CountSpecial, Goto
  <2>3. UNCHANGED <<appended, latencies>>
    BY <1>7 DEF IncAuditEvents, IncHTTPRequests, CountRoute, CountSpecial
  <2>4. /\ route' \in [Clients -> Routes \cup {RouteUnknown}]
        /\ status' \in [Clients -> Statuses \cup {"none"}]
        /\ event' \in [Clients -> Events \cup {NoEvent}]
    BY <1>7 DEF IncAuditEvents, IncHTTPRequests, CountRoute, CountSpecial
  <2> QED BY <2>1, <2>2, <2>3, <2>4 DEF Map
<1>8. CASE ObserveHTTPRequest(c)
  <2>1. Map(latencies')
    BY <1>8, CountedAdds DEF ObserveHTTPRequest
  <2> QED BY <1>8, <1>1, <2>1 DEF ObserveHTTPRequest, Goto, Map
<1> QED BY <1>2, <1>3, <1>4, <1>5, <1>6, <1>7, <1>8 DEF Step

LEMMA UnderwayStep ==
  ASSUME Typed, Underway, NEW c \in Clients, Step(c)
  PROVE Underway'
<1> SUFFICES ASSUME NEW d \in Clients
             PROVE /\ stage'[d] \in {"append", "audited"} =>
                        <<event'[d], status'[d]>> \in Endings(route'[d]) /\ event'[d] # NoEvent
                   /\ stage'[d] \in {"count", "observe", "route", "special"} =>
                        status'[d] \in Statuses
  BY DEF Underway
<1>1. CASE d # c
  BY <1>1, StepMoves DEF Moves, Underway
<1>2. CASE d = c
  <2> USE <1>2 DEF Typed, Underway, Goto
  <2>1. ASSUME NEW r \in Routes, Receive(c, r) PROVE stage'[c] = "serve"
    BY <2>1 DEF Receive
  <2>2. ASSUME NEW s \in Refusals(route[c]), Refuse(c, s)
        PROVE stage'[c] = "count" /\ status'[c] \in Statuses
    BY <2>2, RefusalsTell DEF Refuse
  <2>3. ASSUME NEW ending \in Endings(route[c]), Serve(c, ending)
        PROVE /\ stage'[c] = IF event'[c] = NoEvent THEN "count" ELSE "append"
              /\ <<event'[c], status'[c]>> \in Endings(route'[c])
              /\ status'[c] \in Statuses
    BY <2>3, EndingsTell DEF Serve
  <2>4. ASSUME Render(c) \/ AppendFailed(c)
        PROVE stage'[c] = "count" /\ status'[c] \in Statuses
    BY <2>4 DEF Render, AppendFailed, Statuses
  <2>5. ASSUME AppendAcknowledged(c)
        PROVE stage[c] = "append" /\ stage'[c] = "audited" /\ UNCHANGED <<route, status, event>>
    BY <2>5 DEF AppendAcknowledged
  <2>6. ASSUME IncAuditEvents(c)
        PROVE /\ stage[c] = "audited" /\ stage'[c] = "count"
              /\ UNCHANGED <<route, status, event>>
    BY <2>6 DEF IncAuditEvents
  <2>7. ASSUME IncHTTPRequests(c) \/ ObserveHTTPRequest(c) \/ CountRoute(c)
        PROVE /\ stage[c] \in {"count", "observe", "route"}
              /\ stage'[c] \in {"observe", "route", "special"} /\ UNCHANGED status
    BY <2>7 DEF IncHTTPRequests, ObserveHTTPRequest, CountRoute
  <2>8. ASSUME CountSpecial(c) PROVE stage'[c] = "idle"
    BY <2>8 DEF CountSpecial
  <2>9. ASSUME stage[c] = "audited" PROVE status[c] \in Statuses
    <3>1. <<event[c], status[c]>> \in Endings(route[c])
      BY <2>9
    <3> QED BY <3>1, EndingsTell
  <2> QED BY <2>1, <2>2, <2>3, <2>4, <2>5, <2>6, <2>7, <2>8, <2>9 DEF Step
<1> QED BY <1>1, <1>2

-----------------------------------------------------------------------------
(* Where a step takes a request, and what it counts *)

LEMMA StageMoves ==
  ASSUME Typed, Underway, NEW c \in Clients, Step(c)
  PROVE /\ stage[c] \in Stages
        /\ stage[c] = "idle" => stage'[c] = "serve"
        /\ stage[c] = "serve" =>
             /\ stage'[c] \in {"append", "count"} /\ route' = route
             /\ stage'[c] = "count" =>
                  \A e \in Events : ~(route[c] = RouteOf(e) /\ status'[c] \in ProvenBy(e))
        /\ stage[c] = "append" =>
             /\ stage'[c] \in {"audited", "count"} /\ UNCHANGED <<route, event>>
             /\ stage'[c] = "count" => status'[c] = "500"
        /\ stage[c] = "audited" => stage'[c] = "count"
        /\ stage[c] = "count" => stage'[c] = "observe"
        /\ stage[c] = "observe" => stage'[c] = "route"
        /\ stage[c] = "route" => stage'[c] = "special"
        /\ stage[c] = "special" => stage'[c] = "idle"
        /\ stage[c] \in {"audited", "count", "observe", "route"} =>
             UNCHANGED <<route, status, event>>
<1> USE DEF Typed, Goto
<1>1. ASSUME NEW r \in Routes, Receive(c, r)
      PROVE stage[c] = "idle" /\ stage'[c] = "serve"
  BY <1>1 DEF Receive
<1>2. ASSUME NEW s \in Refusals(route[c]), Refuse(c, s)
      PROVE /\ stage[c] = "serve" /\ stage'[c] = "count" /\ route' = route
            /\ \A e \in Events : ~(route[c] = RouteOf(e) /\ status'[c] \in ProvenBy(e))
  BY <1>2, RefusalsTell DEF Refuse
<1>3. ASSUME NEW ending \in Endings(route[c]), Serve(c, ending)
      PROVE /\ stage[c] = "serve" /\ stage'[c] \in {"append", "count"} /\ route' = route
            /\ stage'[c] = "count" =>
                 \A e \in Events : ~(route[c] = RouteOf(e) /\ status'[c] \in ProvenBy(e))
  <2>1. /\ stage[c] = "serve" /\ route' = route /\ status'[c] = ending[2]
        /\ stage'[c] = IF ending[1] = NoEvent THEN "count" ELSE "append"
    BY <1>3 DEF Serve
  <2>2. NoEvent \notin Events
    BY DEF NoEvent, Events, Denials
  <2>3. \A e \in Events : route[c] = RouteOf(e) /\ ending[2] \in ProvenBy(e) => ending[1] = e
    BY EndingsTell
  <2> QED BY <2>1, <2>2, <2>3
<1>4. ASSUME Render(c)
      PROVE /\ stage[c] = "serve" /\ stage'[c] = "count" /\ route' = route
            /\ \A e \in Events : ~(route[c] = RouteOf(e) /\ status'[c] \in ProvenBy(e))
  BY <1>4, RoutesOfEvents DEF Render
<1>5. ASSUME AppendAcknowledged(c) \/ AppendFailed(c)
      PROVE /\ stage[c] = "append"
            /\ stage'[c] \in {"audited", "count"} /\ UNCHANGED <<route, event>>
            /\ stage'[c] = "count" => status'[c] = "500"
  BY <1>5 DEF AppendAcknowledged, AppendFailed
<1>6. ASSUME IncAuditEvents(c)
      PROVE /\ stage[c] = "audited" /\ stage'[c] = "count"
            /\ UNCHANGED <<route, status, event>>
  BY <1>6 DEF IncAuditEvents
<1>7. ASSUME IncHTTPRequests(c)
      PROVE /\ stage[c] = "count" /\ stage'[c] = "observe"
            /\ UNCHANGED <<route, status, event>>
  BY <1>7 DEF IncHTTPRequests
<1>8. ASSUME ObserveHTTPRequest(c)
      PROVE /\ stage[c] = "observe" /\ stage'[c] = "route"
            /\ UNCHANGED <<route, status, event>>
  BY <1>8 DEF ObserveHTTPRequest
<1>9. ASSUME CountRoute(c)
      PROVE /\ stage[c] = "route" /\ stage'[c] = "special"
            /\ UNCHANGED <<route, status, event>>
  BY <1>9 DEF CountRoute
<1>10. ASSUME CountSpecial(c)
       PROVE stage[c] = "special" /\ stage'[c] = "idle"
  BY <1>10 DEF CountSpecial
<1>11. stage[c] \in Stages
  OBVIOUS
<1> QED BY <1>1, <1>2, <1>3, <1>4, <1>5, <1>6, <1>7, <1>8, <1>9, <1>10, <1>11 DEF Step

\* The metrics a step of a client adds to, by the stage its request is in.
Added(c) ==
  CASE stage[c] = "audited" -> {AuditEvents(event[c])}
    [] stage[c] = "count" -> {HTTPRequests(route[c], status[c])}
    [] stage[c] = "route" -> RouteMetric(route[c], status[c])
    [] stage[c] = "special" -> SpecialMetric(route[c], status[c])
    [] OTHER -> {}

LEMMA StepAdds ==
  ASSUME Typed, NEW c \in Clients, Step(c)
  PROVE /\ \/ counters' = Counted(counters, Added(c))
           \/ counters' = counters /\ Added(c) = {}
        /\ \/ stage[c] = "observe" /\ latencies' = Counted(latencies, {route[c]})
           \/ stage[c] # "observe" /\ latencies' = latencies
        /\ \/ page' = page
           \/ page' = [counters |-> counters, latencies |-> latencies]
BY DEF Step, Added, Add, Receive, Refuse, Serve, Render, AppendAcknowledged, AppendFailed,
       IncAuditEvents, IncHTTPRequests, ObserveHTTPRequest, CountRoute, CountSpecial

LEMMA CopiesMove ==
  ASSUME Typed, NEW c \in Clients, Step(c)
  PROVE /\ \A m : /\ Copies(m, counters) \in Nat
                  /\ Copies(m, counters)' = Copies(m, counters) + One(m \in Added(c))
        /\ \A r : /\ Copies(r, latencies) \in Nat
                  /\ Copies(r, latencies)'
                       = Copies(r, latencies) + One(stage[c] = "observe" /\ route[c] = r)
<1>1. Map(counters) /\ Map(latencies)
  BY DEF Typed
<1>2. \A m : /\ Copies(m, counters) \in Nat
             /\ Copies(m, Counted(counters, Added(c)))
                  = Copies(m, counters) + One(m \in Added(c))
  BY <1>1, CountedAdds
<1>3. \A r : /\ Copies(r, latencies) \in Nat
             /\ Copies(r, Counted(latencies, {route[c]}))
                  = Copies(r, latencies) + One(r \in {route[c]})
  BY <1>1, CountedAdds
<1>4. \A m : Copies(m, counters') = Copies(m, counters) + One(m \in Added(c))
  <2>1. CASE counters' = Counted(counters, Added(c))
    BY <2>1, <1>2
  <2>2. CASE counters' = counters /\ Added(c) = {}
    BY <2>2, <1>2 DEF One
  <2> QED BY <2>1, <2>2, StepAdds
<1>5. \A r : Copies(r, latencies')
               = Copies(r, latencies) + One(stage[c] = "observe" /\ route[c] = r)
  BY <1>3, StepAdds DEF One
<1> QED BY <1>2, <1>3, <1>4, <1>5

\* A metric is added to by a request with its labels in the stage that counts it.
LEMMA AddedIs ==
  ASSUME NEW c
  PROVE /\ \A e : AuditEvents(e) \in Added(c) <=> stage[c] = "audited" /\ event[c] = e
        /\ \A r, s : HTTPRequests(r, s) \in Added(c)
             <=> stage[c] = "count" /\ route[c] = r /\ status[c] = s
        /\ \A r \in Protected : \A s : RouteCounter(r, s) \in Added(c)
             <=> stage[c] = "route" /\ route[c] = r /\ status[c] = s
        /\ TrustDenied \in Added(c)
             <=> stage[c] = "special" /\ route[c] = RouteResolve /\ status[c] = "403"
        /\ RevocationUpdates \in Added(c)
             <=> stage[c] = "special" /\ route[c] = RouteAdminRevocation /\ status[c] = "200"
<1> DEFINE St == stage[c]
           Ro == route[c]
           Ss == status[c]
           Ev == event[c]
<1>1. \A e, r, s : /\ AuditEvents(e) \notin SpecialMetric(Ro, Ss)
                   /\ AuditEvents(e) \notin RouteMetric(Ro, Ss)
                   /\ HTTPRequests(r, s) \notin SpecialMetric(Ro, Ss)
                   /\ HTTPRequests(r, s) \notin RouteMetric(Ro, Ss)
                   /\ RouteCounter(r, s) \notin SpecialMetric(Ro, Ss)
                   /\ RouteCounter(r, s) # AuditEvents(e)
                   /\ HTTPRequests(r, s) # AuditEvents(e)
                   /\ RouteCounter(r, s) # HTTPRequests(Ro, Ss)
  BY KindsDiffer DEF SpecialMetric, RouteMetric
<1>2. \A r \in Protected : \A s : RouteCounter(r, s) \in RouteMetric(Ro, Ss) <=> Ro = r /\ Ss = s
  BY RouteCountersDiffer DEF RouteMetric
<1>3. /\ TrustDenied \in SpecialMetric(Ro, Ss) <=> Ro = RouteResolve /\ Ss = "403"
      /\ RevocationUpdates \in SpecialMetric(Ro, Ss) <=> Ro = RouteAdminRevocation /\ Ss = "200"
  BY KindsDiffer DEF SpecialMetric, RouteResolve, RouteAdminRevocation
<1>4. /\ TrustDenied \notin RouteMetric(Ro, Ss) /\ RevocationUpdates \notin RouteMetric(Ro, Ss)
      /\ \A m \in {TrustDenied, RevocationUpdates} :
           m # AuditEvents(Ev) /\ m # HTTPRequests(Ro, Ss)
  BY KindsDiffer DEF RouteMetric
<1>5. /\ St = "audited" => Added(c) = {AuditEvents(Ev)}
      /\ St = "count" => Added(c) = {HTTPRequests(Ro, Ss)}
      /\ St = "route" => Added(c) = RouteMetric(Ro, Ss)
      /\ St = "special" => Added(c) = SpecialMetric(Ro, Ss)
      /\ St \notin {"audited", "count", "route", "special"} => Added(c) = {}
  BY DEF Added
<1> HIDE DEF St, Ro, Ss, Ev
<1>6. /\ \A e : AuditEvents(e) \in Added(c) <=> St = "audited" /\ Ev = e
      /\ \A r, s : HTTPRequests(r, s) \in Added(c) <=> St = "count" /\ Ro = r /\ Ss = s
  BY <1>1, <1>5, LabelsTell
<1>7. \A r \in Protected : \A s :
        RouteCounter(r, s) \in Added(c) <=> St = "route" /\ Ro = r /\ Ss = s
  BY <1>1, <1>2, <1>5
<1>8. /\ TrustDenied \in Added(c) <=> St = "special" /\ Ro = RouteResolve /\ Ss = "403"
      /\ RevocationUpdates \in Added(c)
           <=> St = "special" /\ Ro = RouteAdminRevocation /\ Ss = "200"
  BY <1>3, <1>4, <1>5
<1> QED BY <1>6, <1>7, <1>8 DEF St, Ro, Ss, Ev

LEMMA TotalsMove ==
  ASSUME Typed, Underway, NEW c \in Clients, Step(c)
  PROVE /\ \A r \in Protected : \A ss :
             /\ Answered(counters, r, ss) \in Nat
             /\ Answered(counters, r, ss)' = Answered(counters, r, ss)
                  + One(stage[c] = "route" /\ route[c] = r /\ status[c] \in ss)
        /\ \A r : /\ HTTPTotal(counters, r) \in Nat
                  /\ HTTPTotal(counters, r)' = HTTPTotal(counters, r)
                       + One(stage[c] = "count" /\ route[c] = r)
<1>1. Map(counters)
  BY DEF Typed
<1>2. stage[c] \in {"count", "route"} => status[c] \in Statuses
  BY DEF Underway
<1>3. ASSUME NEW r \in Protected, NEW ss
      PROVE /\ Answered(counters, r, ss) \in Nat
            /\ Answered(counters', r, ss) = Answered(counters, r, ss)
                 + One(stage[c] = "route" /\ route[c] = r /\ status[c] \in ss)
  <2>1. Answered(counters, r, ss) \in Nat
    <3>1. "200" \in Statuses
      BY DEF Statuses
    <3> QED BY <1>1, <3>1, AnsweredCounts
  <2>2. CASE counters' = counters /\ Added(c) = {}
    <3>1. ~(stage[c] = "route" /\ route[c] = r)
      BY <2>2, AddedIs
    <3> QED BY <2>1, <2>2, <3>1 DEF One
  <2>3. CASE /\ counters' = Counted(counters, Added(c))
             /\ stage[c] = "route" /\ route[c] \in Protected
    <3>1. Added(c) = RouteMetric(route[c], status[c])
      BY <2>3 DEF Added
    <3>2. Answered(Counted(counters, RouteMetric(route[c], status[c])), r, ss)
            = Answered(counters, r, ss) + One(route[c] = r /\ status[c] \in ss)
      BY <1>1, <1>2, <2>3, AnsweredCounts
    <3> QED BY <2>1, <2>3, <3>1, <3>2
  <2>4. CASE /\ counters' = Counted(counters, Added(c))
             /\ ~(stage[c] = "route" /\ route[c] \in Protected)
    <3>1. \A s : RouteCounter(r, s) \notin Added(c)
      BY <2>4, AddedIs
    <3>2. Answered(counters', r, ss) = Answered(counters, r, ss)
      BY <1>1, <2>4, <3>1, AnsweredStays
    <3>3. ~(stage[c] = "route" /\ route[c] = r)
      BY <2>4
    <3> QED BY <2>1, <3>2, <3>3 DEF One
  <2> QED BY <2>2, <2>3, <2>4, StepAdds
<1>4. ASSUME NEW r
      PROVE /\ HTTPTotal(counters, r) \in Nat
            /\ HTTPTotal(counters', r) = HTTPTotal(counters, r)
                 + One(stage[c] = "count" /\ route[c] = r)
  <2>1. HTTPTotal(counters, r) \in Nat
    <3>1. "200" \in Statuses
      BY DEF Statuses
    <3> QED BY <1>1, <3>1, HTTPTotalCounts
  <2>2. CASE counters' = counters /\ Added(c) = {}
    <3>1. stage[c] # "count"
      BY <2>2, AddedIs
    <3> QED BY <2>1, <2>2, <3>1 DEF One
  <2>3. CASE counters' = Counted(counters, Added(c)) /\ stage[c] = "count"
    <3>1. Added(c) = {HTTPRequests(route[c], status[c])}
      BY <2>3 DEF Added
    <3>2. HTTPTotal(Counted(counters, {HTTPRequests(route[c], status[c])}), r)
            = HTTPTotal(counters, r) + One(route[c] = r)
      BY <1>1, <1>2, <2>3, HTTPTotalCounts
    <3> QED BY <2>1, <2>3, <3>1, <3>2 DEF One
  <2>4. CASE counters' = Counted(counters, Added(c)) /\ stage[c] # "count"
    <3>1. \A s : HTTPRequests(r, s) \notin Added(c)
      BY <2>4, AddedIs
    <3>2. HTTPTotal(counters', r) = HTTPTotal(counters, r)
      BY <1>1, <2>4, <3>1, HTTPTotalStays
    <3> QED BY <2>1, <2>4, <3>2 DEF One
  <2> QED BY <2>2, <2>3, <2>4, StepAdds
<1> QED BY <1>3, <1>4

-----------------------------------------------------------------------------
(* The invariant is kept *)

LEMMA EventsFirstStep ==
  ASSUME Typed, Underway, EventsFirst, NEW c \in Clients, Step(c)
  PROVE EventsFirst'
<1> SUFFICES ASSUME NEW e \in Events
             PROVE Answered(counters, RouteOf(e), ProvenBy(e))'
                       + Cardinality(InHand({"count", "observe", "route"},
                                            RouteOf(e), ProvenBy(e))')
                     <= Copies(AuditEvents(e), counters)'
  BY DEF EventsFirst
<1> DEFINE r == RouteOf(e)
           ss == ProvenBy(e)
           S == {"count", "observe", "route"}
           T == Answered(counters, r, ss)
           H == Cardinality(InHand(S, r, ss))
           A == Copies(AuditEvents(e), counters)
           before == Holds(c, S, r, ss)
           after == Holds(c, S, r, ss)'
           told == stage[c] = "route" /\ route[c] = r /\ status[c] \in ss
           counted == stage[c] = "audited" /\ event[c] = e
<1>1. T + H <= A
  BY DEF EventsFirst
<1>2. T \in Nat /\ T' = T + One(told)
  BY TotalsMove, RoutesOfEvents
<1>3. A \in Nat /\ A' = A + One(counted)
  BY CopiesMove, AddedIs DEF One
<1>4. H \in Nat /\ H' \in Nat /\ H' = H + One(after) - One(before)
  BY StepMoves, InHandMoves
<1>5. told => before /\ ~after
  BY StageMoves DEF Holds
<1>6. after => before \/ counted
  <2>1. ASSUME stage[c] = "audited", route[c] = r, status[c] \in ss PROVE event[c] = e
    <3>1. <<event[c], status[c]>> \in Endings(route[c])
      BY <2>1 DEF Underway
    <3> QED BY <2>1, <3>1, EndingsTell
  <2>2. ASSUME stage[c] = "append", stage'[c] = "count" PROVE status'[c] \notin ss
    BY <2>2, StageMoves, RoutesOfEvents
  <2>3. ASSUME stage[c] = "serve", stage'[c] = "count", route'[c] = r PROVE status'[c] \notin ss
    BY <2>3, StageMoves
  <2> QED BY <2>1, <2>2, <2>3, StageMoves DEF Holds, Stages
<1> HIDE DEF T, H, A, before, after, told, counted
<1>7. T' + H' <= A'
  BY <1>1, <1>2, <1>3, <1>4, <1>5, <1>6 DEF One
<1> QED BY <1>7 DEF T, H, A

LEMMA RouteFirstStep ==
  ASSUME Typed, Underway, RouteFirst, NEW c \in Clients, Step(c)
  PROVE RouteFirst'
<1>1. ASSUME NEW m, NEW r \in Protected, NEW s \in Statuses,
             m \in Added(c) <=> stage[c] = "special" /\ route[c] = r /\ status[c] = s,
             Copies(m, counters) + Cardinality(InHand({"special"}, r, {s}))
               <= Copies(RouteCounter(r, s), counters)
      PROVE Copies(m, counters)' + Cardinality(InHand({"special"}, r, {s})')
              <= Copies(RouteCounter(r, s), counters)'
  <2> DEFINE D == Copies(m, counters)
             H == Cardinality(InHand({"special"}, r, {s}))
             A == Copies(RouteCounter(r, s), counters)
             before == Holds(c, {"special"}, r, {s})
             after == Holds(c, {"special"}, r, {s})'
             told == m \in Added(c)
             counted == stage[c] = "route" /\ route[c] = r /\ status[c] = s
  <2>1. D \in Nat /\ D' = D + One(told)
    BY CopiesMove
  <2>2. A \in Nat /\ A' = A + One(counted)
    BY CopiesMove, AddedIs DEF One
  <2>3. H \in Nat /\ H' \in Nat /\ H' = H + One(after) - One(before)
    BY StepMoves, InHandMoves
  <2>4. told => before /\ ~after
    BY <1>1, StageMoves DEF Holds
  <2>5. after => counted
    BY StageMoves DEF Holds, Stages
  <2>6. D + H <= A
    BY <1>1
  <2> HIDE DEF D, H, A, before, after, told, counted
  <2>7. D' + H' <= A'
    BY <2>1, <2>2, <2>3, <2>4, <2>5, <2>6 DEF One
  <2> QED BY <2>7 DEF D, H, A
<1>2. /\ RouteResolve \in Protected /\ RouteAdminRevocation \in Protected
      /\ "403" \in Statuses /\ "200" \in Statuses
  BY DEF Protected, AdminRoutes, Statuses
<1>3. (Copies(TrustDenied, counters) + Cardinality(InHand({"special"}, RouteResolve, {"403"}))
         <= Copies(RouteCounter(RouteResolve, "403"), counters))'
  BY <1>1, <1>2, AddedIs DEF RouteFirst
<1>4. (Copies(RevocationUpdates, counters)
           + Cardinality(InHand({"special"}, RouteAdminRevocation, {"200"}))
         <= Copies(RouteCounter(RouteAdminRevocation, "200"), counters))'
  BY <1>1, <1>2, AddedIs DEF RouteFirst
<1> QED BY <1>3, <1>4 DEF RouteFirst

LEMMA LatencyFirstStep ==
  ASSUME Typed, Underway, LatencyFirst, NEW c \in Clients, Step(c)
  PROVE LatencyFirst'
<1> SUFFICES ASSUME NEW r \in Protected
             PROVE Answered(counters, r, Statuses)'
                       + Cardinality(InHand({"route"}, r, Statuses)')
                     <= Copies(r, latencies)'
  BY DEF LatencyFirst
<1> DEFINE T == Answered(counters, r, Statuses)
           H == Cardinality(InHand({"route"}, r, Statuses))
           L == Copies(r, latencies)
           before == Holds(c, {"route"}, r, Statuses)
           after == Holds(c, {"route"}, r, Statuses)'
           told == stage[c] = "route" /\ route[c] = r /\ status[c] \in Statuses
           observed == stage[c] = "observe" /\ route[c] = r
<1>1. T + H <= L
  BY DEF LatencyFirst
<1>2. T \in Nat /\ T' = T + One(told)
  BY TotalsMove
<1>3. L \in Nat /\ L' = L + One(observed)
  BY CopiesMove
<1>4. H \in Nat /\ H' \in Nat /\ H' = H + One(after) - One(before)
  BY StepMoves, InHandMoves
<1>5. (told => before /\ ~after) /\ (after => observed)
  BY StageMoves DEF Holds, Stages
<1> HIDE DEF T, H, L, before, after, told, observed
<1>6. T' + H' <= L'
  BY <1>1, <1>2, <1>3, <1>4, <1>5 DEF One
<1> QED BY <1>6 DEF T, H, L

LEMMA HTTPFirstStep ==
  ASSUME Typed, Underway, HTTPFirst, NEW c \in Clients, Step(c)
  PROVE HTTPFirst'
<1> SUFFICES ASSUME NEW r \in Routes
             PROVE Copies(r, latencies)' + Cardinality(InHand({"observe"}, r, Statuses)')
                     <= HTTPTotal(counters, r)'
  BY DEF HTTPFirst
<1> DEFINE L == Copies(r, latencies)
           H == Cardinality(InHand({"observe"}, r, Statuses))
           T == HTTPTotal(counters, r)
           before == Holds(c, {"observe"}, r, Statuses)
           after == Holds(c, {"observe"}, r, Statuses)'
           observed == stage[c] = "observe" /\ route[c] = r
           counted == stage[c] = "count" /\ route[c] = r
<1>1. L + H <= T
  BY DEF HTTPFirst
<1>2. L \in Nat /\ L' = L + One(observed)
  BY CopiesMove
<1>3. T \in Nat /\ T' = T + One(counted)
  BY TotalsMove
<1>4. H \in Nat /\ H' \in Nat /\ H' = H + One(after) - One(before)
  BY StepMoves, InHandMoves
<1>5. (observed => before /\ ~after) /\ (after => counted)
  BY StageMoves DEF Holds, Stages, Underway
<1> HIDE DEF L, H, T, before, after, observed, counted
<1>6. L' + H' <= T'
  BY <1>1, <1>2, <1>3, <1>4, <1>5 DEF One
<1> QED BY <1>6 DEF L, H, T

\* A step that commits an event leaves the request to count it or to fail, and what
\* its counter misses grows by the commits of those that fail only.
LEMMA MissedMoves ==
  ASSUME Typed, Underway, NEW c \in Clients, Step(c)
  PROVE /\ \A e \in Events : Missed(e) \in Int
        /\ \/ \A e \in Events : Missed(e)' = Missed(e)
           \/ /\ stage'[c] = "count" /\ status'[c] = "500"
              /\ event[c] \in Events /\ route'[c] = RouteOf(event[c])
              /\ \A e \in Events : Missed(e)' = Missed(e) + One(e = event[c])
<1>1. ASSUME NEW e \in Events
      PROVE /\ Missed(e) \in Int
            /\ Missed(e)' = Missed(e) + appended'[e] - appended[e]
                              - One(stage'[c] = "audited" /\ event'[c] = e)
  <2> DEFINE A == Copies(AuditEvents(e), counters)
             H == Cardinality(Counting(e))
             counted == stage[c] = "audited" /\ event[c] = e
             after == stage'[c] = "audited" /\ event'[c] = e
  <2>1. A \in Nat /\ A' = A + One(counted)
    BY CopiesMove, AddedIs DEF One
  <2>2. H \in Nat /\ H' \in Nat /\ H' = H + One(after) - One(counted)
    BY StepMoves, CountingMoves
  <2>3. appended[e] \in Nat /\ appended'[e] \in Nat
    BY TypedStep DEF Typed
  <2>4. Missed(e) = appended[e] - A - H /\ Missed(e)' = appended'[e] - A' - H'
    BY DEF Missed
  <2> HIDE DEF A, H, counted, after
  <2>5. /\ Missed(e) \in Int
        /\ Missed(e)' = Missed(e) + appended'[e] - appended[e] - One(after)
    BY <2>1, <2>2, <2>3, <2>4 DEF One
  <2> QED BY <2>5 DEF after
<1>2. CASE AppendAcknowledged(c)
  <2>1. stage'[c] = "audited" /\ event' = event /\ event[c] \in Events
    BY <1>2, EndingsTell DEF AppendAcknowledged, Goto, Typed, Underway
  <2>2. \A e \in Events : appended'[e] = appended[e] + One(e = event[c])
    BY <1>2 DEF AppendAcknowledged, Typed, One
  <2>3. \A e \in Events : appended[e] \in Nat
    BY DEF Typed
  <2>4. \A e \in Events : Missed(e)' = Missed(e)
    BY <1>1, <2>1, <2>2, <2>3 DEF One
  <2> QED BY <1>1, <2>4
<1>3. CASE AppendFailed(c)
  <2>1. <<event[c], status[c]>> \in Endings(route[c]) /\ event[c] # NoEvent
    BY <1>3 DEF AppendFailed, Underway
  <2>2. event[c] \in Events /\ route[c] = RouteOf(event[c])
    BY <2>1, EndingsTell
  <2>3. stage'[c] = "count" /\ status'[c] = "500" /\ route' = route
    BY <1>3 DEF AppendFailed, Goto, Typed
  <2>4. \A e \in Events : appended[e] \in Nat
    BY DEF Typed
  <2>5. CASE appended' = appended
    <3>1. \A e \in Events : Missed(e)' = Missed(e)
      BY <1>1, <2>3, <2>4, <2>5 DEF One
    <3> QED BY <1>1, <3>1
  <2>6. CASE appended' = [appended EXCEPT ![event[c]] = @ + 1]
    <3>1. \A e \in Events : appended'[e] = appended[e] + One(e = event[c])
      BY <2>6 DEF Typed, One
    <3>2. \A e \in Events : Missed(e)' = Missed(e) + One(e = event[c])
      BY <1>1, <2>3, <2>4, <3>1 DEF One
    <3> QED BY <1>1, <2>2, <2>3, <3>2
  <2> QED BY <1>3, <2>5, <2>6 DEF AppendFailed
<1>4. CASE ~AppendAcknowledged(c) /\ ~AppendFailed(c)
  <2>1. appended' = appended
    BY <1>4 DEF Step, Receive, Refuse, Serve, Render, IncAuditEvents, IncHTTPRequests,
                ObserveHTTPRequest, CountRoute, CountSpecial
  <2>2. stage'[c] # "audited"
    BY <1>4 DEF Step, Receive, Refuse, Serve, Render, IncAuditEvents, IncHTTPRequests,
                ObserveHTTPRequest, CountRoute, CountSpecial, Goto, Typed
  <2>3. \A e \in Events : appended[e] \in Nat
    BY DEF Typed
  <2>4. \A e \in Events : Missed(e)' = Missed(e)
    BY <1>1, <2>1, <2>2, <2>3 DEF One
  <2> QED BY <1>1, <2>4
<1> QED BY <1>2, <1>3, <1>4

LEMMA FailedMoves ==
  ASSUME Typed, NEW c \in Clients, Step(c), NEW r
  PROVE /\ Failed(r) \in Nat
        /\ Failed(r)' = Failed(r) + One(stage'[c] = "count" /\ route'[c] = r /\ status'[c] = "500")
<1> DEFINE A == Copies(HTTPRequests(r, "500"), counters)
           H == Cardinality(InHand({"count"}, r, {"500"}))
           counted == stage[c] = "count" /\ route[c] = r /\ status[c] = "500"
           after == stage'[c] = "count" /\ route'[c] = r /\ status'[c] = "500"
<1>1. A \in Nat /\ A' = A + One(counted)
  BY CopiesMove, AddedIs DEF One
<1>2. H \in Nat /\ H' \in Nat /\ H' = H + One(after) - One(counted)
  <2>1. /\ One(Holds(c, {"count"}, r, {"500"})) = One(counted)
        /\ One(Holds(c, {"count"}, r, {"500"})') = One(after)
    BY DEF Holds, One
  <2> QED BY <2>1, StepMoves, InHandMoves
<1> HIDE DEF A, H, counted, after
<1>3. H + A \in Nat /\ H' + A' = H + A + One(after)
  BY <1>1, <1>2 DEF One
<1> QED BY <1>3 DEF Failed, A, H, after

LEMMA FollowedStep ==
  ASSUME Typed, Underway, Followed, NEW c \in Clients, Step(c)
  PROVE Followed'
<1> DEFINE F(r) == One(stage'[c] = "count" /\ route'[c] = r /\ status'[c] = "500")
<1>1. \A r : Failed(r) \in Nat /\ F(r) \in {0, 1} /\ Failed(r)' = Failed(r) + F(r)
  BY FailedMoves DEF One
<1>2. {"agent.registered", "resolve.allowed", "resolve.denied", "trust.denied",
        "credential.revocation.updated"} = Events
  BY DEF Events, Denials
<1>3. \A e \in Events : Missed(e) \in Int
  BY MissedMoves
<1>4. CASE \A e \in Events : Missed(e)' = Missed(e)
  <2> HIDE DEF F
  <2> QED BY <1>1, <1>2, <1>3, <1>4 DEF Followed
<1>5. CASE /\ stage'[c] = "count" /\ status'[c] = "500"
           /\ event[c] \in Events /\ route'[c] = RouteOf(event[c])
           /\ \A e \in Events : Missed(e)' = Missed(e) + One(e = event[c])
  <2>1. F(RouteOf(event[c])) = 1
    BY <1>5 DEF One
  <2>2. /\ event[c] = "agent.registered" => RouteOf(event[c]) = RouteRegister
        /\ event[c] = "credential.revocation.updated"
             => RouteOf(event[c]) = RouteAdminRevocation
        /\ event[c] \in {"resolve.allowed", "resolve.denied", "trust.denied"}
             => RouteOf(event[c]) = RouteResolve
    BY DEF RouteOf
  <2> HIDE DEF F
  <2> QED BY <1>1, <1>2, <1>3, <1>5, <2>1, <2>2 DEF Followed, One
<1> QED BY <1>4, <1>5, MissedMoves

\* A page read at any moment is consistent, for what it adds up was counted first.
LEMMA PageStep ==
  ASSUME Typed, Underway, EventsFirst, RouteFirst, LatencyFirst, HTTPFirst, PageIsConsistent,
         NEW c \in Clients, Step(c)
  PROVE PageIsConsistent'
<1>1. CASE page' = page
  BY <1>1 DEF PageIsConsistent
<1>2. CASE page' = [counters |-> counters, latencies |-> latencies]
  <2>1. OutcomesAreAudited(counters)
    <3> DEFINE v(m) == Copies(m, counters)
    <3>1. \A m : v(m) \in Nat
      BY CopiesMove
    <3>2. \A stages, r, ss : Cardinality(InHand(stages, r, ss)) \in Nat
      BY StepMoves, InHandMoves
    <3>0. ASSUME NEW e \in Events
          PROVE Answered(counters, RouteOf(e), ProvenBy(e)) <= v(AuditEvents(e))
      <4> DEFINE T == Answered(counters, RouteOf(e), ProvenBy(e))
                 H == Cardinality(InHand({"count", "observe", "route"},
                                         RouteOf(e), ProvenBy(e)))
                 A == v(AuditEvents(e))
      <4>1. T + H <= A
        BY DEF EventsFirst
      <4>2. T \in Nat /\ H \in Nat /\ A \in Nat
        BY <3>1, <3>2, TotalsMove, RoutesOfEvents
      <4> HIDE DEF T, H, A
      <4>3. T <= A
        BY <4>1, <4>2
      <4> QED BY <4>3 DEF T, A
    <3>3. \A e \in Events : \A s \in Statuses :
            ProvenBy(e) = {s} => v(RouteCounter(RouteOf(e), s)) <= v(AuditEvents(e))
      <4> SUFFICES ASSUME NEW e \in Events, NEW s \in Statuses, ProvenBy(e) = {s}
                   PROVE v(RouteCounter(RouteOf(e), s)) <= v(AuditEvents(e))
        OBVIOUS
      <4>1. Answered(counters, RouteOf(e), ProvenBy(e)) <= v(AuditEvents(e))
        BY <3>0
      <4>2. Answered(counters, RouteOf(e), {s}) = v(RouteCounter(RouteOf(e), s))
        BY <3>1 DEF Answered, OverStatuses, Statuses
      <4> QED BY <4>1, <4>2
    <3>4. v(RouteCounter(RouteResolve, "404")) + v(RouteCounter(RouteResolve, "410"))
            <= v(AuditEvents("resolve.denied"))
      <4>1. /\ "resolve.denied" \in Events /\ RouteOf("resolve.denied") = RouteResolve
            /\ ProvenBy("resolve.denied") = {"404", "410"}
        BY DEF Events, Denials, RouteOf, ProvenBy
      <4>2. Answered(counters, RouteResolve, {"404", "410"}) <= v(AuditEvents("resolve.denied"))
        BY <3>0, <4>1
      <4>3. Answered(counters, RouteResolve, {"404", "410"})
              = v(RouteCounter(RouteResolve, "404")) + v(RouteCounter(RouteResolve, "410"))
        BY <3>1 DEF Answered, OverStatuses, Statuses
      <4> QED BY <4>2, <4>3
    <3>5. /\ v(TrustDenied) <= v(RouteCounter(RouteResolve, "403"))
          /\ v(RevocationUpdates) <= v(RouteCounter(RouteAdminRevocation, "200"))
      BY <3>1, <3>2 DEF RouteFirst
    <3>6. /\ v(RouteCounter(RouteRegister, "200")) <= v(AuditEvents("agent.registered"))
          /\ v(RouteCounter(RouteResolve, "200")) <= v(AuditEvents("resolve.allowed"))
          /\ v(RouteCounter(RouteResolve, "403")) <= v(AuditEvents("trust.denied"))
          /\ v(RouteCounter(RouteAdminRevocation, "200"))
               <= v(AuditEvents("credential.revocation.updated"))
      <4>1. /\ RouteOf("agent.registered") = RouteRegister
            /\ ProvenBy("agent.registered") = {"200"}
            /\ RouteOf("resolve.allowed") = RouteResolve
            /\ ProvenBy("resolve.allowed") = {"200"}
            /\ RouteOf("trust.denied") = RouteResolve
            /\ ProvenBy("trust.denied") = {"403"}
            /\ RouteOf("credential.revocation.updated") = RouteAdminRevocation
            /\ ProvenBy("credential.revocation.updated") = {"200"}
            /\ {"agent.registered", "resolve.allowed", "trust.denied",
                "credential.revocation.updated"} \subseteq Events
            /\ {"200", "403"} \subseteq Statuses
        BY DEF RouteOf, ProvenBy, Events, Denials, Statuses
      <4> HIDE DEF v
      <4> QED BY <3>3, <4>1
    <3>7. /\ \A s : RouteCounter(RouteRegister, s) = RegistrationRequests(s)
          /\ \A s : RouteCounter(RouteResolve, s) = ResolveRequests(s)
          /\ \A s : RouteCounter(RouteAdminRevocation, s)
                      = AdminRequests(RouteAdminRevocation, s)
      BY DEF RouteCounter, RouteRegister, RouteResolve, RouteAdminRevocation
    <3> QED BY <3>4, <3>5, <3>6, <3>7 DEF OutcomesAreAudited
  <2>2. ASSUME NEW r \in Routes
        PROVE /\ r \in Protected => RouteTotal(counters, r) <= Copies(r, latencies)
              /\ Copies(r, latencies) <= HTTPTotal(counters, r)
    <3>1. \A stages, ss : Cardinality(InHand(stages, r, ss)) \in Nat
      BY StepMoves, InHandMoves
    <3>2. Copies(r, latencies) \in Nat /\ HTTPTotal(counters, r) \in Nat
      BY CopiesMove, TotalsMove
    <3>3. Copies(r, latencies) <= HTTPTotal(counters, r)
      BY <3>1, <3>2 DEF HTTPFirst
    <3>4. ASSUME r \in Protected PROVE Answered(counters, r, Statuses) <= Copies(r, latencies)
      BY <3>1, <3>2, <3>4, TotalsMove DEF LatencyFirst
    <3> QED BY <3>3, <3>4, RouteTotalIsAnswered
  <2>3. page'.counters = counters /\ page'.latencies = latencies
    BY <1>2
  <2> QED BY <2>1, <2>2, <2>3, Zenon DEF PageIsConsistent
<1> QED BY <1>1, <1>2, StepAdds

-----------------------------------------------------------------------------
(* Theorems *)

LEMMA Initially == Init => IInv
<1> SUFFICES ASSUME Init PROVE IInv
  OBVIOUS
<1>1. Typed
  BY NoValuesRead DEF Init, Typed, Map, Stages
<1>2. Underway
  BY DEF Init, Underway
<1>3. \A m : Copies(m, counters) = 0 /\ Copies(m, latencies) = 0
  BY NoValuesRead DEF Init
<1>4. \A stages, r, ss : "idle" \notin stages => Cardinality(InHand(stages, r, ss)) = 0
  <2> SUFFICES ASSUME NEW stages, NEW r, NEW ss, "idle" \notin stages
               PROVE Cardinality(InHand(stages, r, ss)) = 0
    OBVIOUS
  <2>1. InHand(stages, r, ss) = {}
    BY DEF Init, InHand, Holds
  <2> QED BY <2>1, FS_EmptySet
<1>5. \A r, ss : Answered(counters, r, ss) = 0 /\ HTTPTotal(counters, r) = 0
  BY NothingCounted DEF Init
<1>6. EventsFirst /\ RouteFirst /\ LatencyFirst /\ HTTPFirst
  BY <1>3, <1>4, <1>5 DEF EventsFirst, RouteFirst, LatencyFirst, HTTPFirst
<1>7. \A e \in Events : Missed(e) = 0
  <2> SUFFICES ASSUME NEW e \in Events PROVE Missed(e) = 0
    OBVIOUS
  <2>1. Counting(e) = {}
    BY DEF Init, Counting, InFlight
  <2>2. Cardinality(Counting(e)) = 0
    BY <2>1, FS_EmptySet
  <2> QED BY <1>3, <2>2 DEF Init, Missed
<1>8. \A r : Failed(r) = 0
  BY <1>3, <1>4 DEF Failed
<1>9. Followed
  BY <1>7, <1>8 DEF Followed, Events, Denials
<1>10. PageIsConsistent
  <2>1. page.counters = NoValues /\ page.latencies = NoValues
    BY DEF Init
  <2>2. OutcomesAreAudited(NoValues)
    BY NoValuesRead DEF OutcomesAreAudited
  <2>3. \A r : RouteTotal(NoValues, r) = 0 /\ HTTPTotal(NoValues, r) = 0
    BY NothingCounted, RouteTotalIsAnswered
  <2> QED BY <2>1, <2>2, <2>3, NoValuesRead DEF PageIsConsistent
<1> QED BY <1>1, <1>2, <1>6, <1>9, <1>10 DEF IInv

LEMMA Stutters == IInv /\ UNCHANGED vars => IInv'
BY DEF IInv, Typed, Underway, EventsFirst, RouteFirst, LatencyFirst, HTTPFirst, Followed,
       Missed, Failed, PageIsConsistent, InHand, Holds, Counting, InFlight, vars

LEMMA Inductive == IInv /\ [Next]_vars => IInv'
<1>1. ASSUME IInv, NEW c \in Clients, Step(c) PROVE IInv'
  BY <1>1, TypedStep, UnderwayStep, EventsFirstStep, RouteFirstStep, LatencyFirstStep,
     HTTPFirstStep, FollowedStep, PageStep DEF IInv
<1>2. Next => \E c \in Clients : Step(c)
  BY DEF Next, Step
<1> QED BY <1>1, <1>2, Stutters

\* The counters and the requests in hand account for every event and every outcome.
THEOREM Accounted == Spec => []IInv
BY Initially, Inductive, PTL DEF Spec

LEMMA FollowedIsCounterFollowsLog == Followed => CounterFollowsLog
<1>1. \A r : {c \in InFlight({"count"}) : route[c] = r /\ status[c] = "500"}
               = InHand({"count"}, r, {"500"})
  BY DEF InFlight, InHand, Holds
<1> QED BY <1>1 DEF Followed, CounterFollowsLog, Missed, Failed

\* The counter of audit events never tells of an event the log does not have, and every
\* event it misses belongs to a request answered, or about to be, with status 500.
THEOREM CounterFollowsLogAlways == Spec => []CounterFollowsLog
<1>1. IInv => CounterFollowsLog
  BY FollowedIsCounterFollowsLog DEF IInv
<1> QED BY <1>1, Accounted, PTL

\* Every page of /metrics shows outcomes backed by audit events, and no route with more
\* latencies than requests or more requests of its own counter than latencies.
THEOREM PageIsConsistentAlways == Spec => []PageIsConsistent
<1>1. IInv => PageIsConsistent
  BY DEF IInv
<1> QED BY <1>1, Accounted, PTL
============================================================================
