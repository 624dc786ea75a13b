------------------------------ MODULE Resolver ------------------------------
(* Resolve (internal/resolver/service.go): a sequence of reads of the index,  *)
(* the pointer table, a facts file and the revocation table, with no          *)
(* transaction around them, then an append to the audit log.  Registrations,  *)
(* administrators and restarts of the server run between any two reads; they  *)
(* are represented by what the modules about them show: registrations by      *)
(* Publication, which Registration implements over the transactions of        *)
(* LeanIndex.                                                                 *)
(*                                                                            *)
(* A record's agent, pointer and credential set hashes are computed by        *)
(* Register from the agent and the document it names, and files are addressed *)
(* by content, so those three comparisons of Resolve always succeed.          *)
EXTENDS AgentFacts, FiniteSets

CONSTANTS
  Agents,          \* agent ids
  Resolvers,       \* clients, each with one request at a time
  Documents,       \* facts documents, records as AgentFacts describes them
  Bodies,          \* what is signed: records [doc, ttl, key]
  SigningKeys,     \* key pairs the server may run with
  Capabilities,    \* what a request may require
  MaxSeq,          \* the largest sequence
  TicksPerSecond,  \* the clock is finer than the seconds TTLs are given in
  MaxTime,         \* bound: the latest time
  MaxRequests,     \* bound: requests made
  MaxCommits,      \* bound: registrations that commit a record
  BlankAgent,      \* an agent id that NormalizeAgentID refuses
  NoRow            \* an agent without a row

ASSUME BoundsAssumption ==
  MaxSeq \in Nat /\ MaxTime \in Nat /\ MaxRequests \in Nat /\ MaxCommits \in Nat
  /\ TicksPerSecond \in Nat \ {0}

Credentials == UNION {{d.credentials[i] : i \in DOMAIN d.credentials} : d \in Documents}
Keys == {Key(c) : c \in Credentials}
Records == [agent : Agents, seq : 0..MaxSeq, body : Bodies]
Rows == [rec : Records, updatedAt : 0..MaxTime]

None == [kind |-> "none"]

Endpoints == UNION {{d.endpoints[i] : i \in DOMAIN d.endpoints} : d \in Documents}

Outcomes ==
  {None}
    \cup [kind : {"denied"}, event : {"resolve.denied", "trust.denied"},
          reason : {"validation", "notFound", "verification", "expired", "trust", "error"}]
    \cup [kind : {"allowed"}, agent : Agents, endpoint : Endpoints, seq : 0..MaxSeq,
          ttl : Nat \ {0}, expiresAt : Nat, credential : Credentials \cup {None}]

\* Documents list credentials and endpoints, and TTLs are numbers.
ASSUME DocumentsAssumption ==
  /\ \A d \in Documents : d.credentials \in Seq(Credentials) /\ d.endpoints \in Seq(Endpoints)
  /\ \A e \in Endpoints : e.ttl \in Int
  /\ \A b \in Bodies : b.doc \in Documents /\ b.ttl \in Nat
ASSUME NoneAssumption == None \notin Credentials /\ NoRow \notin Rows

VARIABLES
  file, pointers,  \* FactsStore
  revocations,     \* RevocationStore
  row,             \* agent -> the committed row of the index, or NoRow
  settled,         \* the agents whose first registrations are over
  log,             \* the resolve events of the audit log
  commits,         \* number of records committed
  key,             \* the key pair the server runs with
  clock,           \* the time
  requests,        \* number of requests made
  stage,           \* resolver -> what its request does next
  request,         \* resolver -> the agent and capability of its request
  now,             \* resolver -> the time its request began
  found,           \* resolver -> the row its request read
  tried,           \* resolver -> how many of the credentials it is done with
  outcome,         \* resolver -> what it is about to record and answer
  answered,        \* resolver -> the answers it gave, those of failed appends left out,
                   \*   each with whether it was read from a settled agent
  foundSettled,    \* history variable: was the agent settled when its row was read?
  window,          \* history variable: the values row[agent] had during the request
  revokedSince     \* history variable: credentials revoked throughout the request

factsVars == <<file, pointers>>
storeVars == <<factsVars, revocations, row, settled, commits, key, clock>>
requestVars == <<requests, request, now>>
historyVars == <<foundSettled, window, revokedSince>>
vars == <<storeVars, log, requestVars, stage, found, tried, outcome, answered, historyVars>>

Facts == INSTANCE FactsStore
Revocations == INSTANCE RevocationStore
Log == INSTANCE AppendOnlyLog WITH Entries <- Outcomes
Stored == INSTANCE Publication WITH
  register <- [a \in Agents |-> IF row[a] = NoRow THEN NoRow ELSE row[a].rec],
  Unset <- NoRow, DocumentOf <- [b \in Bodies |-> b.doc]

Denied(event, reason) == [kind |-> "denied", event |-> event, reason |-> reason]

Min2(a, b) == IF a < b THEN a ELSE b

-----------------------------------------------------------------------------
Init ==
  /\ Facts!FactsInit
  /\ Revocations!RevocationsInit
  /\ row = [a \in Agents |-> NoRow]
  /\ settled = {}
  /\ commits = 0
  /\ Log!Init
  /\ key \in SigningKeys
  /\ clock = 0
  /\ requests = 0
  /\ stage = [r \in Resolvers |-> "idle"]
  /\ request = [r \in Resolvers |-> [agent |-> BlankAgent, capability |-> NoCapability]]
  /\ now = [r \in Resolvers |-> 0]
  /\ found = [r \in Resolvers |-> NoRow]
  /\ tried = [r \in Resolvers |-> 0]
  /\ outcome = [r \in Resolvers |-> None]
  /\ answered = [r \in Resolvers |-> << >>]
  /\ foundSettled = [r \in Resolvers |-> FALSE]
  /\ window = [r \in Resolvers |-> {}]
  /\ revokedSince = [r \in Resolvers |-> {}]

-----------------------------------------------------------------------------
(* Resolve *)

Rec(r) == found[r].rec
Doc(r) == Rec(r).body.doc

\* A request's working state is dropped when it ends.
Forget(r) ==
  /\ found' = [found EXCEPT ![r] = NoRow]
  /\ tried' = [tried EXCEPT ![r] = 0]
  /\ outcome' = [outcome EXCEPT ![r] = None]
  /\ foundSettled' = [foundSettled EXCEPT ![r] = FALSE]
  /\ window' = [window EXCEPT ![r] = {}]
  /\ revokedSince' = [revokedSince EXCEPT ![r] = {}]

\* The request's fate is decided; what remains is the audit event.
Decide(r, decision) ==
  /\ outcome' = [outcome EXCEPT ![r] = decision]
  /\ stage' = [stage EXCEPT ![r] = "audit"]

Receive(r, agent, capability) ==
  /\ stage[r] = "idle"
  /\ requests < MaxRequests
  /\ requests' = requests + 1
  /\ request' = [request EXCEPT ![r] = [agent |-> agent, capability |-> capability]]
  /\ now' = [now EXCEPT ![r] = clock]
  /\ IF agent = BlankAgent
       THEN /\ Decide(r, Denied("resolve.denied", "validation"))
            /\ UNCHANGED historyVars
       ELSE /\ stage' = [stage EXCEPT ![r] = "index"]
            /\ window' = [window EXCEPT ![r] = {row[agent]}]
            /\ revokedSince' = [revokedSince EXCEPT ![r] = {k \in Keys : Revocations!IsRevoked(k)}]
            /\ UNCHANGED <<outcome, foundSettled>>
  /\ UNCHANGED <<storeVars, log, found, tried, answered>>

\* Mutation: the part of a second that remains counts as a whole one.
RemainingRoundedUp(x, t) ==
  (x.updatedAt + x.rec.body.ttl * TicksPerSecond - t + TicksPerSecond - 1) \div TicksPerSecond

\* l1Freshness: the whole seconds that remain of a row's TTL at time t.
Remaining(x, t) ==
  (x.updatedAt + x.rec.body.ttl * TicksPerSecond - t) \div TicksPerSecond

\* Mutation: an expired record is not refused.
ReadIndexExpired(r) ==
  LET x == row[request[r].agent] IN
  /\ stage[r] = "index"
  /\ IF x # NoRow /\ x.rec.body.key = key
       THEN /\ found' = [found EXCEPT ![r] = x]
            /\ stage' = [stage EXCEPT ![r] = "pointer"]
            /\ UNCHANGED outcome
       ELSE /\ Decide(r, Denied("resolve.denied",
                 IF x = NoRow THEN "notFound" ELSE "verification"))
            /\ UNCHANGED found
  /\ foundSettled' = [foundSettled EXCEPT ![r] = request[r].agent \in settled]
  /\ UNCHANGED <<storeVars, log, requestVars, tried, answered, window, revokedSince>>

\* Get, the signature check and the freshness check, in this order.
ReadIndex(r) ==
  LET x == row[request[r].agent] IN
  /\ stage[r] = "index"
  /\ IF x # NoRow /\ x.rec.body.key = key /\ Remaining(x, now[r]) > 0
       THEN /\ found' = [found EXCEPT ![r] = x]
            /\ stage' = [stage EXCEPT ![r] = "pointer"]
            /\ UNCHANGED outcome
       ELSE /\ Decide(r, Denied("resolve.denied",
                 IF x = NoRow THEN "notFound"
                 ELSE IF x.rec.body.key # key THEN "verification" ELSE "expired"))
            /\ UNCHANGED found
  /\ foundSettled' = [foundSettled EXCEPT ![r] = request[r].agent \in settled]
  /\ UNCHANGED <<storeVars, log, requestVars, tried, answered, window, revokedSince>>

ReadPointer(r) ==
  /\ stage[r] = "pointer"
  /\ IF Facts!HasPointer(Doc(r))
       THEN /\ stage' = [stage EXCEPT ![r] = "facts"]
            /\ UNCHANGED outcome
       ELSE Decide(r, Denied("resolve.denied", "notFound"))
  /\ UNCHANGED <<storeVars, log, requestVars, found, tried, answered, historyVars>>

\* Mutation: the index is read again for the response.
AllowedAfterRereading(r, credential) ==
  LET endpoint == SelectEndpoint(Doc(r))
      ttl == Min2(Remaining(found[r], now[r]), endpoint.ttl)
  IN [kind |-> "allowed", agent |-> request[r].agent, endpoint |-> endpoint,
      seq |-> row[request[r].agent].rec.seq, ttl |-> ttl,
      expiresAt |-> now[r] + ttl * TicksPerSecond, credential |-> credential]

\* What the response says; credential is the one that granted the capability.
Allowed(r, credential) ==
  LET endpoint == SelectEndpoint(Doc(r))
      ttl == Min2(Remaining(found[r], now[r]), endpoint.ttl)
  IN [kind |-> "allowed", agent |-> request[r].agent, endpoint |-> endpoint,
      seq |-> Rec(r).seq, ttl |-> ttl, expiresAt |-> now[r] + ttl * TicksPerSecond,
      credential |-> credential]

\* The file is read, decoded and validated.  A torn file does not decode.
ReadFacts(r) ==
  LET valid == /\ file[Doc(r)] = "whole"
               /\ Validate(Doc(r), request[r].agent, request[r].capability, now[r])
  IN
  /\ stage[r] = "facts"
  /\ CASE ~Facts!HasFile(Doc(r)) -> Decide(r, Denied("resolve.denied", "notFound"))
       [] Facts!HasFile(Doc(r)) /\ ~valid -> Decide(r, Denied("resolve.denied", "validation"))
       [] valid /\ request[r].capability = NoCapability -> Decide(r, Allowed(r, None))
       [] valid /\ request[r].capability # NoCapability ->
            stage' = [stage EXCEPT ![r] = "trust"] /\ UNCHANGED outcome
  /\ UNCHANGED <<storeVars, log, requestVars, found, tried, answered, historyVars>>

\* The credentials VerifyCapability has still to ask the revocation table about:
\* it takes them in order and skips those that fail any other check.
Candidates(r) == {i \in DOMAIN Doc(r).credentials :
  i > tried[r] /\ Grants(Doc(r).credentials[i], request[r].agent, request[r].capability, now[r])}

NextCandidate(r) == CHOOSE i \in Candidates(r) : \A j \in Candidates(r) : i <= j

\* A candidate is refused, revoked or because its status cannot be read, and the
\* loop goes on to the next.
RefuseCredential(r) ==
  /\ stage[r] = "trust"
  /\ Candidates(r) # {}
  /\ tried' = [tried EXCEPT ![r] = NextCandidate(r)]
  /\ UNCHANGED <<storeVars, log, requestVars, stage, found, outcome, answered, historyVars>>

\* Mutation: a status that cannot be read counts as not revoked.
AcceptCredentialUnchecked(r) ==
  /\ stage[r] = "trust"
  /\ Candidates(r) # {}
  /\ Decide(r, Allowed(r, Doc(r).credentials[NextCandidate(r)]))
  /\ UNCHANGED <<storeVars, log, requestVars, found, tried, answered, historyVars>>

AcceptCredential(r) ==
  /\ stage[r] = "trust"
  /\ Candidates(r) # {}
  /\ ~Revocations!IsRevoked(Key(Doc(r).credentials[NextCandidate(r)]))
  /\ Decide(r, Allowed(r, Doc(r).credentials[NextCandidate(r)]))
  /\ UNCHANGED <<storeVars, log, requestVars, found, tried, answered, historyVars>>

DenyTrust(r) ==
  /\ stage[r] = "trust"
  /\ Candidates(r) = {}
  /\ Decide(r, Denied("trust.denied", "trust"))
  /\ UNCHANGED <<storeVars, log, requestVars, found, tried, answered, historyVars>>

\* A read of the index, the pointer table or the file fails.
FailRead(r) ==
  /\ stage[r] \in {"index", "pointer", "facts"}
  /\ Decide(r, Denied("resolve.denied", "error"))
  /\ UNCHANGED <<storeVars, log, requestVars, found, tried, answered, historyVars>>

\* An answer as the history remembers it.
Told(r) == [outcome |-> outcome[r], settled |-> foundSettled[r]]

\* The event is appended and the outcome answered.
AppendAudit(r) ==
  /\ stage[r] = "audit"
  /\ Log!AppendEntry(outcome[r])
  /\ answered' = [answered EXCEPT ![r] = Append(@, Told(r))]
  /\ stage' = [stage EXCEPT ![r] = "idle"]
  /\ Forget(r)
  /\ UNCHANGED <<storeVars, requestVars>>

\* Mutation: an error of the audit store is dropped.
FailAuditUnnoticed(r) ==
  /\ stage[r] = "audit"
  /\ answered' = [answered EXCEPT ![r] = Append(@, Told(r))]
  /\ stage' = [stage EXCEPT ![r] = "idle"]
  /\ Forget(r)
  /\ UNCHANGED <<storeVars, log, requestVars>>

\* The append fails, or commits without acknowledgement: the answer is an error.
FailAudit(r) ==
  /\ stage[r] = "audit"
  /\ Log!AppendEntry(outcome[r]) \/ UNCHANGED log
  /\ stage' = [stage EXCEPT ![r] = "idle"]
  /\ Forget(r)
  /\ UNCHANGED <<storeVars, requestVars, answered>>

Proceed(r) ==
  \/ ReadIndex(r) \/ ReadPointer(r) \/ ReadFacts(r)
  \/ RefuseCredential(r) \/ AcceptCredential(r) \/ DenyTrust(r) \/ AppendAudit(r)

-----------------------------------------------------------------------------
(* What happens meanwhile *)

otherVars == <<log, requestVars, stage, found, tried, outcome, answered>>

InFlight(r) == stage[r] # "idle"

Tick ==
  /\ clock < MaxTime
  /\ clock' = clock + 1
  /\ UNCHANGED <<factsVars, revocations, row, settled, commits, key, otherVars, historyVars>>

\* A registration writes the document's file, or writes it again.
TruncateFile(d) ==
  /\ UNCHANGED <<revocations, row, commits, key, clock, otherVars, historyVars>>
  /\ Stored!TruncateFile(d)

WriteFile(d) ==
  /\ UNCHANGED <<revocations, row, commits, key, clock, otherVars, historyVars>>
  /\ Stored!WriteFile(d)

PutPointer(d) ==
  /\ UNCHANGED <<revocations, row, commits, key, clock, otherVars, historyVars>>
  /\ Stored!PutPointer(d)

\* What a commit of the index transaction leaves in the row, and in the windows of
\* the requests under way.
Commit(rec, t) ==
  /\ commits < MaxCommits
  /\ commits' = commits + 1
  /\ t <= clock
  /\ row' = [row EXCEPT ![rec.agent] = [rec |-> rec, updatedAt |-> t]]
  /\ window' = [r \in Resolvers |->
       IF InFlight(r) /\ request[r].agent = rec.agent
         THEN window[r] \cup {row'[rec.agent]} ELSE window[r]]
  /\ UNCHANGED <<revocations, key, clock, otherVars, foundSettled, revokedSince>>

\* Mutation: Register writes the index first and the facts later.
CommitRecordFirst(rec, t) ==
  /\ Commit(rec, t)
  /\ Stored!Replace(rec)
  /\ UNCHANGED factsVars

\* Mutation: the index takes any sequence.
CommitAnySequence(rec, t) ==
  /\ Commit(rec, t)
  /\ Facts!HasPointer(rec.body.doc)
  /\ UNCHANGED <<factsVars, settled>>

\* A registration commits a record whose facts it has stored; its transaction
\* began, and took its now(), some time ago.
CommitRecord(rec, t) ==
  /\ Commit(rec, t)
  /\ Stored!Publish(rec)

\* The last first registration of an agent ends without a commit.
EndFirst(a) ==
  /\ UNCHANGED <<revocations, row, commits, key, clock, otherVars, historyVars>>
  /\ Stored!EndFirst(a)

\* An administrator revokes or reinstates a credential.
SetStatus(k, status) ==
  /\ Revocations!SetStatus(k, status)
  /\ revokedSince' = IF status = "revoked" THEN revokedSince
                     ELSE [r \in Resolvers |-> revokedSince[r] \ {k}]
  /\ UNCHANGED <<factsVars, row, settled, commits, key, clock, otherVars, foundSettled, window>>

\* The server ends, and its requests with it; it starts again with the key pair
\* it is configured with, or with a fresh one when it is configured with none.
Restart(k) ==
  /\ key' = k
  /\ stage' = [r \in Resolvers |-> "idle"]
  /\ found' = [r \in Resolvers |-> NoRow]
  /\ tried' = [r \in Resolvers |-> 0]
  /\ outcome' = [r \in Resolvers |-> None]
  /\ foundSettled' = [r \in Resolvers |-> FALSE]
  /\ window' = [r \in Resolvers |-> {}]
  /\ revokedSince' = [r \in Resolvers |-> {}]
  /\ UNCHANGED <<factsVars, revocations, row, settled, commits, clock, log, requestVars, answered>>

Next ==
  \/ \E r \in Resolvers :
       \/ \E a \in Agents \cup {BlankAgent}, c \in Capabilities \cup {NoCapability} : Receive(r, a, c)
       \/ Proceed(r) \/ FailRead(r) \/ FailAudit(r)
  \/ Tick
  \/ \E d \in Documents : TruncateFile(d) \/ WriteFile(d) \/ PutPointer(d)
  \/ \E rec \in Records, t \in 0..MaxTime : CommitRecord(rec, t)
  \/ \E a \in Agents : EndFirst(a)
  \/ \E k \in Keys, status \in Revocations!Statuses : SetStatus(k, status)
  \/ \E k \in SigningKeys : Restart(k)

Spec == Init /\ [][Next]_vars

-----------------------------------------------------------------------------
(* Properties *)

TypeOK ==
  /\ Facts!FactsTypeOK
  /\ Revocations!RevocationsTypeOK
  /\ row \in [Agents -> Rows \cup {NoRow}]
  /\ settled \subseteq Agents
  /\ commits \in 0..MaxCommits
  /\ log \in Seq(Outcomes)
  /\ key \in SigningKeys
  /\ clock \in 0..MaxTime
  /\ requests \in 0..MaxRequests
  /\ stage \in [Resolvers -> {"idle", "index", "pointer", "facts", "trust", "audit"}]
  /\ request \in [Resolvers -> [agent : Agents \cup {BlankAgent},
                                capability : Capabilities \cup {NoCapability}]]
  /\ now \in [Resolvers -> 0..MaxTime]
  /\ found \in [Resolvers -> Rows \cup {NoRow}]
  /\ tried \in [Resolvers -> Nat]
  /\ outcome \in [Resolvers -> Outcomes]
  /\ answered \in [Resolvers -> Seq([outcome : Outcomes, settled : BOOLEAN])]
  /\ foundSettled \in [Resolvers -> BOOLEAN]
  /\ window \in [Resolvers -> SUBSET (Rows \cup {NoRow})]
  /\ revokedSince \in [Resolvers -> SUBSET Keys]

Allowing(r) == outcome[r].kind = "allowed"

\* Although it reads four stores one after the other while they change, Resolve
\* answers as if at one moment: the sequence and the endpoint are those of one
\* record that was the agent's current one at some time during the request and is
\* signed with the server's key.
AnsweredFromCurrentRecord == \A r \in Resolvers : Allowing(r) =>
  \E x \in window[r] \ {NoRow} :
    /\ outcome[r].seq = x.rec.seq
    /\ outcome[r].endpoint = SelectEndpoint(x.rec.body.doc)
    /\ x.rec.body.key = key

\* What an administrator who asks for the agent at time t is shown (admin.GetAgent).
Expired(x, t) == x.updatedAt + x.rec.body.ttl * TicksPerSecond <= t

\* docs/LOCAL_DEMO.md:127: a response may be kept no longer than the TTL of its
\* endpoint allows, and only while the record it was made from is one that GetAgent,
\* which compares times where Resolve counts seconds, does not call expired.
CachedWithinBothTTLs == \A r \in Resolvers : Allowing(r) =>
  /\ outcome[r].expiresAt <= now[r] + outcome[r].endpoint.ttl * TicksPerSecond
  /\ \E x \in window[r] \ {NoRow} :
       /\ outcome[r].seq = x.rec.seq
       /\ \A t \in now[r]..(outcome[r].expiresAt - 1) : ~Expired(x, t)

\* A required capability is granted only by a credential that a listed issuer
\* signed for this agent, in force when the request began, and not revoked since
\* before it: a revocation that was acknowledged holds for every later request.
RevocationIsEffective == \A r \in Resolvers :
  Allowing(r) /\ request[r].capability # NoCapability =>
    /\ outcome[r].credential # None
    /\ Grants(outcome[r].credential, request[r].agent, request[r].capability, now[r])
    /\ Key(outcome[r].credential) \notin revokedSince[r]

\* Facts are stored before the index names them, so an agent that was registered
\* when the request began is never reported as not found.
NotFoundIsTrue == \A r \in Resolvers :
  outcome[r].kind = "denied" /\ outcome[r].reason = "notFound" => NoRow \in window[r]

\* A client that resolves an agent again never gets an older record than it got once
\* the agent was settled.  Earlier it may: first registrations that race overwrite
\* each other (LeanIndex!StaleOverwritesRejected).
SequencesNeverGoBack == \A r \in Resolvers : \A i, j \in DOMAIN answered[r] :
  LET a == answered[r][i].outcome
      b == answered[r][j].outcome
  IN i < j /\ a.kind = "allowed" /\ b.kind = "allowed" /\ a.agent = b.agent
       /\ answered[r][i].settled => a.seq <= b.seq

Occurrences(s, x) == Cardinality({i \in DOMAIN s : s[i] = x})

\* The answers given, as pairs of a client and a position, and those that said x.
Answers == UNION {{r} \X DOMAIN answered[r] : r \in Resolvers}
Tellings(x) == {q \in Answers : answered[q[1]][q[2]].outcome = x}

\* Every decision a client has been told of has an audit event of its own.
AnswersAreAudited == \A x \in {answered[q[1]][q[2]].outcome : q \in Answers} :
  Cardinality(Tellings(x)) <= Occurrences(log, x)
=============================================================================
