--------------------------- MODULE ResolverProofs ---------------------------
(* Resolver for any agents, clients, documents, credentials and bounds:       *)
(* whatever runs between the reads of a request, its answer is that of one    *)
(* record which was current, and grants nothing on a revoked credential.      *)
EXTENDS Resolver, FiniteSetTheorems, WellFoundedInduction, TLAPS

(* The inductive invariant.                                                   *)

\* What the stores owe each other, which Publication keeps.
StoresAgree ==
  /\ \A a \in Agents : row[a] # NoRow => Facts!HasPointer(row[a].rec.body.doc)
  /\ \A d \in Documents : Facts!HasPointer(d) => Facts!HasFile(d)
  /\ \A a \in settled : row[a] # NoRow

\* A request that has read its record and has not been denied.
Reading(r) == stage[r] \in {"pointer", "facts", "trust"}
Holding(r) == Reading(r) \/ Allowing(r)

Undecided(r) == stage[r] # "audit" => outcome[r] = None

\* A request that is about to read its agent's row has it in its window.
WindowIsOpen(r) ==
  /\ stage[r] = "index" \/ Holding(r) => request[r].agent \in Agents
  /\ stage[r] = "index" => row[request[r].agent] \in window[r]

\* The record a request holds was current, verifies, and names stored facts.
FoundWasCurrent(r) == Holding(r) =>
  /\ found[r] \in Rows \cap window[r]
  /\ Rec(r).body.key = key
  /\ Remaining(found[r], now[r]) > 0
  /\ Facts!HasPointer(Doc(r))

\* What is allowed is computed from that record, of a document that was validated.
AllowedIsValid(r) ==
  /\ stage[r] = "trust" \/ Allowing(r) =>
       Validate(Doc(r), request[r].agent, request[r].capability, now[r])
  /\ Allowing(r) => outcome[r] = Allowed(r, outcome[r].credential)

StillRevoked(r) == \A k \in revokedSince[r] : Revocations!IsRevoked(k)

\* RevocationIsEffective and NotFoundIsTrue, of one request.
GrantHolds(r) == Allowing(r) /\ request[r].capability # NoCapability =>
  /\ outcome[r].credential # None
  /\ Grants(outcome[r].credential, request[r].agent, request[r].capability, now[r])
  /\ Key(outcome[r].credential) \notin revokedSince[r]

NotFoundHolds(r) ==
  outcome[r].kind = "denied" /\ outcome[r].reason = "notFound" => NoRow \in window[r]

\* What a client was told of a settled agent is not newer than the agent's row, nor
\* than what its next request has found.
ToldWasCurrent(r) == \A i \in DOMAIN answered[r] :
  LET a == answered[r][i].outcome
  IN a.kind = "allowed" /\ answered[r][i].settled =>
       /\ a.agent \in settled
       /\ a.seq <= row[a.agent].rec.seq
       /\ Holding(r) /\ request[r].agent = a.agent => a.seq <= Rec(r).seq

FoundNotAhead(r) == Holding(r) /\ foundSettled[r] =>
  /\ request[r].agent \in settled
  /\ Rec(r).seq <= row[request[r].agent].rec.seq

\* SequencesNeverGoBack, of one client.
InOrder(r) == \A i, j \in DOMAIN answered[r] :
  LET a == answered[r][i].outcome
      b == answered[r][j].outcome
  IN i < j /\ a.kind = "allowed" /\ b.kind = "allowed" /\ a.agent = b.agent
       /\ answered[r][i].settled => a.seq <= b.seq

RequestOK(r) ==
  /\ Undecided(r) /\ WindowIsOpen(r) /\ FoundWasCurrent(r) /\ AllowedIsValid(r)
  /\ StillRevoked(r) /\ GrantHolds(r) /\ NotFoundHolds(r)
  /\ ToldWasCurrent(r) /\ FoundNotAhead(r) /\ InOrder(r)

IInv == TypeOK /\ StoresAgree /\ \A r \in Resolvers : RequestOK(r)

-----------------------------------------------------------------------------
(* Choices and arithmetic                                                     *)

LEMMA LeastElement ==
  ASSUME NEW T, T \subseteq Nat, T # {}
  PROVE  \E x \in T : \A y \in T : x <= y
<1>1. PICK R : R = OpToRel(<, Nat)
  OBVIOUS
<1>2. IsWellFoundedOn(R, Nat)
  BY <1>1, NatLessThanWellFounded
<1>3. \A x, y \in Nat : x < y => <<x, y>> \in R
  <2>1. R = {ss \in Nat \X Nat : ss[1] < ss[2]}
    BY <1>1 DEF OpToRel
  <2> QED BY <2>1
<1>4. PICK x \in T : \A y \in T : ~ (<<y, x>> \in R)
  BY <1>2, WFMin
<1>5. ASSUME NEW y \in T PROVE x <= y
  <2>1. x \in Nat /\ y \in Nat
    OBVIOUS
  <2>2. ~ (y < x)
    BY <1>3, <1>4, <2>1, Zenon
  <2> QED BY <2>1, <2>2
<1> QED BY <1>5

\* A valid document has a preferred endpoint, whose TTL is a positive number.
LEMMA EndpointSelected ==
  ASSUME NEW d \in Documents, NEW a, NEW c, NEW t, Validate(d, a, c, t)
  PROVE  SelectEndpoint(d) \in Endpoints /\ SelectEndpoint(d).ttl \in Nat \ {0}
<1> DEFINE D == DOMAIN d.endpoints
           Rank(i) == Preference[d.endpoints[i].type]
           Best(i) == \A j \in D : Rank(i) < Rank(j) \/ (Rank(i) = Rank(j) /\ i <= j)
<1>1. D \subseteq Nat /\ D # {} /\ \A i \in D : d.endpoints[i] \in Endpoints
  BY DocumentsAssumption DEF Validate
<1>2. \A i \in D : Rank(i) \in Nat
  BY DEF Validate, EndpointTypes, Preference
<1> HIDE DEF D, Rank
<1>3. PICK m \in {Rank(i) : i \in D} : \A n \in {Rank(i) : i \in D} : m <= n
  BY <1>1, <1>2, LeastElement
<1>4. PICK k \in {i \in D : Rank(i) = m} : \A j \in {i \in D : Rank(i) = m} : k <= j
  BY <1>1, <1>3, LeastElement
<1>5. Best(k)
  BY <1>2, <1>3, <1>4
<1> DEFINE s == CHOOSE i \in D : Best(i)
<1>6. s \in D
  BY <1>4, <1>5
<1>7. SelectEndpoint(d) = d.endpoints[s]
  BY DEF SelectEndpoint, D, Rank
<1> HIDE DEF s
<1>8. d.endpoints[s].ttl \in Nat \ {0}
  BY <1>1, <1>6, DocumentsAssumption DEF Validate, D
<1> QED BY <1>1, <1>6, <1>7, <1>8

\* The credential VerifyCapability asks about next is one of the document's.
LEMMA NextCandidateGrants ==
  ASSUME NEW r, Doc(r) \in Documents, Candidates(r) # {}
  PROVE  LET i == NextCandidate(r)
         IN /\ i \in Nat
            /\ Doc(r).credentials[i] \in Credentials
            /\ Grants(Doc(r).credentials[i], request[r].agent, request[r].capability, now[r])
<1>1. Candidates(r) \subseteq Nat
  BY DocumentsAssumption DEF Candidates
<1>2. \E i \in Candidates(r) : \A j \in Candidates(r) : i <= j
  BY <1>1, LeastElement
<1>3. NextCandidate(r) \in Candidates(r)
  BY <1>2 DEF NextCandidate
<1> QED BY <1>1, <1>3, DocumentsAssumption DEF Candidates

LEMMA WholeSeconds ==
  ASSUME NEW x \in Int
  PROVE  x \div TicksPerSecond \in Int /\ (x \div TicksPerSecond) * TicksPerSecond <= x
  BY BoundsAssumption

LEMMA SecondsAreMonotonic ==
  ASSUME NEW a \in Int, NEW b \in Int, a <= b
  PROVE  /\ a * TicksPerSecond \in Int /\ b * TicksPerSecond \in Int
         /\ a * TicksPerSecond <= b * TicksPerSecond
  BY BoundsAssumption

\* What a response says is what its types promise, and its lifetime is within both
\* TTLs.
LEMMA AllowedTyped ==
  ASSUME TypeOK, NEW r \in Resolvers, NEW c \in Credentials \cup {None},
         found[r] \in Rows, request[r].agent \in Agents, Remaining(found[r], now[r]) > 0,
         Validate(Doc(r), request[r].agent, request[r].capability, now[r])
  PROVE  /\ Allowed(r, c) \in Outcomes
         /\ Allowed(r, c).kind = "allowed" /\ Allowed(r, c).credential = c
         /\ Allowed(r, c).agent = request[r].agent /\ Allowed(r, c).seq = Rec(r).seq
         /\ Allowed(r, c).endpoint = SelectEndpoint(Doc(r))
         /\ Allowed(r, c).expiresAt \in Nat
         /\ Allowed(r, c).expiresAt <= now[r] + SelectEndpoint(Doc(r)).ttl * TicksPerSecond
         /\ Allowed(r, c).expiresAt <= found[r].updatedAt + Rec(r).body.ttl * TicksPerSecond
<1> DEFINE end == found[r].updatedAt + Rec(r).body.ttl * TicksPerSecond
           left == Remaining(found[r], now[r])
           endpoint == SelectEndpoint(Doc(r))
           ttl == Min2(left, endpoint.ttl)
           expires == now[r] + ttl * TicksPerSecond
<1>1. /\ Rec(r) \in Records /\ found[r].updatedAt \in Nat /\ now[r] \in Nat
      /\ Doc(r) \in Documents /\ Rec(r).body.ttl \in Nat /\ Rec(r).seq \in 0..MaxSeq
  BY BoundsAssumption, DocumentsAssumption DEF Rows, Records, Rec, Doc, TypeOK
<1>2. endpoint \in Endpoints /\ endpoint.ttl \in Nat \ {0}
  BY <1>1, EndpointSelected
<1>3. end \in Nat /\ left = (end - now[r]) \div TicksPerSecond
  BY <1>1, BoundsAssumption DEF Remaining, Rec
<1>4. left \in Nat \ {0} /\ left * TicksPerSecond <= end - now[r]
  <2>1. left \in Int /\ left * TicksPerSecond <= end - now[r]
    <3>1. end - now[r] \in Int
      BY <1>1, <1>3
    <3> HIDE DEF end, left
    <3> QED BY <1>3, <3>1, WholeSeconds
  <2> QED BY <2>1
<1> HIDE DEF end, left, endpoint
<1>5. ttl \in Nat \ {0} /\ ttl <= left /\ ttl <= endpoint.ttl
  BY <1>2, <1>4 DEF Min2
<1> HIDE DEF ttl
<1>6. /\ ttl * TicksPerSecond \in Nat
      /\ ttl * TicksPerSecond <= left * TicksPerSecond
      /\ ttl * TicksPerSecond <= endpoint.ttl * TicksPerSecond
      /\ left * TicksPerSecond \in Int /\ endpoint.ttl * TicksPerSecond \in Int
  <2>1. ttl * TicksPerSecond \in Nat
    BY <1>5, BoundsAssumption
  <2> QED BY <1>2, <1>4, <1>5, <2>1, SecondsAreMonotonic
<1>7. expires \in Nat /\ expires <= now[r] + endpoint.ttl * TicksPerSecond /\ expires <= end
  <2>1. \A a, b, n, e \in Int : a <= b /\ b <= e - n => n + a <= n + b /\ n + a <= e
    OBVIOUS
  <2> QED BY <1>1, <1>3, <1>4, <1>6
<1>8. Allowed(r, c) = [kind |-> "allowed", agent |-> request[r].agent, endpoint |-> endpoint,
                       seq |-> Rec(r).seq, ttl |-> ttl, expiresAt |-> expires, credential |-> c]
  BY DEF Allowed, endpoint, ttl, left
<1> HIDE DEF expires
<1>9. Allowed(r, c) \in [kind : {"allowed"}, agent : Agents, endpoint : Endpoints, seq : 0..MaxSeq,
                          ttl : Nat \ {0}, expiresAt : Nat, credential : Credentials \cup {None}]
  BY <1>1, <1>2, <1>5, <1>7, <1>8
<1>10. Allowed(r, c) \in Outcomes
  BY <1>9 DEF Outcomes
<1> QED BY <1>7, <1>8, <1>10 DEF end, endpoint

\* The kinds of outcomes are told apart.
LEMMA OutcomeKinds ==
  ASSUME NEW o \in Outcomes
  PROVE  /\ o.kind = "allowed" =>
              /\ o.agent \in Agents /\ o.seq \in 0..MaxSeq /\ o.credential \in Credentials \cup {None}
         /\ None.kind # "allowed" /\ None.kind # "denied"
         /\ \A e, x : /\ Denied(e, x).kind = "denied" /\ Denied(e, x).reason = x
                      /\ Denied(e, x).kind # "allowed"
  BY DEF Outcomes, None, Denied

-----------------------------------------------------------------------------
(* Types                                                                      *)

StoreTypes ==
  /\ Facts!FactsTypeOK
  /\ Revocations!RevocationsTypeOK
  /\ row \in [Agents -> Rows \cup {NoRow}]
  /\ settled \subseteq Agents
  /\ commits \in 0..MaxCommits
  /\ key \in SigningKeys
  /\ clock \in 0..MaxTime

RequestTypes ==
  /\ log \in Seq(Outcomes)
  /\ requests \in 0..MaxRequests
  /\ stage \in [Resolvers -> {"idle", "index", "pointer", "facts", "trust", "audit"}]
  /\ request \in [Resolvers -> [agent : Agents \cup {BlankAgent},
                                capability : Capabilities \cup {NoCapability}]]
  /\ now \in [Resolvers -> 0..MaxTime]
  /\ found \in [Resolvers -> Rows \cup {NoRow}]
  /\ tried \in [Resolvers -> Nat]
  /\ outcome \in [Resolvers -> Outcomes]
  /\ answered \in [Resolvers -> Seq([outcome : Outcomes, settled : BOOLEAN])]

HistoryTypes ==
  /\ foundSettled \in [Resolvers -> BOOLEAN]
  /\ window \in [Resolvers -> SUBSET (Rows \cup {NoRow})]
  /\ revokedSince \in [Resolvers -> SUBSET Keys]

LEMMA TypeParts == TypeOK <=> StoreTypes /\ RequestTypes /\ HistoryTypes
  BY DEF TypeOK, StoreTypes, RequestTypes, HistoryTypes

\* The decisions a request may come to.
LEMMA DeniedTyped ==
  ASSUME NEW event \in {"resolve.denied", "trust.denied"},
         NEW reason \in {"validation", "notFound", "verification", "expired", "trust", "error"}
  PROVE  Denied(event, reason) \in Outcomes
  BY DEF Denied, Outcomes

LEMMA DecideTypes ==
  ASSUME RequestTypes, NEW r \in Resolvers, NEW decision \in Outcomes, Decide(r, decision)
  PROVE  /\ stage' \in [Resolvers -> {"idle", "index", "pointer", "facts", "trust", "audit"}]
         /\ outcome' \in [Resolvers -> Outcomes]
  BY DEF RequestTypes, Decide

LEMMA ForgetTypes ==
  ASSUME RequestTypes, HistoryTypes, NEW r \in Resolvers, Forget(r)
  PROVE  /\ HistoryTypes'
         /\ found' \in [Resolvers -> Rows \cup {NoRow}]
         /\ tried' \in [Resolvers -> Nat]
         /\ outcome' \in [Resolvers -> Outcomes]
<1>1. None \in Outcomes
  BY DEF Outcomes
<1> QED BY <1>1 DEF RequestTypes, HistoryTypes, Forget

\* What registrations, administrators, time and restarts do to the stores.
LEMMA StoreTypesStep == TypeOK /\ [Next]_vars => StoreTypes'
<1> SUFFICES ASSUME StoreTypes, [Next]_vars
             PROVE  StoreTypes'
  BY TypeParts
<1> USE DEF StoreTypes
<1>1. CASE UNCHANGED storeVars
  BY <1>1 DEF storeVars, factsVars, Facts!FactsTypeOK, Revocations!RevocationsTypeOK
<1>2. CASE Tick
  BY <1>2, BoundsAssumption DEF Tick, factsVars, Facts!FactsTypeOK, Revocations!RevocationsTypeOK
<1>3. ASSUME NEW d \in Documents, TruncateFile(d) \/ WriteFile(d) \/ PutPointer(d)
      PROVE  StoreTypes'
  <2>1. /\ Facts!FactsTypeOK' /\ settled' = settled
        /\ UNCHANGED <<revocations, row, commits, key, clock>>
    BY <1>3 DEF TruncateFile, WriteFile, PutPointer, Facts!FactsTypeOK, Facts!FileStates,
                Stored!TruncateFile, Stored!WriteFile, Stored!PutPointer, Stored!Truncate,
                Stored!Write, Stored!PutFactsPointer, Stored!registerVars
  <2> QED BY <2>1 DEF Revocations!RevocationsTypeOK
<1>4. ASSUME NEW rec \in Records, NEW t \in 0..MaxTime, CommitRecord(rec, t)
      PROVE  StoreTypes'
  <2>1. [rec |-> rec, updatedAt |-> t] \in Rows /\ rec.agent \in Agents
    BY DEF Rows, Records
  <2>2. row' \in [Agents -> Rows \cup {NoRow}] /\ commits' \in 0..MaxCommits
        /\ UNCHANGED <<revocations, key, clock>>
    BY <1>4, <2>1, BoundsAssumption DEF CommitRecord, Commit
  <2>3. settled' \subseteq Agents /\ UNCHANGED <<file, pointers>>
    BY <1>4, <2>1 DEF CommitRecord, Stored!Publish, Stored!Replace, Stored!Race, Stored!Advance,
                      Stored!factsVars
  <2> QED BY <2>2, <2>3 DEF Facts!FactsTypeOK, Revocations!RevocationsTypeOK
<1>5. ASSUME NEW a \in Agents, EndFirst(a)
      PROVE  StoreTypes'
  BY <1>5 DEF EndFirst, Stored!EndFirst, Stored!Settle, Stored!factsVars, Facts!FactsTypeOK,
              Revocations!RevocationsTypeOK
<1>6. ASSUME NEW k \in Keys, NEW status \in Revocations!Statuses, SetStatus(k, status)
      PROVE  StoreTypes'
  BY <1>6 DEF SetStatus, Revocations!SetStatus, Revocations!RevocationsTypeOK, factsVars,
              Facts!FactsTypeOK
<1>7. ASSUME NEW k \in SigningKeys, Restart(k)
      PROVE  StoreTypes'
  BY <1>7 DEF Restart, factsVars, Facts!FactsTypeOK, Revocations!RevocationsTypeOK
<1>8. ASSUME NEW r \in Resolvers,
             \/ \E a \in Agents \cup {BlankAgent}, c \in Capabilities \cup {NoCapability} : Receive(r, a, c)
             \/ Proceed(r) \/ FailRead(r) \/ FailAudit(r)
      PROVE  UNCHANGED storeVars
  BY <1>8 DEF Receive, Proceed, ReadIndex, ReadPointer, ReadFacts, RefuseCredential,
              AcceptCredential, DenyTrust, AppendAudit, FailRead, FailAudit
<1> QED
  BY <1>1, <1>2, <1>3, <1>4, <1>5, <1>6, <1>7, <1>8 DEF Next, vars

\* A request that holds a record may be allowed with any credential.
LEMMA MayBeAllowed ==
  ASSUME IInv, NEW r \in Resolvers, NEW c \in Credentials \cup {None}, Reading(r),
         Validate(Doc(r), request[r].agent, request[r].capability, now[r])
  PROVE  /\ Allowed(r, c) \in Outcomes
         /\ Allowed(r, c).kind = "allowed" /\ Allowed(r, c).credential = c
         /\ Allowed(r, c).agent = request[r].agent /\ Allowed(r, c).seq = Rec(r).seq
<1>1. Holding(r) /\ RequestOK(r) /\ TypeOK
  BY DEF Holding, IInv
<1>2. found[r] \in Rows /\ request[r].agent \in Agents /\ Remaining(found[r], now[r]) > 0
  BY <1>1 DEF RequestOK, WindowIsOpen, FoundWasCurrent
<1> QED BY <1>1, <1>2, AllowedTyped

\* The documents of rows, and so those of records that requests hold.
LEMMA DocumentHeld ==
  ASSUME IInv, NEW r \in Resolvers, Holding(r)
  PROVE  Doc(r) \in Documents /\ Rec(r) \in Records /\ found[r] \in Rows /\ request[r].agent \in Agents
<1>1. found[r] \in Rows /\ request[r].agent \in Agents
  BY DEF IInv, RequestOK, FoundWasCurrent, WindowIsOpen
<1> QED BY <1>1, DocumentsAssumption DEF Rows, Records, Rec, Doc

\* The ways in which ReadFacts and the checks of credentials come to a decision.
LEMMA DecisionTyped ==
  ASSUME IInv, NEW r \in Resolvers,
         ReadFacts(r) \/ RefuseCredential(r) \/ AcceptCredential(r) \/ DenyTrust(r)
  PROVE  outcome' \in [Resolvers -> Outcomes] /\ tried' \in [Resolvers -> Nat]
<1>1. RequestTypes /\ RequestOK(r)
  BY TypeParts DEF IInv
<1>2. CASE ReadFacts(r)
  <2> DEFINE valid == Validate(Doc(r), request[r].agent, request[r].capability, now[r])
  <2>1. stage[r] = "facts" /\ UNCHANGED tried
    BY <1>2 DEF ReadFacts
  <2>2. \/ Decide(r, Denied("resolve.denied", "notFound"))
        \/ Decide(r, Denied("resolve.denied", "validation"))
        \/ valid /\ Decide(r, Allowed(r, None))
        \/ UNCHANGED outcome
    <3>1. CASE ~Facts!HasFile(Doc(r))
      BY <1>2, <3>1, Zenon DEF ReadFacts
    <3> QED BY <1>2 DEF ReadFacts
  <2>3. valid => Allowed(r, None) \in Outcomes
    BY <2>1, MayBeAllowed DEF Reading
  <2> QED BY <1>1, <2>1, <2>2, <2>3, DecideTypes, DeniedTyped DEF RequestTypes
<1>3. CASE RefuseCredential(r)
  <2>1. Doc(r) \in Documents
    BY <1>3, DocumentHeld DEF RefuseCredential, Holding, Reading
  <2>2. NextCandidate(r) \in Nat
    BY <1>3, <2>1, NextCandidateGrants DEF RefuseCredential
  <2> QED BY <1>1, <1>3, <2>2 DEF RefuseCredential, RequestTypes
<1>4. CASE AcceptCredential(r)
  <2> DEFINE c == Doc(r).credentials[NextCandidate(r)]
  <2>1. Doc(r) \in Documents /\ stage[r] = "trust" /\ Candidates(r) # {} /\ UNCHANGED tried
        /\ Decide(r, Allowed(r, c))
    BY <1>4, DocumentHeld DEF AcceptCredential, Holding, Reading
  <2>2. c \in Credentials
    BY <2>1, NextCandidateGrants
  <2> HIDE DEF c
  <2>3. Allowed(r, c) \in Outcomes
    BY <1>1, <2>1, <2>2, MayBeAllowed DEF Reading, RequestOK, AllowedIsValid
  <2> QED BY <1>1, <2>1, <2>3, DecideTypes DEF RequestTypes
<1>5. CASE DenyTrust(r)
  BY <1>1, <1>5, DecideTypes, DeniedTyped DEF DenyTrust, RequestTypes
<1> QED BY <1>2, <1>3, <1>4, <1>5

LEMMA RequestTypesStep == IInv /\ [Next]_vars => RequestTypes' /\ HistoryTypes'
<1> SUFFICES ASSUME IInv, [Next]_vars
             PROVE  RequestTypes' /\ HistoryTypes'
  OBVIOUS
<1> DEFINE Goal == RequestTypes' /\ HistoryTypes'
<1>0. TypeOK /\ StoreTypes /\ RequestTypes /\ HistoryTypes
  BY TypeParts DEF IInv
<1>1. ASSUME NEW r \in Resolvers, NEW a \in Agents \cup {BlankAgent},
             NEW c \in Capabilities \cup {NoCapability}, Receive(r, a, c)
      PROVE  Goal
  <2>1. /\ requests' \in 0..MaxRequests /\ now' \in [Resolvers -> 0..MaxTime]
        /\ request' \in [Resolvers -> [agent : Agents \cup {BlankAgent},
                                       capability : Capabilities \cup {NoCapability}]]
        /\ UNCHANGED <<storeVars, log, found, tried, answered>>
    BY <1>0, <1>1, BoundsAssumption DEF Receive, RequestTypes, StoreTypes
  <2>2. CASE a = BlankAgent
    <3>1. Decide(r, Denied("resolve.denied", "validation")) /\ UNCHANGED historyVars
      BY <1>1, <2>2 DEF Receive
    <3> QED BY <1>0, <2>1, <3>1, DecideTypes, DeniedTyped DEF RequestTypes, HistoryTypes, historyVars
  <2>3. CASE a # BlankAgent
    <3>1. /\ stage' = [stage EXCEPT ![r] = "index"] /\ UNCHANGED <<outcome, foundSettled>>
          /\ window' = [window EXCEPT ![r] = {row[a]}]
          /\ revokedSince' = [revokedSince EXCEPT ![r] = {k \in Keys : Revocations!IsRevoked(k)}]
      BY <1>1, <2>3 DEF Receive
    <3>2. row[a] \in Rows \cup {NoRow}
      BY <1>0, <2>3 DEF StoreTypes
    <3> QED BY <1>0, <2>1, <3>1, <3>2 DEF RequestTypes, HistoryTypes
  <2> QED BY <2>2, <2>3
<1>2. ASSUME NEW r \in Resolvers, ReadIndex(r)
      PROVE  Goal
  <2> DEFINE x == row[request[r].agent]
  <2>1. /\ stage[r] = "index" /\ UNCHANGED <<log, requestVars, tried, answered, window, revokedSince>>
        /\ foundSettled' = [foundSettled EXCEPT ![r] = request[r].agent \in settled]
    BY <1>2 DEF ReadIndex
  <2>2. x \in Rows \cup {NoRow}
    BY <1>0, <2>1 DEF IInv, RequestOK, WindowIsOpen, StoreTypes
  <2>3. HistoryTypes'
    BY <1>0, <2>1 DEF HistoryTypes
  <2>4. \/ /\ x # NoRow /\ found' = [found EXCEPT ![r] = x]
           /\ stage' = [stage EXCEPT ![r] = "pointer"] /\ UNCHANGED outcome
        \/ /\ \E reason \in {"notFound", "verification", "expired"} :
                 Decide(r, Denied("resolve.denied", reason))
           /\ UNCHANGED found
    BY <1>2, Zenon DEF ReadIndex
  <2>5. CASE /\ found' = [found EXCEPT ![r] = x]
             /\ stage' = [stage EXCEPT ![r] = "pointer"] /\ UNCHANGED outcome
    <3> HIDE DEF x
    <3>1. found' \in [Resolvers -> Rows \cup {NoRow}]
          /\ stage' \in [Resolvers -> {"idle", "index", "pointer", "facts", "trust", "audit"}]
      BY <1>0, <2>2, <2>5 DEF RequestTypes
    <3> QED BY <1>0, <2>1, <2>3, <2>5, <3>1 DEF RequestTypes, requestVars
  <2>6. ASSUME NEW reason \in {"notFound", "verification", "expired"},
               Decide(r, Denied("resolve.denied", reason)), UNCHANGED found
        PROVE  Goal
    BY <1>0, <2>1, <2>3, <2>6, DecideTypes, DeniedTyped DEF RequestTypes, requestVars
  <2> QED BY <2>4, <2>5, <2>6
<1>3. ASSUME NEW r \in Resolvers, ReadPointer(r) \/ FailRead(r)
      PROVE  Goal
  <2>1. /\ UNCHANGED <<log, requestVars, found, tried, answered, historyVars>>
        /\ \/ \E reason \in {"notFound", "error"} : Decide(r, Denied("resolve.denied", reason))
           \/ stage' = [stage EXCEPT ![r] = "facts"] /\ UNCHANGED outcome
    BY <1>3 DEF ReadPointer, FailRead
  <2> QED BY <1>0, <2>1, DecideTypes, DeniedTyped DEF RequestTypes, HistoryTypes, requestVars, historyVars
<1>4. ASSUME NEW r \in Resolvers,
             ReadFacts(r) \/ RefuseCredential(r) \/ AcceptCredential(r) \/ DenyTrust(r)
      PROVE  Goal
  <2>1. outcome' \in [Resolvers -> Outcomes] /\ tried' \in [Resolvers -> Nat]
    BY <1>4, DecisionTyped
  <2>2. UNCHANGED <<log, requestVars, found, answered, historyVars>>
    BY <1>4 DEF ReadFacts, RefuseCredential, AcceptCredential, DenyTrust
  <2>3. \E s \in {"audit", "trust"} : stage' = [stage EXCEPT ![r] = s] \/ stage' = stage
    BY <1>4 DEF ReadFacts, RefuseCredential, AcceptCredential, DenyTrust, Decide
  <2> QED BY <1>0, <2>1, <2>2, <2>3 DEF RequestTypes, HistoryTypes, requestVars, historyVars
<1>5. ASSUME NEW r \in Resolvers, AppendAudit(r) \/ FailAudit(r)
      PROVE  Goal
  <2>1. /\ stage' = [stage EXCEPT ![r] = "idle"] /\ Forget(r) /\ UNCHANGED requestVars
        /\ log' = Append(log, outcome[r]) \/ UNCHANGED log
        /\ UNCHANGED answered \/ answered' = [answered EXCEPT ![r] = Append(@, Told(r))]
    BY <1>5 DEF AppendAudit, FailAudit, Log!AppendEntry
  <2>2. outcome[r] \in Outcomes /\ Told(r) \in [outcome : Outcomes, settled : BOOLEAN]
    BY <1>0 DEF RequestTypes, HistoryTypes, Told
  <2>3. log' \in Seq(Outcomes)
    <3>1. log \in Seq(Outcomes)
      BY <1>0 DEF RequestTypes
    <3>2. CASE log' = Append(log, outcome[r])
      BY <2>2, <3>1, <3>2
    <3> QED BY <2>1, <3>1, <3>2
  <2>4. answered' \in [Resolvers -> Seq([outcome : Outcomes, settled : BOOLEAN])]
    <3> DEFINE Answer == [outcome : Outcomes, settled : BOOLEAN]
               told == Told(r)
    <3>1. answered \in [Resolvers -> Seq(Answer)] /\ told \in Answer
      BY <1>0, <2>2 DEF RequestTypes
    <3> HIDE DEF Answer, told
    <3>2. Append(answered[r], told) \in Seq(Answer)
      BY <3>1
    <3>3. UNCHANGED answered \/ answered' = [answered EXCEPT ![r] = Append(@, told)]
      BY <2>1 DEF told
    <3>4. answered' \in [Resolvers -> Seq(Answer)]
      BY <3>1, <3>2, <3>3
    <3> QED BY <3>4 DEF Answer
  <2> QED BY <1>0, <2>1, <2>3, <2>4, ForgetTypes DEF RequestTypes, requestVars
<1>6. CASE Tick \/ (\E d \in Documents : TruncateFile(d) \/ WriteFile(d) \/ PutPointer(d))
           \/ (\E a \in Agents : EndFirst(a))
  BY <1>0, <1>6 DEF Tick, TruncateFile, WriteFile, PutPointer, EndFirst, otherVars, requestVars,
                    historyVars, RequestTypes, HistoryTypes
<1>7. ASSUME NEW rec \in Records, NEW t \in 0..MaxTime, CommitRecord(rec, t)
      PROVE  Goal
  <2>1. [rec |-> rec, updatedAt |-> t] \in Rows /\ rec.agent \in Agents
    BY DEF Rows, Records
  <2>2. row'[rec.agent] \in Rows
    BY <1>0, <1>7, <2>1 DEF CommitRecord, Commit, StoreTypes
  <2>3. window' \in [Resolvers -> SUBSET (Rows \cup {NoRow})]
        /\ UNCHANGED <<otherVars, foundSettled, revokedSince>>
    BY <1>0, <1>7, <2>2 DEF CommitRecord, Commit, HistoryTypes
  <2> QED BY <1>0, <2>3 DEF otherVars, requestVars, RequestTypes, HistoryTypes
<1>8. ASSUME NEW k \in Keys, NEW status \in Revocations!Statuses, SetStatus(k, status)
      PROVE  Goal
  <2>1. revokedSince' \in [Resolvers -> SUBSET Keys] /\ UNCHANGED <<otherVars, foundSettled, window>>
    BY <1>0, <1>8 DEF SetStatus, HistoryTypes
  <2> QED BY <1>0, <2>1 DEF otherVars, requestVars, RequestTypes, HistoryTypes
<1>9. ASSUME NEW k \in SigningKeys, Restart(k)
      PROVE  Goal
  <2>1. None \in Outcomes
    BY DEF Outcomes
  <2> QED BY <1>0, <1>9, <2>1 DEF Restart, requestVars, RequestTypes, HistoryTypes
<1>10. CASE UNCHANGED vars
  BY <1>0, <1>10 DEF vars, requestVars, historyVars, RequestTypes, HistoryTypes
<1> QED
  BY <1>1, <1>2, <1>3, <1>4, <1>5, <1>6, <1>7, <1>8, <1>9, <1>10 DEF Next, Proceed

-----------------------------------------------------------------------------
(* The stores                                                                 *)

\* What a step leaves of what requests have seen.
StoresKeep ==
  /\ pointers \subseteq pointers' /\ settled \subseteq settled'
  /\ \A a \in settled : row[a].rec.seq <= row'[a].rec.seq

LEMMA StoresStep == TypeOK /\ StoresAgree /\ [Next]_vars => StoresAgree' /\ StoresKeep
<1> SUFFICES ASSUME StoreTypes, StoresAgree, [Next]_vars
             PROVE  StoresAgree' /\ StoresKeep
  BY TypeParts
<1>0. /\ \A a \in settled : a \in Agents /\ row[a] \in Rows /\ row[a].rec \in Records
                            /\ row[a].rec.seq \in 0..MaxSeq
  BY DEF StoreTypes, StoresAgree, Rows, Records
<1>a. UNCHANGED <<row, settled>> => \A a \in settled : row[a].rec.seq <= row'[a].rec.seq
  BY <1>0, BoundsAssumption
<1>1. CASE UNCHANGED <<file, pointers, row, settled>>
  BY <1>1, <1>a DEF StoresAgree, StoresKeep, Facts!HasPointer, Facts!HasFile
<1>2. ASSUME NEW d \in Documents, TruncateFile(d) \/ WriteFile(d) \/ PutPointer(d)
      PROVE  StoresAgree' /\ StoresKeep
  <2>1. UNCHANGED <<row, settled>>
    BY <1>2 DEF TruncateFile, WriteFile, PutPointer, Stored!TruncateFile, Stored!WriteFile,
                Stored!PutPointer, Stored!registerVars
  <2>2. /\ UNCHANGED pointers \/ (pointers' = pointers \cup {d} /\ file[d] # "absent")
        /\ \A c \in Documents : file[c] # "absent" => file'[c] # "absent"
    BY <1>2 DEF TruncateFile, WriteFile, PutPointer, Stored!TruncateFile, Stored!WriteFile,
                Stored!PutPointer, Stored!Truncate, Stored!Write, Stored!PutFactsPointer,
                Stored!HasFile, StoreTypes, Facts!FactsTypeOK
  <2> QED BY <1>a, <2>1, <2>2 DEF StoresAgree, StoresKeep, Facts!HasPointer, Facts!HasFile
<1>3. ASSUME NEW rec \in Records, NEW t \in 0..MaxTime, CommitRecord(rec, t)
      PROVE  StoresAgree' /\ StoresKeep
  <2> DEFINE new == [rec |-> rec, updatedAt |-> t]
  <2>1. new \in Rows /\ rec.agent \in Agents /\ rec.body \in Bodies /\ new.rec = rec
    BY DEF Rows, Records
  <2>2. row' = [row EXCEPT ![rec.agent] = new] /\ Stored!Publish(rec)
    BY <1>3 DEF CommitRecord, Commit
  <2>3. UNCHANGED <<file, pointers>> /\ rec.body.doc \in pointers /\ Stored!Replace(rec)
    BY <2>1, <2>2 DEF Stored!Publish, Stored!factsVars, Stored!HasPointer
  <2>4. settled \subseteq settled' /\ settled' \subseteq settled \cup {rec.agent}
    BY <2>3 DEF Stored!Replace, Stored!Race, Stored!Advance
  <2>5. rec.agent \in settled => row[rec.agent].rec.seq <= rec.seq
    <3>1. CASE rec.agent \in settled
      <4>1. Stored!Advance(rec)
        BY <2>3, <3>1 DEF Stored!Replace, Stored!Race
      <4>2. rec.seq > row[rec.agent].rec.seq
        BY <1>0, <2>1, <3>1, <4>1 DEF Stored!Advance, StoresAgree
      <4> QED BY <1>0, <3>1, <4>2, BoundsAssumption DEF Records
    <3> QED BY <3>1
  <2> HIDE DEF new
  <2>6. /\ row'[rec.agent] = new /\ new # NoRow
        /\ \A a \in Agents \ {rec.agent} : row'[a] = row[a]
    BY <2>1, <2>2, NoneAssumption DEF StoreTypes
  <2>7. StoresAgree'
    BY <2>1, <2>3, <2>4, <2>6 DEF StoresAgree, StoreTypes, Facts!HasPointer, Facts!HasFile
  <2>8. \A a \in settled : row[a].rec.seq <= row'[a].rec.seq
    BY <1>0, <2>1, <2>5, <2>6, BoundsAssumption
  <2> QED BY <2>3, <2>4, <2>7, <2>8 DEF StoresKeep
<1>4. ASSUME NEW a \in Agents, EndFirst(a)
      PROVE  StoresAgree' /\ StoresKeep
  <2>1. /\ UNCHANGED <<file, pointers, row>> /\ settled' = settled \cup {a} /\ row[a] # NoRow
    BY <1>4 DEF EndFirst, Stored!EndFirst, Stored!Settle, Stored!factsVars
  <2> QED BY <1>0, <2>1, BoundsAssumption DEF StoresAgree, StoresKeep, Facts!HasPointer, Facts!HasFile
<1>5. ASSUME NEW r \in Resolvers,
             \/ \E a \in Agents \cup {BlankAgent}, c \in Capabilities \cup {NoCapability} : Receive(r, a, c)
             \/ Proceed(r) \/ FailRead(r) \/ FailAudit(r)
      PROVE  UNCHANGED <<file, pointers, row, settled>>
  BY <1>5 DEF Receive, Proceed, ReadIndex, ReadPointer, ReadFacts, RefuseCredential,
              AcceptCredential, DenyTrust, AppendAudit, FailRead, FailAudit, storeVars, factsVars
<1>6. CASE Tick \/ (\E k \in Keys, status \in Revocations!Statuses : SetStatus(k, status))
           \/ (\E k \in SigningKeys : Restart(k)) \/ UNCHANGED vars
  BY <1>1, <1>6 DEF Tick, SetStatus, Restart, factsVars, vars, storeVars
<1> QED BY <1>1, <1>2, <1>3, <1>4, <1>5, <1>6 DEF Next

-----------------------------------------------------------------------------
(* Requests                                                                   *)

\* A step that is not one of q's request, and during which the server lives.
Untouched(q) ==
  /\ stage'[q] = stage[q] /\ request'[q] = request[q] /\ now'[q] = now[q] /\ found'[q] = found[q]
  /\ outcome'[q] = outcome[q] /\ answered'[q] = answered[q] /\ foundSettled'[q] = foundSettled[q]
  /\ key' = key
  /\ window[q] \subseteq window'[q]
  /\ stage[q] = "index" => row'[request[q].agent] \in window'[q]
  /\ revokedSince'[q] \subseteq revokedSince[q]
  /\ \A k \in revokedSince'[q] : Revocations!IsRevoked(k)'

LEMMA SettledSequences ==
  /\ TypeOK /\ StoresAgree => \A a \in settled : a \in Agents /\ row[a].rec.seq \in Int
  /\ TypeOK' /\ StoresAgree' => \A a \in settled' : a \in Agents /\ row'[a].rec.seq \in Int
  BY DEF TypeOK, StoresAgree, Rows, Records

LEMMA ToldSequences ==
  ASSUME TypeOK, NEW r \in Resolvers, NEW i \in DOMAIN answered[r]
  PROVE  /\ answered[r][i].outcome \in Outcomes
         /\ answered[r][i].outcome.kind = "allowed" => answered[r][i].outcome.seq \in Int
<1> DEFINE Answer == [outcome : Outcomes, settled : BOOLEAN]
<1>1. answered[r] \in Seq(Answer)
  BY DEF TypeOK
<1> HIDE DEF Answer
<1>2. answered[r][i] \in Answer
  BY <1>1
<1>3. answered[r][i].outcome \in Outcomes
  BY <1>2 DEF Answer
<1>4. \A o \in Outcomes : o.kind = "allowed" => o.seq \in Int
  BY OutcomeKinds
<1> QED BY <1>3, <1>4

\* What others do, commits of newer records included, takes nothing from a request.
LEMMA UntouchedStep ==
  ASSUME IInv, TypeOK', StoresAgree', StoresKeep, NEW q \in Resolvers, Untouched(q)
  PROVE  RequestOK(q)'
<1> USE DEF Untouched
<1>0. RequestOK(q)
  BY DEF IInv
<1>1. /\ Reading(q)' = Reading(q) /\ Allowing(q)' = Allowing(q) /\ Holding(q)' = Holding(q)
      /\ Rec(q)' = Rec(q) /\ Doc(q)' = Doc(q)
  BY DEF Reading, Allowing, Holding, Rec, Doc
<1>2. Undecided(q)' /\ WindowIsOpen(q)' /\ NotFoundHolds(q)'
  BY <1>0, <1>1 DEF RequestOK, Undecided, WindowIsOpen, NotFoundHolds
<1>3. FoundWasCurrent(q)'
  <2>1. Remaining(found[q], now[q])' = Remaining(found[q], now[q])
    BY DEF Remaining
  <2> QED BY <1>0, <1>1, <2>1 DEF RequestOK, FoundWasCurrent, Facts!HasPointer, StoresKeep
<1>4. AllowedIsValid(q)'
  <2>1. \A c : Allowed(q, c)' = Allowed(q, c)
    BY DEF Allowed, Rec, Doc, Remaining, Min2
  <2> QED BY <1>0, <1>1, <2>1 DEF RequestOK, AllowedIsValid
<1>5. StillRevoked(q)'
  BY DEF StillRevoked
<1>6. GrantHolds(q)'
  BY <1>0, <1>1 DEF RequestOK, GrantHolds
<1>7. ToldWasCurrent(q)' /\ FoundNotAhead(q)' /\ InOrder(q)'
  <2>1. \A a \in settled : row[a].rec.seq \in Int /\ row'[a].rec.seq \in Int
    <3>1. \A a \in settled : row[a].rec.seq \in Int
      BY SettledSequences DEF IInv
    <3>2. \A a \in settled' : row'[a].rec.seq \in Int
      BY SettledSequences
    <3> QED BY <3>1, <3>2 DEF StoresKeep
  <2>2. \A i \in DOMAIN answered[q] :
          answered[q][i].outcome.kind = "allowed" => answered[q][i].outcome.seq \in Int
    BY ToldSequences DEF IInv
  <2>3. Holding(q) => Rec(q).seq \in Int
    BY DocumentHeld, BoundsAssumption DEF Records
  <2>4. ToldWasCurrent(q)'
    <3> SUFFICES ASSUME NEW i \in DOMAIN answered[q],
                        answered[q][i].outcome.kind = "allowed", answered[q][i].settled
                 PROVE  LET a == answered[q][i].outcome
                        IN /\ a.agent \in settled'
                           /\ a.seq <= row'[a.agent].rec.seq
                           /\ Holding(q) /\ request[q].agent = a.agent => a.seq <= Rec(q).seq
      BY <1>1 DEF ToldWasCurrent
    <3> DEFINE a == answered[q][i].outcome
    <3>1. /\ a.agent \in settled /\ a.seq <= row[a.agent].rec.seq
          /\ Holding(q) /\ request[q].agent = a.agent => a.seq <= Rec(q).seq
      BY <1>0 DEF RequestOK, ToldWasCurrent
    <3>2. a.seq \in Int /\ row[a.agent].rec.seq <= row'[a.agent].rec.seq
      BY <2>2, <3>1 DEF StoresKeep
    <3> HIDE DEF a
    <3>3. a.seq <= row'[a.agent].rec.seq
      BY <2>1, <3>1, <3>2
    <3> QED BY <3>1, <3>3 DEF a, StoresKeep
  <2>5. FoundNotAhead(q)'
    <3> SUFFICES ASSUME Holding(q), foundSettled[q]
                 PROVE  /\ request[q].agent \in settled'
                        /\ Rec(q).seq <= row'[request[q].agent].rec.seq
      BY <1>1 DEF FoundNotAhead
    <3>1. request[q].agent \in settled /\ Rec(q).seq <= row[request[q].agent].rec.seq
      BY <1>0 DEF RequestOK, FoundNotAhead
    <3> QED BY <2>1, <2>3, <3>1 DEF StoresKeep
  <2>6. InOrder(q)'
    BY <1>0 DEF RequestOK, InOrder
  <2> QED BY <2>4, <2>5, <2>6
<1> QED BY <1>2, <1>3, <1>4, <1>5, <1>6, <1>7 DEF RequestOK

\* What an allowed answer says, of the record the request holds.
LEMMA AllowingSays ==
  ASSUME IInv, NEW r \in Resolvers, Allowing(r)
  PROVE  LET o == outcome[r]
         IN /\ stage[r] = "audit" /\ Holding(r)
            /\ found[r] \in window[r] /\ found[r] # NoRow /\ Rec(r).body.key = key
            /\ o.agent = request[r].agent /\ o.seq = Rec(r).seq
            /\ o.endpoint = SelectEndpoint(Doc(r))
            /\ o.expiresAt \in Nat
            /\ o.expiresAt <= now[r] + o.endpoint.ttl * TicksPerSecond
            /\ o.expiresAt <= found[r].updatedAt + Rec(r).body.ttl * TicksPerSecond
<1> DEFINE c == outcome[r].credential
<1>1. RequestOK(r) /\ Holding(r) /\ outcome[r] \in Outcomes /\ outcome[r].kind = "allowed"
  BY DEF IInv, TypeOK, Holding, Allowing
<1>2. c \in Credentials \cup {None} /\ outcome[r] # None
  BY <1>1, OutcomeKinds
<1>3. /\ found[r] \in Rows \cap window[r] /\ Rec(r).body.key = key
      /\ Remaining(found[r], now[r]) > 0 /\ request[r].agent \in Agents
      /\ Validate(Doc(r), request[r].agent, request[r].capability, now[r])
      /\ outcome[r] = Allowed(r, c)
  BY <1>1 DEF RequestOK, FoundWasCurrent, WindowIsOpen, AllowedIsValid
<1> HIDE DEF c
<1>4. /\ Allowed(r, c).agent = request[r].agent /\ Allowed(r, c).seq = Rec(r).seq
      /\ Allowed(r, c).endpoint = SelectEndpoint(Doc(r))
      /\ Allowed(r, c).expiresAt \in Nat
      /\ Allowed(r, c).expiresAt <= now[r] + SelectEndpoint(Doc(r)).ttl * TicksPerSecond
      /\ Allowed(r, c).expiresAt <= found[r].updatedAt + Rec(r).body.ttl * TicksPerSecond
  BY <1>2, <1>3, AllowedTyped DEF IInv
<1>5. stage[r] = "audit"
  BY <1>1, <1>2 DEF RequestOK, Undecided
<1> QED BY <1>1, <1>3, <1>4, <1>5, NoneAssumption

\* A request that does not hold a record owes little.
LEMMA NotHoldingStep ==
  ASSUME IInv, NEW r \in Resolvers, UNCHANGED <<row, settled>>, answered'[r] = answered[r],
         stage'[r] \in {"idle", "index", "audit"}, outcome'[r].kind # "allowed",
         Undecided(r)', WindowIsOpen(r)', StillRevoked(r)', NotFoundHolds(r)'
  PROVE  RequestOK(r)'
<1>1. ~ Holding(r)' /\ ~ Allowing(r)' /\ stage'[r] # "trust"
  BY DEF Holding, Reading, Allowing
<1>2. ToldWasCurrent(r)' /\ InOrder(r)'
  BY <1>1 DEF IInv, RequestOK, ToldWasCurrent, InOrder
<1> QED BY <1>1, <1>2 DEF RequestOK, FoundWasCurrent, AllowedIsValid, GrantHolds, FoundNotAhead

LEMMA DenyStep ==
  ASSUME IInv, NEW r \in Resolvers, NEW event, NEW reason, Decide(r, Denied(event, reason)),
         UNCHANGED <<storeVars, requestVars, answered, revokedSince>>,
         window'[r] = window[r], reason = "notFound" => NoRow \in window[r]
  PROVE  RequestOK(r)'
<1>1. stage'[r] = "audit" /\ outcome'[r] = Denied(event, reason)
  BY DEF Decide, IInv, TypeOK
<1>2. outcome'[r].kind = "denied" /\ outcome'[r].reason = reason
  BY <1>1 DEF Denied
<1>3. RequestOK(r) /\ UNCHANGED <<row, settled, revocations>>
  BY DEF IInv, storeVars
<1>4. Undecided(r)' /\ WindowIsOpen(r)' /\ NotFoundHolds(r)'
  BY <1>1, <1>2 DEF Undecided, WindowIsOpen, Holding, Reading, Allowing, NotFoundHolds
<1>5. StillRevoked(r)'
  BY <1>3 DEF RequestOK, StillRevoked, Revocations!IsRevoked
<1> QED BY <1>1, <1>2, <1>3, <1>4, <1>5, NotHoldingStep

\* From one read to the next.
LEMMA ReadOnStep ==
  ASSUME IInv, NEW r \in Resolvers, Reading(r), stage'[r] \in {"facts", "trust"},
         stage'[r] = "trust" =>
           Validate(Doc(r), request[r].agent, request[r].capability, now[r]),
         UNCHANGED <<storeVars, requestVars, found, outcome, answered, historyVars>>
  PROVE  RequestOK(r)'
<1>1. RequestOK(r) /\ outcome[r] = None /\ Holding(r) /\ ~ Allowing(r)
  <2>1. RequestOK(r) /\ outcome[r] = None
    BY DEF IInv, RequestOK, Undecided, Reading
  <2> QED BY <2>1 DEF Holding, Allowing, None
<1>2. UNCHANGED <<row, settled, revocations, pointers, key, request, now, foundSettled, window, revokedSince>>
  BY DEF storeVars, requestVars, historyVars, factsVars
<1>3. /\ Holding(r)' /\ ~ Allowing(r)' /\ Rec(r)' = Rec(r) /\ Doc(r)' = Doc(r)
      /\ Remaining(found[r], now[r])' = Remaining(found[r], now[r])
  BY <1>1, <1>2 DEF Holding, Reading, Allowing, Rec, Doc, Remaining
<1>4. Undecided(r)' /\ WindowIsOpen(r)' /\ FoundWasCurrent(r)' /\ NotFoundHolds(r)'
  BY <1>1, <1>2, <1>3 DEF RequestOK, Undecided, WindowIsOpen, FoundWasCurrent, NotFoundHolds,
                          Facts!HasPointer
<1>5. AllowedIsValid(r)' /\ GrantHolds(r)' /\ StillRevoked(r)'
  BY <1>1, <1>2, <1>3 DEF RequestOK, AllowedIsValid, GrantHolds, StillRevoked, Revocations!IsRevoked
<1>6. ToldWasCurrent(r)' /\ FoundNotAhead(r)' /\ InOrder(r)'
  BY <1>1, <1>2, <1>3 DEF RequestOK, ToldWasCurrent, FoundNotAhead, InOrder
<1> QED BY <1>4, <1>5, <1>6 DEF RequestOK

\* The decision to allow, with a credential if one was required.
LEMMA AllowStep ==
  ASSUME IInv, NEW r \in Resolvers, Reading(r), NEW c \in Credentials \cup {None},
         Decide(r, Allowed(r, c)),
         Validate(Doc(r), request[r].agent, request[r].capability, now[r]),
         request[r].capability # NoCapability =>
           /\ c # None
           /\ Grants(c, request[r].agent, request[r].capability, now[r])
           /\ Key(c) \notin revokedSince[r],
         UNCHANGED <<storeVars, requestVars, found, answered, historyVars>>
  PROVE  RequestOK(r)'
<1>1. RequestOK(r) /\ Holding(r)
  BY DEF IInv, Holding
<1>2. UNCHANGED <<row, settled, revocations, pointers, key, request, now, foundSettled, window, revokedSince>>
  BY DEF storeVars, requestVars, historyVars, factsVars
<1>3. stage'[r] = "audit" /\ outcome'[r] = Allowed(r, c)
  BY DEF Decide, IInv, TypeOK
<1>4. Allowed(r, c).kind = "allowed" /\ Allowed(r, c).credential = c
  BY MayBeAllowed
<1>5. /\ Holding(r)' /\ Allowing(r)' /\ Rec(r)' = Rec(r) /\ Doc(r)' = Doc(r)
      /\ Remaining(found[r], now[r])' = Remaining(found[r], now[r])
      /\ Allowed(r, c)' = Allowed(r, c)
  BY <1>2, <1>3, <1>4 DEF Holding, Allowing, Rec, Doc, Remaining, Allowed
<1>6. Undecided(r)' /\ WindowIsOpen(r)' /\ FoundWasCurrent(r)' /\ NotFoundHolds(r)'
  BY <1>1, <1>2, <1>3, <1>4, <1>5 DEF RequestOK, Undecided, WindowIsOpen, FoundWasCurrent,
                                     NotFoundHolds, Facts!HasPointer
<1>7. AllowedIsValid(r)'
  <2>1. outcome'[r] = Allowed(r, outcome[r].credential)'
    BY <1>2, <1>3, <1>4, <1>5 DEF Allowed, Rec, Doc, Remaining
  <2> QED BY <1>2, <1>5, <2>1 DEF AllowedIsValid
<1>8. GrantHolds(r)' /\ StillRevoked(r)'
  BY <1>1, <1>2, <1>3, <1>4 DEF RequestOK, GrantHolds, StillRevoked, Revocations!IsRevoked
<1>9. ToldWasCurrent(r)' /\ FoundNotAhead(r)' /\ InOrder(r)'
  BY <1>1, <1>2, <1>5 DEF RequestOK, ToldWasCurrent, FoundNotAhead, InOrder
<1> QED BY <1>6, <1>7, <1>8, <1>9 DEF RequestOK

\* The answer of a request joins those its client had before.
LEMMA AnswerStep ==
  ASSUME IInv, NEW r \in Resolvers, AppendAudit(r)
  PROVE  ToldWasCurrent(r)' /\ InOrder(r)'
<1> DEFINE s == answered[r]
           n == Len(s)
           told == Told(r)
           kept(i) == s[i].outcome
<1>1. /\ UNCHANGED <<row, settled>> /\ stage'[r] = "idle" /\ outcome'[r] = None
      /\ answered'[r] = Append(s, told)
  BY DEF AppendAudit, Forget, storeVars, IInv, TypeOK
<1>2. RequestOK(r) /\ TypeOK /\ told.outcome = outcome[r] /\ told.settled = foundSettled[r]
  BY DEF IInv, Told
<1>3. n \in Nat /\ DOMAIN s = 1..n
  <2> DEFINE Answer == [outcome : Outcomes, settled : BOOLEAN]
  <2>1. s \in Seq(Answer)
    BY <1>2 DEF TypeOK
  <2> HIDE DEF Answer
  <2> QED BY <2>1
<1> HIDE DEF told, s
<1>4. /\ DOMAIN answered'[r] = 1..(n + 1) /\ answered'[r][n + 1] = told
      /\ \A i \in 1..n : answered'[r][i] = s[i]
  <2> DEFINE Answer == [outcome : Outcomes, settled : BOOLEAN]
  <2>1. s \in Seq(Answer)
    BY <1>2 DEF TypeOK, s
  <2> HIDE DEF Answer
  <2> QED BY <1>1, <1>3, <2>1
<1>5. Allowing(r) => /\ outcome[r].agent = request[r].agent /\ outcome[r].seq = Rec(r).seq
                     /\ Holding(r)
  BY AllowingSays
<1>6. ~ Holding(r)'
  BY <1>1 DEF Holding, Reading, Allowing, None
<1>7. \A i \in 1..n : kept(i).kind = "allowed" /\ s[i].settled =>
        /\ kept(i).agent \in settled /\ kept(i).seq <= row[kept(i).agent].rec.seq
        /\ Holding(r) /\ request[r].agent = kept(i).agent => kept(i).seq <= Rec(r).seq
  BY <1>2, <1>3 DEF RequestOK, ToldWasCurrent, s
<1>8. Allowing(r) /\ foundSettled[r] =>
        /\ outcome[r].agent \in settled /\ outcome[r].seq <= row[outcome[r].agent].rec.seq
  BY <1>2, <1>5 DEF RequestOK, FoundNotAhead
<1>9. ToldWasCurrent(r)'
  <2> SUFFICES ASSUME NEW i \in 1..(n + 1),
                      answered'[r][i].outcome.kind = "allowed", answered'[r][i].settled
               PROVE  LET a == answered'[r][i].outcome
                      IN a.agent \in settled /\ a.seq <= row[a.agent].rec.seq
    BY <1>1, <1>4, <1>6 DEF ToldWasCurrent
  <2>1. CASE i \in 1..n
    BY <1>4, <1>7, <2>1
  <2>2. CASE i = n + 1
    BY <1>2, <1>4, <1>8, <2>2 DEF Allowing
  <2> QED BY <1>3, <2>1, <2>2
<1>10. InOrder(r)'
  <2> SUFFICES ASSUME NEW i \in 1..(n + 1), NEW j \in 1..(n + 1), i < j,
                      answered'[r][i].outcome.kind = "allowed",
                      answered'[r][j].outcome.kind = "allowed",
                      answered'[r][i].outcome.agent = answered'[r][j].outcome.agent,
                      answered'[r][i].settled
               PROVE  answered'[r][i].outcome.seq <= answered'[r][j].outcome.seq
    BY <1>4 DEF InOrder
  <2>1. i \in 1..n /\ (j \in 1..n \/ j = n + 1)
    BY <1>3
  <2>2. CASE j \in 1..n
    BY <1>2, <1>3, <1>4, <2>1, <2>2 DEF RequestOK, InOrder, s
  <2>3. CASE j = n + 1
    <3>1. Allowing(r)
      BY <1>2, <1>4, <2>3 DEF Allowing
    <3>2. request[r].agent = kept(i).agent /\ outcome[r].seq = Rec(r).seq /\ Holding(r)
      BY <1>2, <1>4, <1>5, <2>1, <2>3, <3>1
    <3>3. kept(i).seq <= Rec(r).seq
      BY <1>4, <1>7, <2>1, <3>2
    <3> QED BY <1>2, <1>4, <2>1, <2>3, <3>2, <3>3
  <2> QED BY <2>1, <2>2, <2>3
<1> QED BY <1>9, <1>10

\* Get returns a record that verifies and is fresh.
LEMMA FoundStep ==
  ASSUME IInv, NEW r \in Resolvers, ReadIndex(r), found'[r] = row[request[r].agent],
         stage'[r] = "pointer", UNCHANGED outcome,
         row[request[r].agent] # NoRow, row[request[r].agent].rec.body.key = key,
         Remaining(row[request[r].agent], now[r]) > 0
  PROVE  RequestOK(r)'
<1> DEFINE a == request[r].agent
           x == row[a]
<1>1. RequestOK(r) /\ StoresAgree /\ TypeOK /\ stage[r] = "index"
  BY DEF IInv, ReadIndex
<1>2. a \in Agents /\ x \in window[r] /\ x \in Rows /\ outcome[r] = None
  BY <1>1 DEF RequestOK, WindowIsOpen, Undecided, TypeOK
<1>3. /\ UNCHANGED <<row, settled, revocations, pointers, key, request, now, answered, window, revokedSince>>
      /\ foundSettled'[r] = (a \in settled)
  BY <1>1 DEF ReadIndex, storeVars, requestVars, factsVars, TypeOK
<1>4. Holding(r)' /\ ~ Allowing(r)' /\ Rec(r)' = x.rec /\ Doc(r)' = x.rec.body.doc
  BY <1>2 DEF Holding, Reading, Allowing, Rec, Doc, None
<1>5. Remaining(found[r], now[r])' > 0
  BY <1>3 DEF Remaining
<1>6. Facts!HasPointer(x.rec.body.doc)
  BY <1>1, <1>2 DEF StoresAgree
<1>7. Undecided(r)' /\ WindowIsOpen(r)' /\ FoundWasCurrent(r)' /\ NotFoundHolds(r)'
  BY <1>2, <1>3, <1>4, <1>5, <1>6 DEF Undecided, WindowIsOpen, FoundWasCurrent, NotFoundHolds,
                                     None, Facts!HasPointer
<1>8. AllowedIsValid(r)' /\ GrantHolds(r)' /\ StillRevoked(r)'
  BY <1>1, <1>3, <1>4 DEF RequestOK, AllowedIsValid, GrantHolds, StillRevoked, Revocations!IsRevoked
<1>9. ToldWasCurrent(r)' /\ InOrder(r)'
  BY <1>1, <1>3, <1>4 DEF RequestOK, ToldWasCurrent, InOrder
<1>10. FoundNotAhead(r)'
  <2>1. a \in settled => x.rec.seq <= x.rec.seq
    BY <1>1, SettledSequences
  <2> QED BY <1>3, <1>4, <2>1 DEF FoundNotAhead
<1> QED BY <1>7, <1>8, <1>9, <1>10 DEF RequestOK

RequestStep(r) ==
  \/ \E a \in Agents \cup {BlankAgent}, c \in Capabilities \cup {NoCapability} : Receive(r, a, c)
  \/ Proceed(r) \/ FailRead(r) \/ FailAudit(r)

\* One request's step keeps what is owed to its client.
LEMMA OwnStep ==
  ASSUME IInv, NEW r \in Resolvers, RequestStep(r)
  PROVE  RequestOK(r)'
<1>0. RequestOK(r) /\ TypeOK
  BY DEF IInv
<1>1. ASSUME NEW a \in Agents \cup {BlankAgent}, NEW c \in Capabilities \cup {NoCapability},
             Receive(r, a, c)
      PROVE  RequestOK(r)'
  <2>1. stage[r] = "idle" /\ outcome[r] = None /\ UNCHANGED <<storeVars, answered>>
        /\ request'[r].agent = a
    BY <1>0, <1>1 DEF Receive, RequestOK, Undecided, TypeOK
  <2>2. UNCHANGED <<row, settled, revocations>>
    BY <2>1 DEF storeVars
  <2>3. CASE a = BlankAgent
    <3>1. /\ stage'[r] = "audit" /\ outcome'[r] = Denied("resolve.denied", "validation")
          /\ UNCHANGED historyVars
      BY <1>0, <1>1, <2>3 DEF Receive, Decide, TypeOK
    <3>2. outcome'[r].kind = "denied" /\ outcome'[r].reason = "validation"
      BY <3>1 DEF Denied
    <3>3. Undecided(r)' /\ WindowIsOpen(r)' /\ NotFoundHolds(r)'
      BY <3>1, <3>2 DEF Undecided, WindowIsOpen, Holding, Reading, Allowing, NotFoundHolds
    <3>4. StillRevoked(r)'
      BY <1>0, <2>2, <3>1 DEF RequestOK, StillRevoked, Revocations!IsRevoked, historyVars
    <3> QED BY <2>1, <2>2, <3>1, <3>2, <3>3, <3>4, NotHoldingStep
  <2>4. CASE a # BlankAgent
    <3>1. /\ stage'[r] = "index" /\ outcome'[r] = None
          /\ window'[r] = {row[a]}
          /\ revokedSince'[r] = {k \in Keys : Revocations!IsRevoked(k)}
      BY <1>0, <1>1, <2>1, <2>4 DEF Receive, TypeOK
    <3>2. outcome'[r].kind = "none"
      BY <3>1 DEF None
    <3>3. Undecided(r)' /\ WindowIsOpen(r)' /\ NotFoundHolds(r)'
      BY <2>1, <2>2, <2>4, <3>1, <3>2 DEF Undecided, WindowIsOpen, Holding, Reading, Allowing, NotFoundHolds
    <3>4. StillRevoked(r)'
      BY <2>2, <3>1 DEF StillRevoked, Revocations!IsRevoked
    <3> QED BY <2>1, <2>2, <3>1, <3>2, <3>3, <3>4, NotHoldingStep
  <2> QED BY <2>3, <2>4
<1>2. ASSUME ReadIndex(r)
      PROVE  RequestOK(r)'
  <2> DEFINE x == row[request[r].agent]
             good == x # NoRow /\ x.rec.body.key = key /\ Remaining(x, now[r]) > 0
  <2>1. x \in window[r]
    BY <1>0, <1>2 DEF ReadIndex, RequestOK, WindowIsOpen
  <2>2. CASE good
    BY <1>0, <1>2, <2>2, FoundStep DEF ReadIndex, TypeOK
  <2>3. CASE ~good
    <3>1. /\ \/ x = NoRow /\ Decide(r, Denied("resolve.denied", "notFound"))
             \/ Decide(r, Denied("resolve.denied", "verification"))
             \/ Decide(r, Denied("resolve.denied", "expired"))
          /\ UNCHANGED <<storeVars, requestVars, answered, window, revokedSince>>
      BY <1>2, <2>3, Zenon DEF ReadIndex
    <3>2. x = NoRow => NoRow \in window[r]
      BY <2>1
    <3> QED BY <3>1, <3>2, DenyStep
  <2> QED BY <2>2, <2>3
<1>3. ASSUME ReadPointer(r)
      PROVE  RequestOK(r)'
  <2>1. Reading(r) /\ Facts!HasPointer(Doc(r))
    BY <1>0, <1>3 DEF ReadPointer, Reading, Holding, RequestOK, FoundWasCurrent
  <2>2. stage'[r] = "facts" /\ UNCHANGED <<storeVars, requestVars, found, outcome, answered, historyVars>>
    BY <1>0, <1>3, <2>1 DEF ReadPointer, TypeOK
  <2> QED BY <2>1, <2>2, ReadOnStep
<1>4. ASSUME ReadFacts(r)
      PROVE  RequestOK(r)'
  <2> DEFINE c == request[r].capability
             valid == file[Doc(r)] = "whole" /\ Validate(Doc(r), request[r].agent, c, now[r])
  <2>1. stage[r] = "facts" /\ Reading(r)
        /\ UNCHANGED <<storeVars, requestVars, found, answered, historyVars>>
    BY <1>4 DEF ReadFacts, Reading
  <2>2. Facts!HasFile(Doc(r))
    <3>1. Facts!HasPointer(Doc(r)) /\ Doc(r) \in Documents
      BY <1>0, <2>1, DocumentHeld DEF Holding, RequestOK, FoundWasCurrent
    <3> QED BY <3>1 DEF IInv, StoresAgree
  <2>3. CASE ~valid
    <3>1. Decide(r, Denied("resolve.denied", "validation"))
      BY <1>4, <2>2, <2>3 DEF ReadFacts
    <3> QED BY <2>1, <3>1, DenyStep DEF historyVars
  <2>4. CASE valid /\ c = NoCapability
    <3>1. Decide(r, Allowed(r, None))
      BY <1>4, <2>2, <2>4 DEF ReadFacts
    <3> QED BY <2>1, <2>4, <3>1, AllowStep
  <2>5. CASE valid /\ c # NoCapability
    <3>1. stage' = [stage EXCEPT ![r] = "trust"] /\ UNCHANGED outcome
      BY <1>4, <2>2, <2>5 DEF ReadFacts
    <3>2. stage'[r] = "trust"
      BY <1>0, <3>1 DEF TypeOK
    <3> QED BY <2>1, <2>5, <3>1, <3>2, ReadOnStep
  <2> QED BY <2>3, <2>4, <2>5
<1>5. ASSUME RefuseCredential(r)
      PROVE  RequestOK(r)'
  <2>1. stage[r] = "trust" /\ Reading(r) /\ stage'[r] = "trust"
        /\ UNCHANGED <<storeVars, requestVars, found, outcome, answered, historyVars>>
    BY <1>5 DEF RefuseCredential, Reading
  <2> QED BY <1>0, <2>1, ReadOnStep DEF RequestOK, AllowedIsValid
<1>6. ASSUME AcceptCredential(r)
      PROVE  RequestOK(r)'
  <2> DEFINE c == Doc(r).credentials[NextCandidate(r)]
  <2>1. stage[r] = "trust" /\ Reading(r) /\ Candidates(r) # {}
        /\ ~Revocations!IsRevoked(Key(c)) /\ Decide(r, Allowed(r, c))
        /\ UNCHANGED <<storeVars, requestVars, found, answered, historyVars>>
    BY <1>6 DEF AcceptCredential, Reading
  <2>2. c \in Credentials /\ Grants(c, request[r].agent, request[r].capability, now[r])
    BY <2>1, DocumentHeld, NextCandidateGrants DEF Holding
  <2>3. Key(c) \notin revokedSince[r] /\ c # None
    BY <1>0, <2>1, <2>2, NoneAssumption DEF RequestOK, StillRevoked
  <2> HIDE DEF c
  <2> QED BY <1>0, <2>1, <2>2, <2>3, AllowStep DEF RequestOK, AllowedIsValid
<1>7. ASSUME DenyTrust(r)
      PROVE  RequestOK(r)'
  BY <1>7, DenyStep DEF DenyTrust, historyVars
<1>8. ASSUME FailRead(r)
      PROVE  RequestOK(r)'
  BY <1>8, DenyStep DEF FailRead, historyVars
<1>9. ASSUME AppendAudit(r) \/ FailAudit(r)
      PROVE  RequestOK(r)'
  <2>1. /\ stage'[r] = "idle" /\ outcome'[r] = None /\ revokedSince'[r] = {}
        /\ UNCHANGED <<row, settled>>
    BY <1>0, <1>9 DEF AppendAudit, FailAudit, Forget, storeVars, TypeOK
  <2>2. outcome'[r].kind = "none"
    BY <2>1 DEF None
  <2>3. Undecided(r)' /\ WindowIsOpen(r)' /\ NotFoundHolds(r)' /\ StillRevoked(r)'
    BY <2>1, <2>2 DEF Undecided, WindowIsOpen, Holding, Reading, Allowing, NotFoundHolds, StillRevoked
  <2>4. CASE AppendAudit(r)
    <3>1. ~ Holding(r)' /\ ~ Allowing(r)'
      BY <2>1, <2>2 DEF Holding, Reading, Allowing
    <3>2. FoundWasCurrent(r)' /\ AllowedIsValid(r)' /\ GrantHolds(r)' /\ FoundNotAhead(r)'
      BY <2>1, <3>1 DEF FoundWasCurrent, AllowedIsValid, GrantHolds, FoundNotAhead
    <3> QED BY <2>3, <2>4, <3>2, AnswerStep DEF RequestOK
  <2>5. CASE FailAudit(r)
    BY <2>1, <2>2, <2>3, <2>5, NotHoldingStep DEF FailAudit
  <2> QED BY <1>9, <2>4, <2>5
<1> QED BY <1>1, <1>2, <1>3, <1>4, <1>5, <1>6, <1>7, <1>8, <1>9 DEF RequestStep, Proceed

\* It leaves the other requests alone.
LEMMA OthersUntouched ==
  ASSUME IInv, NEW r \in Resolvers, RequestStep(r), NEW q \in Resolvers \ {r}
  PROVE  Untouched(q)
<1>0. RequestOK(q) /\ TypeOK
  BY DEF IInv
<1>1. UNCHANGED storeVars
  BY DEF RequestStep, Receive, Proceed, ReadIndex, ReadPointer, ReadFacts, RefuseCredential,
         AcceptCredential, DenyTrust, AppendAudit, FailRead, FailAudit
<1>2. /\ stage'[q] = stage[q] /\ request'[q] = request[q] /\ now'[q] = now[q] /\ found'[q] = found[q]
      /\ outcome'[q] = outcome[q] /\ answered'[q] = answered[q] /\ foundSettled'[q] = foundSettled[q]
      /\ window'[q] = window[q] /\ revokedSince'[q] = revokedSince[q]
  <2>1. CASE \E a \in Agents \cup {BlankAgent}, c \in Capabilities \cup {NoCapability} : Receive(r, a, c)
    BY <1>0, <2>1 DEF Receive, Decide, historyVars, TypeOK
  <2>2. CASE ReadIndex(r)
    BY <1>0, <2>2 DEF ReadIndex, Decide, requestVars, TypeOK
  <2>3. CASE ReadPointer(r) \/ ReadFacts(r) \/ RefuseCredential(r) \/ AcceptCredential(r)
             \/ DenyTrust(r) \/ FailRead(r)
    <3>1. UNCHANGED <<requestVars, found, answered, historyVars>>
      BY <2>3 DEF ReadPointer, ReadFacts, RefuseCredential, AcceptCredential, DenyTrust, FailRead
    <3>2. stage'[q] = stage[q] /\ outcome'[q] = outcome[q]
      BY <1>0, <2>3 DEF ReadPointer, ReadFacts, RefuseCredential, AcceptCredential, DenyTrust,
                        FailRead, Decide, TypeOK
    <3> QED BY <3>1, <3>2 DEF requestVars, historyVars
  <2>4. CASE AppendAudit(r) \/ FailAudit(r)
    BY <1>0, <2>4 DEF AppendAudit, FailAudit, Forget, requestVars, TypeOK
  <2> QED BY <2>1, <2>2, <2>3, <2>4 DEF RequestStep, Proceed
<1>3. UNCHANGED <<row, revocations, key>>
  BY <1>1 DEF storeVars
<1> QED BY <1>0, <1>2, <1>3 DEF Untouched, RequestOK, WindowIsOpen, StillRevoked, Revocations!IsRevoked

\* Registrations, administrators and time leave every request untouched.
LEMMA OthersAct ==
  ASSUME IInv, NEW q \in Resolvers,
         \/ Tick \/ UNCHANGED vars
         \/ \E d \in Documents : TruncateFile(d) \/ WriteFile(d) \/ PutPointer(d)
         \/ \E rec \in Records, t \in 0..MaxTime : CommitRecord(rec, t)
         \/ \E a \in Agents : EndFirst(a)
         \/ \E k \in Keys, status \in Revocations!Statuses : SetStatus(k, status)
  PROVE  Untouched(q)
<1>0. RequestOK(q) /\ TypeOK /\ WindowIsOpen(q) /\ \A k \in revokedSince[q] : revocations[k] = "revoked"
  BY DEF IInv, RequestOK, StillRevoked, Revocations!IsRevoked
<1>1. CASE /\ UNCHANGED <<revocations, row, key, historyVars, stage, request, now>>
           /\ UNCHANGED <<found, outcome, answered>>
  BY <1>0, <1>1 DEF Untouched, WindowIsOpen, historyVars, Revocations!IsRevoked
<1>2. CASE \/ Tick \/ UNCHANGED vars
           \/ \E d \in Documents : TruncateFile(d) \/ WriteFile(d) \/ PutPointer(d)
           \/ \E a \in Agents : EndFirst(a)
  BY <1>1, <1>2 DEF Tick, TruncateFile, WriteFile, PutPointer, EndFirst, otherVars, requestVars,
                    vars, storeVars, historyVars
<1>3. ASSUME NEW rec \in Records, NEW t \in 0..MaxTime, CommitRecord(rec, t)
      PROVE  Untouched(q)
  <2>1. /\ row' = [row EXCEPT ![rec.agent] = [rec |-> rec, updatedAt |-> t]]
        /\ window'[q] = IF InFlight(q) /\ request[q].agent = rec.agent
                          THEN window[q] \cup {row'[rec.agent]} ELSE window[q]
        /\ UNCHANGED <<revocations, key, otherVars, foundSettled, revokedSince>>
    BY <1>3 DEF CommitRecord, Commit
  <2>2. stage[q] = "index" => row'[request[q].agent] \in window'[q]
    <3>1. CASE request[q].agent = rec.agent
      BY <2>1, <3>1 DEF InFlight
    <3>2. CASE request[q].agent # rec.agent
      BY <1>0, <2>1, <3>2 DEF WindowIsOpen, TypeOK
    <3> QED BY <3>1, <3>2
  <2> QED BY <1>0, <2>1, <2>2 DEF Untouched, otherVars, requestVars, Revocations!IsRevoked
<1>4. ASSUME NEW k \in Keys, NEW status \in Revocations!Statuses, SetStatus(k, status)
      PROVE  Untouched(q)
  <2>1. /\ UNCHANGED <<row, key, otherVars, foundSettled, window>>
        /\ revocations' = [revocations EXCEPT ![k] = status]
        /\ revokedSince'[q] = IF status = "revoked" THEN revokedSince[q] ELSE revokedSince[q] \ {k}
    BY <1>4 DEF SetStatus, Revocations!SetStatus
  <2>2. revocations \in [Keys -> Revocations!Statuses \cup {"none"}] /\ revokedSince[q] \subseteq Keys
    BY <1>0 DEF TypeOK, Revocations!RevocationsTypeOK
  <2>3. revokedSince'[q] \subseteq revokedSince[q]
        /\ \A c \in revokedSince'[q] : revocations'[c] = "revoked"
    BY <1>0, <2>1, <2>2
  <2> QED BY <1>0, <2>1, <2>3 DEF Untouched, WindowIsOpen, otherVars, requestVars, Revocations!IsRevoked
<1> QED BY <1>2, <1>3, <1>4

\* A restart ends every request.
LEMMA RestartStep ==
  ASSUME IInv, NEW k \in SigningKeys, Restart(k), NEW q \in Resolvers
  PROVE  RequestOK(q)'
<1>1. /\ stage'[q] = "idle" /\ outcome'[q] = None /\ revokedSince'[q] = {}
      /\ UNCHANGED <<row, settled, answered>>
  BY DEF Restart
<1>2. outcome'[q].kind = "none"
  BY <1>1 DEF None
<1>3. Undecided(q)' /\ WindowIsOpen(q)' /\ NotFoundHolds(q)' /\ StillRevoked(q)'
  BY <1>1, <1>2 DEF Undecided, WindowIsOpen, Holding, Reading, Allowing, NotFoundHolds, StillRevoked
<1> QED BY <1>1, <1>2, <1>3, NotHoldingStep

LEMMA InvariantHolds == Spec => []IInv
<1>1. Init => IInv
  <2> SUFFICES ASSUME Init PROVE IInv
    OBVIOUS
  <2>1. None \in Outcomes
    BY DEF Outcomes
  <2>2. TypeOK
    BY <2>1, BoundsAssumption
    DEF Init, TypeOK, Facts!FactsInit, Facts!FactsTypeOK, Facts!FileStates, Log!Init,
        Revocations!RevocationsInit, Revocations!RevocationsTypeOK
  <2>3. StoresAgree
    BY DEF Init, StoresAgree, Facts!FactsInit, Facts!HasPointer
  <2>4. ASSUME NEW r \in Resolvers PROVE RequestOK(r)
    <3>1. stage[r] = "idle" /\ outcome[r] = None /\ answered[r] = << >> /\ revokedSince[r] = {}
      BY DEF Init
    <3>2. outcome[r].kind = "none"
      BY <3>1 DEF None
    <3>3. ~ Holding(r) /\ ~ Allowing(r)
      BY <3>1, <3>2 DEF Holding, Reading, Allowing
    <3> QED BY <3>1, <3>2, <3>3
            DEF RequestOK, Undecided, WindowIsOpen, FoundWasCurrent, AllowedIsValid, StillRevoked,
                GrantHolds, NotFoundHolds, ToldWasCurrent, FoundNotAhead, InOrder
  <2> QED BY <2>2, <2>3, <2>4 DEF IInv
<1>2. IInv /\ [Next]_vars => IInv'
  <2> SUFFICES ASSUME IInv, [Next]_vars
               PROVE  IInv'
    OBVIOUS
  <2>1. TypeOK' /\ StoresAgree' /\ StoresKeep
    <3>1. StoreTypes' /\ RequestTypes' /\ HistoryTypes'
      BY StoreTypesStep, RequestTypesStep DEF IInv
    <3>2. TypeOK'
      BY <3>1 DEF TypeOK, StoreTypes, RequestTypes, HistoryTypes
    <3> QED BY <3>2, StoresStep DEF IInv
  <2>2. ASSUME NEW q \in Resolvers PROVE RequestOK(q)'
    <3>1. ASSUME NEW r \in Resolvers, RequestStep(r) PROVE RequestOK(q)'
      <4>1. CASE q = r
        BY <3>1, <4>1, OwnStep
      <4>2. CASE q # r
        BY <2>1, <3>1, <4>2, OthersUntouched, UntouchedStep
      <4> QED BY <4>1, <4>2
    <3>2. ASSUME NEW k \in SigningKeys, Restart(k) PROVE RequestOK(q)'
      BY <3>2, RestartStep
    <3>3. CASE ~ ((\E r \in Resolvers : RequestStep(r)) \/ (\E k \in SigningKeys : Restart(k)))
      <4>1. Untouched(q)
        BY <3>3, OthersAct DEF Next, RequestStep
      <4> QED BY <2>1, <4>1, UntouchedStep
    <3> QED BY <3>1, <3>2, <3>3
  <2> QED BY <2>1, <2>2 DEF IInv
<1> QED BY <1>1, <1>2, PTL DEF Spec

-----------------------------------------------------------------------------
(* What clients can rely on.                                                  *)

\* Stores, requests and histories have their types.
THEOREM TypeCorrect == Spec => []TypeOK
<1>1. IInv => TypeOK
  BY DEF IInv
<1> QED BY <1>1, InvariantHolds, PTL

\* An allowed answer is that of one record which was current during the request and
\* is signed with the server's key, whatever ran between its reads.
THEOREM AnsweredFromCurrentRecordAlways == Spec => []AnsweredFromCurrentRecord
<1>1. IInv => AnsweredFromCurrentRecord
  BY AllowingSays DEF AnsweredFromCurrentRecord, Rec, Doc
<1> QED BY <1>1, InvariantHolds, PTL

\* A response expires no later than its endpoint's TTL and its record's.
THEOREM CachedWithinBothTTLsAlways == Spec => []CachedWithinBothTTLs
<1>1. IInv => CachedWithinBothTTLs
  <2> SUFFICES ASSUME IInv, NEW r \in Resolvers, Allowing(r)
               PROVE  /\ outcome[r].expiresAt <= now[r] + outcome[r].endpoint.ttl * TicksPerSecond
                      /\ \E x \in window[r] \ {NoRow} :
                           /\ outcome[r].seq = x.rec.seq
                           /\ \A t \in now[r]..(outcome[r].expiresAt - 1) : ~Expired(x, t)
    BY DEF CachedWithinBothTTLs
  <2> DEFINE end == found[r].updatedAt + found[r].rec.body.ttl * TicksPerSecond
  <2>1. /\ found[r] \in window[r] \ {NoRow} /\ outcome[r].seq = found[r].rec.seq
        /\ outcome[r].expiresAt <= now[r] + outcome[r].endpoint.ttl * TicksPerSecond
        /\ outcome[r].expiresAt \in Nat /\ outcome[r].expiresAt <= end
    BY AllowingSays DEF Rec
  <2>2. end \in Int /\ now[r] \in Int
    <3>1. found[r] \in Rows /\ now[r] \in 0..MaxTime
      BY DocumentHeld DEF Holding, IInv, TypeOK
    <3> QED BY <3>1, DocumentsAssumption, BoundsAssumption DEF Rows, Records
  <2>3. \A t \in now[r]..(outcome[r].expiresAt - 1) : ~ (end <= t)
    <3> HIDE DEF end
    <3> QED BY <2>1, <2>2
  <2> QED BY <2>1, <2>3 DEF Expired
<1> QED BY <1>1, InvariantHolds, PTL

\* No capability is granted by a credential that stayed revoked since before the
\* request began.
THEOREM RevocationIsEffectiveAlways == Spec => []RevocationIsEffective
<1>1. IInv => RevocationIsEffective
  BY DEF IInv, RequestOK, GrantHolds, RevocationIsEffective
<1> QED BY <1>1, InvariantHolds, PTL

\* An agent that stayed registered during a request is not reported as not found.
THEOREM NotFoundIsTrueAlways == Spec => []NotFoundIsTrue
<1>1. IInv => NotFoundIsTrue
  BY DEF IInv, RequestOK, NotFoundHolds, NotFoundIsTrue
<1> QED BY <1>1, InvariantHolds, PTL

\* A client that resolves a settled agent again never gets an older record.
THEOREM SequencesNeverGoBackAlways == Spec => []SequencesNeverGoBack
<1>1. IInv => SequencesNeverGoBack
  BY DEF IInv, RequestOK, InOrder, SequencesNeverGoBack
<1> QED BY <1>1, InvariantHolds, PTL

-----------------------------------------------------------------------------
(* Answers and the audit log                                                  *)

\* AnswersAreAudited, of whatever may have been said.
Audited == \A x : /\ IsFiniteSet(Tellings(x))
                  /\ Cardinality(Tellings(x)) <= Occurrences(log, x)

Places(s, x) == {i \in DOMAIN s : s[i] = x}

\* An event that is appended occurs once more.
LEMMA OneMore ==
  ASSUME NEW S, NEW s \in Seq(S), NEW e \in S, NEW x
  PROVE  /\ Occurrences(s, x) \in Nat
         /\ Occurrences(Append(s, e), x) = Occurrences(s, x) + IF e = x THEN 1 ELSE 0
<1> DEFINE n == Len(s)
<1>1. n \in Nat /\ DOMAIN s = 1..n /\ DOMAIN Append(s, e) = 1..(n + 1)
      /\ Append(s, e)[n + 1] = e /\ \A i \in 1..n : Append(s, e)[i] = s[i]
  OBVIOUS
<1>2. IsFiniteSet(Places(s, x)) /\ Cardinality(Places(s, x)) \in Nat
  <2>1. IsFiniteSet(1..n)
    BY <1>1, FS_Interval
  <2>2. Places(s, x) \subseteq 1..n
    BY <1>1 DEF Places
  <2> QED BY <2>1, <2>2, FS_Subset, FS_CardinalityType
<1>3. Places(Append(s, e), x) = IF e = x THEN Places(s, x) \cup {n + 1} ELSE Places(s, x)
  BY <1>1 DEF Places
<1>4. n + 1 \notin Places(s, x)
  BY <1>1 DEF Places
<1>5. Cardinality(Places(s, x) \cup {n + 1}) = Cardinality(Places(s, x)) + 1
  BY <1>2, <1>4, FS_AddElement
<1>6. Occurrences(s, x) = Cardinality(Places(s, x))
      /\ Occurrences(Append(s, e), x) = Cardinality(Places(Append(s, e), x))
  BY DEF Occurrences, Places
<1> QED BY <1>2, <1>3, <1>5, <1>6

LEMMA Telling ==
  /\ \A x, q : q \in Tellings(x) <=>
       \E r \in Resolvers : \E i \in DOMAIN answered[r] : q = <<r, i>> /\ answered[r][i].outcome = x
  /\ \A x, q : q \in Tellings(x)' <=>
       \E r \in Resolvers : \E i \in DOMAIN answered'[r] : q = <<r, i>> /\ answered'[r][i].outcome = x
  BY DEF Tellings, Answers

\* An answer that is given is one telling more.
LEMMA OneTold ==
  ASSUME TypeOK, NEW r \in Resolvers, AppendAudit(r), NEW x
  PROVE  \/ Tellings(x)' = Tellings(x)
         \/ outcome[r] = x /\ \E q : Tellings(x)' = Tellings(x) \cup {q}
<1> DEFINE Answer == [outcome : Outcomes, settled : BOOLEAN]
           told == Told(r)
           n == Len(answered[r])
<1>1. answered \in [Resolvers -> Seq(Answer)] /\ answered' = [answered EXCEPT ![r] = Append(@, told)]
  BY DEF AppendAudit, TypeOK
<1>2. told.outcome = outcome[r]
  BY DEF Told
<1> HIDE DEF Answer, told
<1>3. /\ n \in Nat /\ DOMAIN answered[r] = 1..n /\ DOMAIN answered'[r] = 1..(n + 1)
      /\ answered'[r][n + 1] = told /\ \A i \in 1..n : answered'[r][i] = answered[r][i]
      /\ \A q \in Resolvers \ {r} : answered'[q] = answered[q]
  BY <1>1
<1>4. \A q : q \in Tellings(x)' <=> q \in Tellings(x) \/ (outcome[r] = x /\ q = <<r, n + 1>>)
  <2>1. ASSUME NEW q, q \in Tellings(x)'
        PROVE  q \in Tellings(x) \/ (outcome[r] = x /\ q = <<r, n + 1>>)
    <3>1. PICK p \in Resolvers : \E i \in DOMAIN answered'[p] : q = <<p, i>> /\ answered'[p][i].outcome = x
      BY <2>1, Telling
    <3>2. PICK i \in DOMAIN answered'[p] : q = <<p, i>> /\ answered'[p][i].outcome = x
      BY <3>1
    <3>3. CASE p = r /\ i = n + 1
      BY <1>2, <1>3, <3>2, <3>3
    <3>4. CASE p # r \/ i \in 1..n
      <4>1. i \in DOMAIN answered[p] /\ answered[p][i] = answered'[p][i]
        BY <1>3, <3>2, <3>4
      <4> QED BY <3>2, <4>1, Telling
    <3> QED BY <1>3, <3>2, <3>3, <3>4
  <2>2. ASSUME NEW q, q \in Tellings(x) PROVE q \in Tellings(x)'
    <3>1. PICK p \in Resolvers : \E i \in DOMAIN answered[p] : q = <<p, i>> /\ answered[p][i].outcome = x
      BY <2>2, Telling
    <3>2. PICK i \in DOMAIN answered[p] : q = <<p, i>> /\ answered[p][i].outcome = x
      BY <3>1
    <3>3. i \in DOMAIN answered'[p] /\ answered'[p][i] = answered[p][i]
      BY <1>3, <3>2
    <3> QED BY <3>2, <3>3, Telling
  <2>3. outcome[r] = x => <<r, n + 1>> \in Tellings(x)'
    <3>1. n + 1 \in DOMAIN answered'[r]
      BY <1>3
    <3> QED BY <1>2, <1>3, <3>1, Telling
  <2> QED BY <2>1, <2>2, <2>3
<1>5. CASE outcome[r] = x
  <2>1. Tellings(x)' = Tellings(x) \cup {<<r, n + 1>>}
    BY <1>4, <1>5
  <2> QED BY <1>5, <2>1
<1>6. CASE outcome[r] # x
  BY <1>4, <1>6
<1> QED BY <1>5, <1>6

LEMMA AuditedStep == TypeOK /\ Audited /\ [Next]_vars => Audited'
<1> SUFFICES ASSUME TypeOK, Audited, [Next]_vars, NEW x
             PROVE  IsFiniteSet(Tellings(x)') /\ Cardinality(Tellings(x)') <= Occurrences(log', x)
  BY DEF Audited, Occurrences
<1>0. log \in Seq(Outcomes) /\ Occurrences(log, x) \in Nat
  <2>1. log \in Seq(Outcomes)
    BY DEF TypeOK
  <2>2. None \in Outcomes
    BY DEF Outcomes
  <2> QED BY <2>1, <2>2, OneMore
<1>1. ASSUME UNCHANGED answered, NEW r \in Resolvers,
             UNCHANGED log \/ log' = Append(log, outcome[r])
      PROVE  IsFiniteSet(Tellings(x)') /\ Cardinality(Tellings(x)') <= Occurrences(log', x)
  <2>1. Tellings(x)' = Tellings(x)
    BY <1>1 DEF Tellings, Answers
  <2>2. outcome[r] \in Outcomes
    BY DEF TypeOK
  <2>3. Occurrences(log', x) \in Nat /\ Occurrences(log, x) <= Occurrences(log', x)
    <3>1. CASE UNCHANGED log
      BY <1>0, <3>1
    <3>2. CASE log' = Append(log, outcome[r])
      <4>1. Occurrences(Append(log, outcome[r]), x)
              = Occurrences(log, x) + IF outcome[r] = x THEN 1 ELSE 0
        BY <1>0, <2>2, OneMore
      <4> QED BY <1>0, <3>2, <4>1
    <3> QED BY <1>1, <3>1, <3>2
  <2>4. IsFiniteSet(Tellings(x)) /\ Cardinality(Tellings(x)) <= Occurrences(log, x)
        /\ Cardinality(Tellings(x)) \in Nat
    BY FS_CardinalityType DEF Audited
  <2> QED BY <1>0, <2>1, <2>3, <2>4
<1>2. ASSUME NEW r \in Resolvers, AppendAudit(r)
      PROVE  IsFiniteSet(Tellings(x)') /\ Cardinality(Tellings(x)') <= Occurrences(log', x)
  <2>1. outcome[r] \in Outcomes /\ log' = Append(log, outcome[r])
    BY <1>2 DEF AppendAudit, Log!AppendEntry, TypeOK
  <2>2. /\ Occurrences(log', x) \in Nat
        /\ Occurrences(log', x) = Occurrences(log, x) + IF outcome[r] = x THEN 1 ELSE 0
    BY <1>0, <2>1, OneMore
  <2>3. IsFiniteSet(Tellings(x)) /\ Cardinality(Tellings(x)) <= Occurrences(log, x)
        /\ Cardinality(Tellings(x)) \in Nat
    BY FS_CardinalityType DEF Audited
  <2>4. CASE Tellings(x)' = Tellings(x)
    BY <1>0, <2>2, <2>3, <2>4
  <2>5. ASSUME NEW q, outcome[r] = x, Tellings(x)' = Tellings(x) \cup {q}
        PROVE  IsFiniteSet(Tellings(x)') /\ Cardinality(Tellings(x)') <= Occurrences(log', x)
    <3>1. IsFiniteSet(Tellings(x) \cup {q})
          /\ Cardinality(Tellings(x) \cup {q}) = Cardinality(Tellings(x)) + IF q \in Tellings(x) THEN 0 ELSE 1
      BY <2>3, FS_AddElement
    <3> QED BY <1>0, <2>2, <2>3, <2>5, <3>1
  <2> QED BY <1>2, <2>4, <2>5, OneTold
<1>3. CASE UNCHANGED <<log, answered>>
  <2>1. Tellings(x)' = Tellings(x)
    BY <1>3 DEF Tellings, Answers
  <2> QED BY <1>3, <2>1 DEF Audited
<1>4. UNCHANGED <<log, answered>> \/ \E r \in Resolvers : AppendAudit(r) \/ FailAudit(r)
  BY DEF Next, Receive, Proceed, ReadIndex, ReadPointer, ReadFacts, RefuseCredential,
         AcceptCredential, DenyTrust, FailRead, Tick, TruncateFile, WriteFile, PutPointer,
         CommitRecord, Commit, EndFirst, SetStatus, Restart, otherVars, vars
<1>5. ASSUME NEW r \in Resolvers, FailAudit(r)
      PROVE  UNCHANGED answered /\ (UNCHANGED log \/ log' = Append(log, outcome[r]))
  BY <1>5 DEF FailAudit, Log!AppendEntry
<1> QED BY <1>1, <1>2, <1>3, <1>4, <1>5

\* Whatever a client has been told is in the audit log as often as it was told,
\* appends that fail or are not acknowledged notwithstanding.
THEOREM AnswersAreAuditedAlways == Spec => []AnswersAreAudited
<1>1. Init => Audited
  <2> SUFFICES ASSUME Init, NEW x
               PROVE  IsFiniteSet(Tellings(x)) /\ Cardinality(Tellings(x)) <= Occurrences(log, x)
    BY DEF Audited
  <2>1. Tellings(x) = {} /\ log = << >>
    BY DEF Init, Tellings, Answers, Log!Init
  <2>2. {i \in DOMAIN log : log[i] = x} = {}
    BY <2>1
  <2> QED BY <2>1, <2>2, FS_EmptySet DEF Occurrences
<1>2. IInv /\ Audited /\ [Next]_vars => Audited'
  BY AuditedStep DEF IInv
<1>3. Audited => AnswersAreAudited
  BY DEF Audited, AnswersAreAudited
<1> QED BY <1>1, <1>2, <1>3, InvariantHolds, PTL DEF Spec
=============================================================================
