-------------------------------- MODULE Admin --------------------------------
(* SetRevocationStatus (internal/admin/service.go): an upsert of the          *)
(* revocation table, then an audit event, with nothing around the two, called *)
(* by administrators at the same time.  The other operations of the service   *)
(* are single reads and change nothing.                                       *)
EXTENDS Integers, Sequences, FiniteSets

CONSTANTS
  Keys,         \* (issuer, credential id) pairs
  Admins,       \* administrators, each with one request at a time
  MaxRequests,  \* bound: requests made
  NoChange      \* an administrator that has not asked for anything

ASSUME MaxRequestsAssumption == MaxRequests \in Nat

ASSUME AdminsAssumption == IsFiniteSet(Admins)

VARIABLES
  revocations,  \* RevocationStore
  log,          \* the credential.revocation.updated events of the audit log
  requests,     \* number of requests made
  stage,        \* admin -> what its request does next
  change,       \* admin -> the key and status its request sets
  reply,        \* admin -> what its latest request was answered
  made,         \* history variable: change -> how often it was stored
  lost,         \* history variable: change -> how often it was stored with no event
                \* and its request answered with an error
  \* The last three are about the latest round of a key: its requests from one that
  \* arrived when none was under way, as long as there always is one.
  since,        \* history variable: key -> length of the log when its round began
  overlapped,   \* history variable: keys with two requests at one time in that round
  failed        \* history variable: keys with a request answered with an error in it

rounds == <<since, overlapped, failed>>

vars == <<revocations, log, requests, stage, change, reply, made, lost, rounds>>

Revocations == INSTANCE RevocationStore

Changes == [key : Keys, status : Revocations!Statuses]

Log == INSTANCE AppendOnlyLog WITH Entries <- Changes

-----------------------------------------------------------------------------
Init ==
  /\ Revocations!RevocationsInit
  /\ Log!Init
  /\ requests = 0
  /\ stage = [a \in Admins |-> "idle"]
  /\ change = [a \in Admins |-> NoChange]
  /\ reply = [a \in Admins |-> "none"]
  /\ made = [c \in Changes |-> 0]
  /\ lost = [c \in Changes |-> 0]
  /\ since = [k \in Keys |-> 0]
  /\ overlapped = {}
  /\ failed = {}

Busy(k) == \E a \in Admins : stage[a] # "idle" /\ change[a].key = k

\* A request for the key begins a round, or joins the one under way.
BeginRound(k) ==
  /\ ~ Busy(k)
  /\ since' = [since EXCEPT ![k] = Len(log)]
  /\ overlapped' = overlapped \ {k}
  /\ failed' = failed \ {k}

JoinRound(k) ==
  /\ Busy(k)
  /\ overlapped' = overlapped \cup {k}
  /\ UNCHANGED <<since, failed>>

\* A request that passes validation; one that does not touches nothing.
Receive(a, c) ==
  /\ stage[a] = "idle"
  /\ requests < MaxRequests
  /\ requests' = requests + 1
  /\ stage' = [stage EXCEPT ![a] = "store"]
  /\ change' = [change EXCEPT ![a] = c]
  /\ BeginRound(c.key) \/ JoinRound(c.key)
  /\ UNCHANGED <<revocations, log, reply, made, lost>>

\* The upsert takes effect.
Upsert(c) ==
  /\ Revocations!SetStatus(c.key, c.status)
  /\ made' = [made EXCEPT ![c] = @ + 1]

Answer(a, answer) ==
  /\ stage' = [stage EXCEPT ![a] = "idle"]
  /\ reply' = [reply EXCEPT ![a] = answer]
  /\ failed' = IF answer = "ok" THEN failed ELSE failed \cup {change[a].key}
  /\ UNCHANGED <<requests, change, since, overlapped>>

\* Mutation: the first status of a key is not audited.
StoreFirstUnaudited(a) ==
  /\ stage[a] = "store"
  /\ Upsert(change[a])
  /\ \/ /\ revocations[change[a].key] = "none"
        /\ Answer(a, "ok")
     \/ /\ revocations[change[a].key] # "none"
        /\ stage' = [stage EXCEPT ![a] = "audit"]
        /\ UNCHANGED <<requests, change, reply, rounds>>
  /\ UNCHANGED <<log, lost>>

Store(a) ==
  /\ stage[a] = "store"
  /\ Upsert(change[a])
  /\ stage' = [stage EXCEPT ![a] = "audit"]
  /\ UNCHANGED <<log, requests, change, reply, lost, rounds>>

\* Mutation: an error of the revocation store does not end the request.
FailStoreUnnoticed(a) ==
  /\ stage[a] = "store"
  /\ stage' = [stage EXCEPT ![a] = "audit"]
  /\ UNCHANGED <<revocations, log, requests, change, reply, made, lost, rounds>>

\* The upsert fails, or commits without acknowledgement; there is no event then.
FailStore(a) ==
  /\ stage[a] = "store"
  /\ \/ Upsert(change[a]) /\ lost' = [lost EXCEPT ![change[a]] = @ + 1]
     \/ UNCHANGED <<revocations, made, lost>>
  /\ Answer(a, "error")
  /\ UNCHANGED log

\* Mutation: the event is built from a request that has been cleared.
AppendAuditOfNothing(a) ==
  /\ stage[a] = "audit"
  /\ Log!AppendEntry(NoChange)
  /\ Answer(a, "ok")
  /\ UNCHANGED <<revocations, made, lost>>

AppendAudit(a) ==
  /\ stage[a] = "audit"
  /\ Log!AppendEntry(change[a])
  /\ Answer(a, "ok")
  /\ UNCHANGED <<revocations, made, lost>>

\* Mutation: an error of the audit store is dropped.
FailAuditUnnoticed(a) ==
  /\ stage[a] = "audit"
  /\ Answer(a, "ok")
  /\ UNCHANGED <<revocations, log, made, lost>>

\* The append fails, or commits without acknowledgement.
FailAudit(a) ==
  /\ stage[a] = "audit"
  /\ \/ Log!AppendEntry(change[a]) /\ UNCHANGED lost
     \/ UNCHANGED log /\ lost' = [lost EXCEPT ![change[a]] = @ + 1]
  /\ Answer(a, "error")
  /\ UNCHANGED <<revocations, made>>

Proceed(a) == Store(a) \/ AppendAudit(a)

Next == \E a \in Admins :
  \/ \E c \in Changes : Receive(a, c)
  \/ Proceed(a) \/ FailStore(a) \/ FailAudit(a)

Spec == Init /\ [][Next]_vars

-----------------------------------------------------------------------------
(* Properties *)

TypeOK ==
  /\ Revocations!RevocationsTypeOK
  /\ log \in Seq(Changes)
  /\ requests \in 0..MaxRequests
  /\ stage \in [Admins -> {"idle", "store", "audit"}]
  /\ change \in [Admins -> Changes \cup {NoChange}]
  /\ reply \in [Admins -> {"none", "ok", "error"}]
  /\ made \in [Changes -> Nat]
  /\ lost \in [Changes -> Nat]
  /\ since \in [Keys -> Nat]
  /\ overlapped \subseteq Keys
  /\ failed \subseteq Keys

\* How many events tell of the change, and how many requests are about to append one.
Events(c) == Cardinality({i \in DOMAIN log : log[i] = c})

Appending(c) == Cardinality({a \in Admins : stage[a] = "audit" /\ change[a] = c})

\* docs/API.md:265: every time a change is stored it gets an event of its own, unless
\* its request is about to append that or was answered with an error.
StatusIsAudited == \A c \in Changes : made[c] <= Events(c) + Appending(c) + lost[c]

\* The converse: no change has more events than times it was stored.
AuditedWasMade == \A c \in Changes : Events(c) + Appending(c) <= made[c]

\* The change of a key that its row shows.
Standing(k) == [key |-> k, status |-> revocations[k]]

\* The latest event of a key, if it has any.
LatestEvents(k) == {log[i] : i \in {j \in DOMAIN log :
  log[j].key = k /\ \A h \in DOMAIN log : h > j => log[h].key # k}}

\* When a round of requests for a key has ended and each was answered "ok", the row
\* shows a status with an event of that round.  It is the latest event of the key,
\* whatever befell earlier rounds, if the requests did not overlap; those that did
\* may have stored in one order and appended in the other.
LatestEventStands == \A k \in Keys : revocations[k] # "none" /\ ~ Busy(k) /\ k \notin failed =>
  /\ \E i \in DOMAIN log : i > since[k] /\ log[i] = Standing(k)
  /\ k \notin overlapped => LatestEvents(k) = {Standing(k)}
==============================================================================
