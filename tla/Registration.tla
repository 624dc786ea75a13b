----------------------------- MODULE Registration -----------------------------
(* Register (internal/registration/service.go) over the stores it writes one  *)
(* after the other: the facts file, the pointer row, the index transaction of *)
(* LeanIndex and the audit log.  Nothing spans the four: a request may fail or*)
(* its process end between any two of them.                                   *)
EXTENDS Integers, Sequences, FiniteSets

CONSTANTS
  Agents,      \* agents being registered
  Registrars,  \* concurrent Register requests
  Documents,   \* facts documents, all of them valid JSON
  Bodies,      \* what is signed besides agent and sequence: hashes, TTL and flags
  DocumentOf,  \* body -> the document that its hashes are of
  Malformed,   \* those that are no AgentFacts or have no credential set hash
  MaxSeq,      \* the largest sequence
  MaxRequests, \* bound: requests made
  NoRow, NoWriter, NoPut,
  Requests     \* the records requests ask for

ASSUME MalformedAssumption == Malformed \subseteq Documents
ASSUME DocumentOfAssumption == DocumentOf \in [Bodies -> Documents]

VARIABLES
  file, pointers,                                         \* FactsStore
  row, history, lock, clock, nextId,                      \* LeanIndex: tables
  pc, put, start, seen, archived, result,                 \* LeanIndex: Put
  audit,     \* the agent.registered events of the audit log, in its order
  requests,  \* number of requests made
  stage,     \* registrar -> what its request does next
  request,   \* registrar -> the record its latest request asks for
  reply,     \* registrar -> what its latest request was answered
  \* History variables, which only the properties read.
  accepted,  \* record -> number of requests for it that were answered "ok"
  unheard,   \* record -> number of those whose event was appended but not acknowledged
  failed,    \* records for which a request failed with its record perhaps indexed, and
             \* none has been answered "ok" since
  held       \* registrar -> was its record current during its request?

factsVars == <<file, pointers>>
indexVars == <<row, history, lock, clock, nextId, pc, put, start, seen, archived, result>>
answers == <<reply, accepted, unheard, failed>>
vars == <<factsVars, indexVars, audit, requests, stage, request, answers, held>>

Facts == INSTANCE FactsStore
Index == INSTANCE LeanIndex WITH
           Writers <- Registrars, MaxPuts <- MaxRequests
Audit == INSTANCE AppendOnlyLog WITH Entries <- Index!Records, log <- audit
Stored == INSTANCE Publication WITH
  Unset <- NoRow,
  register <- Index!Visible, settled <- Index!EstablishedAgents

ASSUME RequestsAssumption == Requests \subseteq Index!Records

\* What LeanIndex assumes of its constants.
ASSUME IndexAssumption ==
  /\ MaxSeq \in Nat /\ MaxRequests \in Nat
  /\ NoWriter \notin Registrars
  /\ NoPut \notin Index!Records
  /\ NoRow \notin Index!Records \cup Index!Rows \cup Index!Archived

Document(r) == DocumentOf[request[r].body]

-----------------------------------------------------------------------------
Init ==
  /\ Facts!FactsInit
  /\ Index!Init
  /\ Audit!Init
  /\ requests = 0
  /\ stage = [r \in Registrars |-> "idle"]
  /\ request = [r \in Registrars |-> NoPut]
  /\ reply = [r \in Registrars |-> "none"]
  /\ accepted = [q \in Requests |-> 0]
  /\ unheard = [q \in Requests |-> 0]
  /\ failed = {}
  /\ held = [r \in Registrars |-> FALSE]

GoTo(r, next) ==
  /\ stage' = [stage EXCEPT ![r] = next]
  /\ UNCHANGED <<requests, request, answers>>

Answer(r, answer) ==
  /\ stage' = [stage EXCEPT ![r] = "idle"]
  /\ reply' = [reply EXCEPT ![r] = answer]
  /\ accepted' = IF answer = "ok" THEN [accepted EXCEPT ![request[r]] = @ + 1] ELSE accepted
  /\ failed' = CASE answer = "ok" -> failed \ {request[r]}
                [] answer = "error" /\ stage[r] \in {"index", "audit"} -> failed \cup {request[r]}
                [] OTHER -> failed
  /\ UNCHANGED <<requests, request>>

\* A request that passes validateRegisterRequest; one that does not touches nothing.
Receive(r, req) ==
  /\ stage[r] = "idle"
  /\ requests < MaxRequests
  /\ requests' = requests + 1
  /\ request' = [request EXCEPT ![r] = req]
  /\ stage' = [stage EXCEPT ![r] = "truncate"]
  /\ held' = [held EXCEPT ![r] = Index!Visible[req.agent] = req]
  /\ UNCHANGED <<factsVars, indexVars, audit, answers>>

TruncateFacts(r) ==
  /\ stage[r] = "truncate"
  /\ Facts!Truncate(Document(r))
  /\ GoTo(r, "write")
  /\ UNCHANGED <<indexVars, audit, held>>

\* Mutation: Register goes on without storing the pointer.
WriteFactsWithoutPointer(r) ==
  /\ stage[r] = "write"
  /\ Facts!Write(Document(r))
  /\ GoTo(r, "decode")
  /\ UNCHANGED <<indexVars, audit, held>>

WriteFacts(r) ==
  /\ stage[r] = "write"
  /\ Facts!Write(Document(r))
  /\ GoTo(r, "pointer")
  /\ UNCHANGED <<indexVars, audit, held>>

PutPointer(r) ==
  /\ stage[r] = "pointer"
  /\ Facts!PutFactsPointer(Document(r))
  /\ GoTo(r, "decode")
  /\ UNCHANGED <<indexVars, audit, held>>

\* The document is decoded only now: its file and pointer stay behind.
RejectFacts(r) ==
  /\ stage[r] = "decode"
  /\ Document(r) \in Malformed
  /\ Answer(r, "invalid")
  /\ UNCHANGED <<factsVars, indexVars, audit, unheard, held>>

\* The record is built and signed, and the index transaction begins.
CallIndex(r) ==
  /\ stage[r] = "decode"
  /\ Document(r) \notin Malformed
  /\ Index!Begin(r, request[r])
  /\ GoTo(r, "index")
  /\ UNCHANGED <<factsVars, audit, held>>

\* The history variable after a step of the index.
Witness ==
  held' = [q \in Registrars |->
    held[q] \/ (stage[q] # "idle" /\ Index!Visible'[request[q].agent] = request[q])]

\* A statement of the index transaction, and the return of Put after its last.
FollowIndex(r) ==
  /\ Witness
  /\ CASE pc'[r] # "idle" -> GoTo(r, "index")
       [] pc'[r] = "idle" /\ result'[r] = "ok" -> GoTo(r, "audit")
       [] OTHER -> Answer(r, result'[r]) /\ UNCHANGED unheard

StepIndex(r) ==
  /\ stage[r] = "index"
  /\ Index!Execute(r)
  /\ FollowIndex(r)
  /\ UNCHANGED <<factsVars, audit>>

FailIndex(r) ==
  /\ stage[r] = "index"
  /\ Index!Fail(r)
  /\ FollowIndex(r)
  /\ UNCHANGED <<factsVars, audit>>

\* Mutation: the event is built from a record that has been cleared.
AppendAuditOfNothing(r) ==
  /\ stage[r] = "audit"
  /\ Audit!AppendEntry(NoPut)
  /\ Answer(r, "ok")
  /\ UNCHANGED <<factsVars, indexVars, unheard, held>>

AppendAudit(r) ==
  /\ stage[r] = "audit"
  /\ Audit!AppendEntry(request[r])
  /\ Answer(r, "ok")
  /\ UNCHANGED <<factsVars, indexVars, unheard, held>>

\* The append commits but its acknowledgement is lost.
AppendAuditUnacknowledged(r) ==
  /\ stage[r] = "audit"
  /\ Audit!AppendEntry(request[r])
  /\ Answer(r, "error")
  /\ unheard' = [unheard EXCEPT ![request[r]] = @ + 1]
  /\ UNCHANGED <<factsVars, indexVars, held>>

\* Mutation: an error of the audit store is dropped.
FailUnlessAuditing(r) ==
  /\ stage[r] \in {"truncate", "write", "pointer", "decode", "audit"}
  /\ Answer(r, IF stage[r] = "audit" THEN "ok" ELSE "error")
  /\ UNCHANGED <<factsVars, indexVars, audit, unheard, held>>

\* An error, a cancelled request or the end of the process outside the index
\* transaction; a file being written stays as it is.
Fail(r) ==
  /\ stage[r] \in {"truncate", "write", "pointer", "decode", "audit"}
  /\ Answer(r, "error")
  /\ UNCHANGED <<factsVars, indexVars, audit, unheard, held>>

Proceed(r) ==
  \/ TruncateFacts(r) \/ WriteFacts(r) \/ PutPointer(r) \/ RejectFacts(r)
  \/ CallIndex(r) \/ StepIndex(r) \/ AppendAudit(r)

Next == \E r \in Registrars :
  \/ \E req \in Requests : Receive(r, req)
  \/ Proceed(r)
  \/ FailIndex(r) \/ AppendAuditUnacknowledged(r) \/ Fail(r)

Spec == Init /\ [][Next]_vars

\* A goroutine that can go on does, and row locks are granted in turn.
Fairness == \A r \in Registrars : SF_vars(Proceed(r))

FairSpec == Spec /\ Fairness

-----------------------------------------------------------------------------
(* Properties *)

Stages == {"idle", "truncate", "write", "pointer", "decode", "index", "audit"}

TypeOK ==
  /\ Facts!FactsTypeOK
  /\ Index!TypeOK
  /\ audit \in Seq(Requests)
  /\ requests \in 0..MaxRequests
  /\ stage \in [Registrars -> Stages]
  /\ request \in [Registrars -> Requests \cup {NoPut}]
  /\ reply \in [Registrars -> Index!Results \cup {"invalid"}]
  /\ accepted \in [Requests -> Nat]
  /\ unheard \in [Requests -> Nat]
  /\ failed \subseteq Requests
  /\ held \in [Registrars -> BOOLEAN]

\* The documents a row or an archived row refers to.
Indexed(a) ==
  (IF row[a] = NoRow THEN {} ELSE {DocumentOf[row[a].rec.body]})
    \cup {DocumentOf[history[a][i].row.rec.body] : i \in DOMAIN history[a]}

\* Whatever failed or ran in between, a record is in the index, or ever was, only
\* if its facts have a pointer row and a file and could be decoded: the resolver
\* never follows an indexed record to a missing pointer or document.
IndexedIsStored == \A a \in Agents : \A d \in Indexed(a) :
  /\ Facts!HasPointer(d)
  /\ Facts!HasFile(d)
  /\ d \notin Malformed

\* The number of agent.registered events of a record.
Events(q) == Cardinality({i \in DOMAIN audit : audit[i] = q})

\* The log has one event for every request that was answered "ok", one for every
\* request whose event was appended but which was answered with an error because it
\* did not hear so, and no other: a client that repeats a registration until it is
\* told of success has an event for that success, whatever its earlier tries left
\* behind.  And a record in the index without any event is one that a request is about
\* to append, or that a request failed over and no request was told of success since.
IndexedIsAudited ==
  /\ \A q \in Requests : Events(q) = accepted[q] + unheard[q]
  /\ \A a \in Agents : row[a] # NoRow /\ Events(row[a].rec) = 0 =>
       \/ \E r \in Registrars : stage[r] = "audit" /\ request[r] = row[a].rec
       \/ row[a].rec \in failed

\* A request that goes on to be audited and answered "ok" found or made its very
\* record the agent's current one while it ran: registering the same record again
\* is accepted only if it still stands, and never instead of another with its
\* sequence (docs/ARCHITECTURE.md:50).  So the log names no record that the index
\* refused or rolled back.
AcceptedWasCurrent == \A r \in Registrars : stage[r] = "audit" => held[r]

\* To the readers of its stores a registration, interleaved with others and failing
\* anywhere, looks like Publication.
ImplementsPublication == Stored!PublicationSpec

\* Every request is answered: requests wait for the row locks of the index, never
\* for each other in a circle, and a lock is always released.
RegisterReturns == \A r \in Registrars : stage[r] = "truncate" ~> stage[r] = "idle"
==============================================================================
