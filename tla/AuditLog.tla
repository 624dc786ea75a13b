------------------------------ MODULE AuditLog ------------------------------
(* The hash-chained audit log (internal/audit/postgres.go, audit.go): the     *)
(* transaction of Append statement by statement, and readers that page through*)
(* the table while it grows.                                                  *)
(*                                                                            *)
(* LOCK TABLE ... IN EXCLUSIVE MODE admits readers and keeps every other      *)
(* Append out until the holder's transaction ends.  Ids come from a bigserial:*)
(* handed out by the INSERT, never taken back by a rollback.                  *)
(* A digest is represented by what the chain relies on, the sequence of       *)
(* payloads it covers, so that two digests agree only if all of them do.      *)
EXTENDS Integers, Sequences, FiniteSets

CONSTANTS
  Writers,      \* concurrent callers of Append
  Readers,      \* clients paging through the log
  Agents,       \* agent ids events are about
  Supported,    \* event types validateInput admits
  Decisions,    \* decisions it admits
  Inputs,       \* what callers ask to append
  Filters,      \* what clients filter by
  Any,          \* a field a query does not filter by
  Times,        \* what time.Now() may return
  DefaultLimit, \* page size of a query that names none
  MaxLimit,     \* largest page size
  MaxAppends,   \* bound: calls of Append
  NoWriter,     \* the table lock is free
  NoEvent       \* a transaction that has built no event yet

\* What HashEvent hashes.  A time is a number of half microseconds: the clock of
\* the process is finer than the column created_at, which keeps microseconds.
Payloads == [type : Supported, agent : Agents, decision : Decisions, createdAt : Nat]
Hashes == Seq(Payloads)
NoHash == << >>

Rows == [id : Nat, payload : Payloads, previousHash : Hashes, eventHash : Hashes]
Events == [payload : Payloads, previousHash : Hashes, eventHash : Hashes]

ASSUME InputsAssumption == \A in \in Inputs : in.agent \in Agents
ASSUME TimesAssumption == Times \subseteq Nat
ASSUME NoEventAssumption == NoEvent \notin Events /\ NoEvent \notin Rows
ASSUME NoWriterAssumption == NoWriter \notin Writers
ASSUME LimitAssumption == DefaultLimit \in 1..MaxLimit /\ MaxLimit \in Nat
ASSUME AppendsAssumption == MaxAppends \in Nat

VARIABLES
  events,  \* the committed rows of audit_events, in the order of their commits
  holder,  \* the writer whose transaction holds the table lock
  nextId,  \* the next id of the bigserial
  calls,   \* number of Append calls so far
  pc,      \* writer -> the next statement of its Append
  input,   \* writer -> the event it was asked to append
  event,   \* writer -> the event its transaction has built
  id,      \* writer -> the id its INSERT was given
  result,  \* writer -> what its latest Append returned
  filter,  \* reader -> what its queries filter by
  pages    \* reader -> the events of the pages it has read, in order

writeVars == <<events, holder, nextId, calls, pc, input, event, id, result>>
vars == <<writeVars, filter, pages>>

-----------------------------------------------------------------------------
(* Hash chain *)

HashEvent(previousHash, payload) == Append(previousHash, payload)

\* verifyEvents: every event names its predecessor's digest and has its own right.
VerifyEvents(list) == \A i \in DOMAIN list :
  /\ list[i].previousHash = IF i = 1 THEN NoHash ELSE list[i - 1].eventHash
  /\ list[i].eventHash = HashEvent(list[i].previousHash, list[i].payload)

\* What a query can see of audit_events.
Table == {events[i] : i \in DOMAIN events}

\* ORDER BY id ASC: the i-th row is the one with i - 1 smaller ids.
OrderById(rows) ==
  [i \in 1..Cardinality(rows) |->
     CHOOSE e \in rows : Cardinality({d \in rows : d.id < e.id}) = i - 1]

List == OrderById(Table)

\* ORDER BY id DESC LIMIT 1, and the empty string when there is no row.
LatestHash(rows) ==
  IF rows = << >> THEN NoHash
  ELSE (CHOOSE e \in {rows[i] : i \in DOMAIN rows} :
          \A i \in DOMAIN rows : rows[i].id <= e.id).eventHash

\* Truncate(time.Microsecond), and what a timestamptz keeps of the time it is given.
Truncate(t) == t - (t % 2)

-----------------------------------------------------------------------------
(* Append *)

Init ==
  /\ events = << >>
  /\ holder = NoWriter
  /\ nextId = 1
  /\ calls = 0
  /\ pc = [w \in Writers |-> "idle"]
  /\ input = [w \in Writers |-> NoEvent]
  /\ event = [w \in Writers |-> NoEvent]
  /\ id = [w \in Writers |-> 0]
  /\ result = [w \in Writers |-> "none"]
  /\ filter \in [Readers -> Filters]
  /\ pages = [r \in Readers |-> << >>]

Begin(w, in) ==
  /\ pc[w] = "idle"
  /\ calls < MaxAppends
  /\ calls' = calls + 1
  /\ input' = [input EXCEPT ![w] = in]
  /\ pc' = [pc EXCEPT ![w] = "lock"]
  /\ UNCHANGED <<events, holder, nextId, event, id, result, filter, pages>>

\* Mutation: a lock mode that does not exclude other writers.
LockTableShared(w) ==
  /\ pc[w] = "lock"
  /\ holder' = w
  /\ pc' = [pc EXCEPT ![w] = "build"]
  /\ UNCHANGED <<events, nextId, calls, input, event, id, result, filter, pages>>

LockTable(w) ==
  /\ pc[w] = "lock"
  /\ holder = NoWriter
  /\ holder' = w
  /\ pc' = [pc EXCEPT ![w] = "build"]
  /\ UNCHANGED <<events, nextId, calls, input, event, id, result, filter, pages>>

\* validateInput
Valid(in) == in.type \in Supported /\ in.decision \in Decisions

\* The event of an input at a time, chained to a hash.
EventOf(in, previous, createdAt) ==
  LET payload == [type |-> in.type, agent |-> in.agent, decision |-> in.decision,
                  createdAt |-> createdAt]
  IN [payload |-> payload, previousHash |-> previous, eventHash |-> HashEvent(previous, payload)]

\* Mutation: the input is not validated.
NewEventUnvalidated(w, now) ==
  /\ pc[w] = "build"
  /\ event' = [event EXCEPT ![w] = EventOf(input[w], LatestHash(events), Truncate(now))]
  /\ pc' = [pc EXCEPT ![w] = "insert"]
  /\ UNCHANGED <<events, holder, nextId, calls, input, id, result, filter, pages>>

\* Mutation: the time is hashed as the process reads it.
NewEventUntruncated(w, now) ==
  /\ pc[w] = "build"
  /\ Valid(input[w])
  /\ event' = [event EXCEPT ![w] = EventOf(input[w], LatestHash(events), now)]
  /\ pc' = [pc EXCEPT ![w] = "insert"]
  /\ UNCHANGED <<events, holder, nextId, calls, input, id, result, filter, pages>>

\* The last committed hash is read under the lock, then NewEvent validates the
\* input and chains the event to that hash, at the time its server's clock shows:
\* servers have a clock each, and any of them may be set back.
NewEvent(w, now) ==
  /\ pc[w] = "build"
  /\ Valid(input[w])
  /\ event' = [event EXCEPT ![w] = EventOf(input[w], LatestHash(events), Truncate(now))]
  /\ pc' = [pc EXCEPT ![w] = "insert"]
  /\ UNCHANGED <<events, holder, nextId, calls, input, id, result, filter, pages>>

\* The transaction ends: the lock goes, and the caller gets the answer.
Finish(w, answer) ==
  /\ holder' = IF holder = w THEN NoWriter ELSE holder
  /\ pc' = [pc EXCEPT ![w] = "idle"]
  /\ event' = [event EXCEPT ![w] = NoEvent]
  /\ id' = [id EXCEPT ![w] = 0]
  /\ result' = [result EXCEPT ![w] = answer]
  /\ UNCHANGED <<nextId, calls, input, filter, pages>>

\* Mutation: NewEvent's error returns without the deferred Rollback.
RejectInputLeakingLock(w) ==
  /\ pc[w] = "build"
  /\ ~Valid(input[w])
  /\ pc' = [pc EXCEPT ![w] = "idle"]
  /\ result' = [result EXCEPT ![w] = "invalid"]
  /\ UNCHANGED <<events, holder, nextId, calls, input, event, id, filter, pages>>

RejectInput(w) ==
  /\ pc[w] = "build"
  /\ ~Valid(input[w])
  /\ Finish(w, "invalid")
  /\ UNCHANGED events

Insert(w) ==
  /\ pc[w] = "insert"
  /\ id' = [id EXCEPT ![w] = nextId]
  /\ nextId' = nextId + 1
  /\ pc' = [pc EXCEPT ![w] = "commit"]
  /\ UNCHANGED <<events, holder, calls, input, event, result, filter, pages>>

\* What the columns keep of an event, and so what scanEvent reads back.
Recorded(payload) == [payload EXCEPT !.createdAt = Truncate(@)]

\* The row the transaction has inserted.
Inserted(w) ==
  [id |-> id[w], payload |-> Recorded(event[w].payload),
   previousHash |-> event[w].previousHash, eventHash |-> event[w].eventHash]

Commit(w, answer) ==
  /\ pc[w] = "commit"
  /\ events' = Append(events, Inserted(w))
  /\ Finish(w, answer)

CommitAcknowledged(w) == Commit(w, "ok")
CommitUnacknowledged(w) == Commit(w, "error")

\* A cancelled request, a lost connection or a failing statement: rolled back.
Abort(w) ==
  /\ pc[w] # "idle"
  /\ Finish(w, "error")
  /\ UNCHANGED events

-----------------------------------------------------------------------------
(* Query *)

\* WHERE agent_id = ... AND event_type = ... AND decision = ..., each if it is given.
Selects(f, payload) ==
  \A field \in {"type", "agent", "decision"} : f[field] \in {Any, payload[field]}

\* ORDER BY id ASC
Matching(f) == OrderById({e \in Table : Selects(f, e.payload)})

\* NormalizeQuery: no limit means the default one.
NormalizedLimit(limit) == IF limit = 0 THEN DefaultLimit ELSE limit

\* LIMIT limit OFFSET offset, in the same statement.
Page(f, limit, offset) ==
  LET selected == Matching(f)
      last == IF offset + limit < Len(selected) THEN offset + limit ELSE Len(selected)
  IN SubSeq(selected, offset + 1, last)

\* A client asks for the page after the ones it has: its offset is their length.
Query(r, limit) ==
  /\ pages' = [pages EXCEPT ![r] =
                 @ \o Page(filter[r], NormalizedLimit(limit), Len(pages[r]))]
  /\ UNCHANGED <<writeVars, filter>>

-----------------------------------------------------------------------------
Execute(w) ==
  \/ LockTable(w) \/ RejectInput(w) \/ Insert(w) \/ CommitAcknowledged(w)
  \/ \E now \in Times : NewEvent(w, now)

Fail(w) == CommitUnacknowledged(w) \/ Abort(w)

Next ==
  \/ \E w \in Writers : (\E in \in Inputs : Begin(w, in)) \/ Execute(w) \/ Fail(w)
  \/ \E r \in Readers, limit \in 0..MaxLimit : Query(r, limit)

Spec == Init /\ [][Next]_vars

\* The server grants the table lock to its waiters in turn and runs every
\* statement; nothing makes a caller append, fail or read.
Fairness == \A w \in Writers : SF_vars(Execute(w))

FairSpec == Spec /\ Fairness

-----------------------------------------------------------------------------
(* Properties *)

WriterTypes ==
  /\ events \in Seq(Rows)
  /\ holder \in Writers \cup {NoWriter}
  /\ nextId \in Nat
  /\ calls \in 0..MaxAppends
  /\ pc \in [Writers -> {"idle", "lock", "build", "insert", "commit"}]
  /\ input \in [Writers -> Inputs \cup {NoEvent}]
  /\ event \in [Writers -> Events \cup {NoEvent}]
  /\ id \in [Writers -> Nat]
  /\ result \in [Writers -> {"none", "ok", "invalid", "error"}]

TypeOK ==
  /\ WriterTypes
  /\ filter \in [Readers -> Filters]
  /\ pages \in [Readers -> Seq(Rows)]

\* VerifyHashChain succeeds on every state a reader can see, whatever appends are
\* running, rolled back or committed without their caller knowing: each digest is
\* that of the event as it is read back, of its time in microseconds.
ChainVerifies == VerifyEvents(List)

\* Rows become visible in the order of their ids, so no row ever appears in front
\* of one that readers have already seen.
IdsFollowCommits == \A i, j \in DOMAIN events : i < j => events[i].id < events[j].id

\* A client that asks page after page, each from the offset it has reached, gets
\* every matching event once and in order although the log grows in between.
PagesAreExact == \A r \in Readers :
  pages[r] = SubSeq(Matching(filter[r]), 1, Len(pages[r]))

\* Every Append returns.
AppendReturns == \A w \in Writers : pc[w] = "lock" ~> pc[w] = "idle"

Log == INSTANCE AppendOnlyLog WITH
  Entries <- [type : Supported, agent : Agents, decision : Decisions],
  log <- [i \in DOMAIN events |-> [type |-> List[i].payload.type, agent |-> List[i].payload.agent,
                                   decision |-> List[i].payload.decision]]

\* Listed by id, the table is a log that only ever grows at its end.
ImplementsLog == Log!Spec
==============================================================================
