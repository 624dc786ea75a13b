------------------------------ MODULE LeanIndex ------------------------------
(* The index of current agent records (internal/index/postgres.go): a table   *)
(* with one row per agent, a history table, and the transaction that Put runs *)
(* over them.  Put is modelled statement by statement as PostgreSQL executes  *)
(* it at READ COMMITTED, the level BeginTx(ctx, nil) asks for:                *)
(*   - SELECT ... FOR UPDATE waits for a locked row, but finds and locks      *)
(*     nothing when the agent has no committed row;                           *)
(*   - INSERT ... SELECT reads the committed row without waiting;             *)
(*   - INSERT ... ON CONFLICT waits for whoever holds the row or is inserting *)
(*     it, then inserts or overwrites what it finds;                          *)
(*   - now() is the time the transaction began.                               *)
EXTENDS Integers, Sequences, FiniteSets

CONSTANTS
  Agents,     \* agent id hashes, the primary keys of agent_addr_records
  Writers,    \* concurrent callers of Put, with one transaction at a time
  Bodies,     \* the signed bytes of a record apart from agent and sequence
  MaxSeq,     \* the largest sequence (2^32 - 1 in the code)
  MaxPuts,    \* bound: transactions begun
  NoRow,      \* an agent without a row
  NoWriter,   \* a row no transaction has locked
  NoPut       \* a writer that has not called Put

ASSUME BoundsAssumption == MaxSeq \in Nat /\ MaxPuts \in Nat

Records == [agent : Agents, seq : 0..MaxSeq, body : Bodies]

ASSUME NoWriterAssumption == NoWriter \notin Writers
ASSUME NoPutAssumption == NoPut \notin Records

VARIABLES
  row,       \* agent -> the committed row of agent_addr_records, or NoRow
  history,   \* agent -> its committed rows of agent_addr_history, as committed
  lock,      \* agent -> the writer whose transaction holds the row's lock
  clock,     \* the time the latest transaction began
  nextId,    \* the next id the bigserial of agent_addr_history hands out
  pc,        \* writer -> the next statement of its transaction
  put,       \* writer -> the record its latest Put carries
  start,     \* writer -> now() in its transaction
  seen,      \* writer -> the row SELECT ... FOR UPDATE returned
  archived,  \* writer -> the history row its transaction has inserted
  result     \* writer -> what its latest Put returned

vars == <<row, history, lock, clock, nextId, pc, put, start, seen, archived, result>>

-----------------------------------------------------------------------------
Times == 0..MaxPuts
Rows == [rec : Records, createdAt : Times, updatedAt : Times]
Archived == [row : Rows, archivedAt : Times, id : Nat]

ASSUME NoRowAssumption == NoRow \notin Records \cup Rows \cup Archived

Active == {"select", "decide", "upsert", "commit"}
Results == {"none", "ok", "stale", "conflict", "error"}

Key(w) == put[w].agent

\* A transaction that found no row and so holds no lock while it goes on to write.
Blind(w, a) == pc[w] \in {"decide", "upsert", "commit"} /\ Key(w) = a /\ seen[w] = NoRow

\* The agent has a row, and every transaction that will write it holds its lock.
Established(a) == row[a] # NoRow /\ \A w \in Writers : ~Blind(w, a)

-----------------------------------------------------------------------------
(* Put *)

Init ==
  /\ row = [a \in Agents |-> NoRow]
  /\ history = [a \in Agents |-> << >>]
  /\ lock = [a \in Agents |-> NoWriter]
  /\ clock = 0
  /\ nextId = 0
  /\ pc = [w \in Writers |-> "idle"]
  /\ put = [w \in Writers |-> NoPut]
  /\ start = [w \in Writers |-> 0]
  /\ seen = [w \in Writers |-> NoRow]
  /\ archived = [w \in Writers |-> NoRow]
  /\ result = [w \in Writers |-> "none"]

\* The record's agent hash is checked against the agent id before BEGIN, so a
\* transaction's record and its key always agree.
Begin(w, rec) ==
  /\ pc[w] = "idle"
  /\ clock < MaxPuts
  /\ clock' = clock + 1
  /\ start' = [start EXCEPT ![w] = clock + 1]
  /\ put' = [put EXCEPT ![w] = rec]
  /\ pc' = [pc EXCEPT ![w] = "select"]
  /\ UNCHANGED <<row, history, lock, nextId, seen, archived, result>>

\* The transaction ends: its locks go, and the caller gets the answer.
Finish(w, answer) ==
  /\ lock' = [a \in Agents |-> IF lock[a] = w THEN NoWriter ELSE lock[a]]
  /\ pc' = [pc EXCEPT ![w] = "idle"]
  /\ seen' = [seen EXCEPT ![w] = NoRow]
  /\ archived' = [archived EXCEPT ![w] = NoRow]
  /\ result' = [result EXCEPT ![w] = answer]
  /\ UNCHANGED <<clock, nextId, put, start>>

\* getCurrentForUpdate on an agent without a committed row: nothing to lock.
SelectNothing(w) ==
  /\ pc[w] = "select"
  /\ row[Key(w)] = NoRow
  /\ pc' = [pc EXCEPT ![w] = "decide"]
  /\ UNCHANGED <<row, history, lock, clock, nextId, put, start, seen, archived, result>>

\* Mutation: the SELECT without FOR UPDATE.
SelectRowUnlocked(w) ==
  /\ pc[w] = "select"
  /\ row[Key(w)] # NoRow
  /\ seen' = [seen EXCEPT ![w] = row[Key(w)]]
  /\ pc' = [pc EXCEPT ![w] = "decide"]
  /\ UNCHANGED <<row, history, lock, clock, nextId, put, start, archived, result>>

\* getCurrentForUpdate on an existing row waits for the lock and takes it.
SelectRow(w) ==
  /\ pc[w] = "select"
  /\ row[Key(w)] # NoRow
  /\ lock[Key(w)] = NoWriter
  /\ lock' = [lock EXCEPT ![Key(w)] = w]
  /\ seen' = [seen EXCEPT ![w] = row[Key(w)]]
  /\ pc' = [pc EXCEPT ![w] = "decide"]
  /\ UNCHANGED <<row, history, clock, nextId, put, start, archived, result>>

\* Mutation: the stale path returns without the deferred Rollback.
RejectStaleLeakingLock(w) ==
  /\ pc[w] = "decide"
  /\ seen[w] # NoRow
  /\ put[w].seq < seen[w].rec.seq
  /\ pc' = [pc EXCEPT ![w] = "idle"]
  /\ result' = [result EXCEPT ![w] = "stale"]
  /\ UNCHANGED <<row, history, lock, clock, nextId, put, start, seen, archived>>

RejectStale(w) ==
  /\ pc[w] = "decide"
  /\ seen[w] # NoRow
  /\ put[w].seq < seen[w].rec.seq
  /\ Finish(w, "stale")
  /\ UNCHANGED <<row, history>>

RejectConflict(w) ==
  /\ pc[w] = "decide"
  /\ seen[w] # NoRow
  /\ put[w].seq = seen[w].rec.seq
  /\ put[w] # seen[w].rec
  /\ Finish(w, "conflict")
  /\ UNCHANGED <<row, history>>

\* Mutation: the same sequence again is accepted whatever its bytes.
CommitAnySameSequence(w) ==
  /\ pc[w] = "decide"
  /\ seen[w] # NoRow
  /\ put[w].seq = seen[w].rec.seq
  /\ Finish(w, "ok")
  /\ UNCHANGED <<row, history>>

\* The same bytes again: the transaction commits without having written.
CommitUnchanged(w) ==
  /\ pc[w] = "decide"
  /\ seen[w] # NoRow
  /\ put[w] = seen[w].rec
  /\ Finish(w, "ok")
  /\ UNCHANGED <<row, history>>

\* Mutation: an equal sequence passes the check.
SupersedesOrEqual(w) == seen[w] # NoRow => put[w].seq >= seen[w].rec.seq

\* The sequence check passes: no row was found, or the record is newer.
Supersedes(w) == seen[w] # NoRow => put[w].seq > seen[w].rec.seq

\* Mutation: the history row is inserted for an agent that had no row, too.
ArchiveAnything(w) ==
  /\ pc[w] = "decide"
  /\ Supersedes(w)
  /\ pc' = [pc EXCEPT ![w] = "upsert"]
  /\ archived' = [archived EXCEPT ![w] =
                     [row |-> row[Key(w)], archivedAt |-> start[w], id |-> nextId]]
  /\ nextId' = nextId + 1
  /\ UNCHANGED <<row, history, lock, clock, put, start, seen, result>>

\* INSERT INTO agent_addr_history ... SELECT: copies the committed row, if any.
Archive(w) ==
  /\ pc[w] = "decide"
  /\ Supersedes(w)
  /\ pc' = [pc EXCEPT ![w] = "upsert"]
  /\ IF row[Key(w)] = NoRow
       THEN UNCHANGED <<archived, nextId>>
       ELSE /\ archived' = [archived EXCEPT ![w] =
                  [row |-> row[Key(w)], archivedAt |-> start[w], id |-> nextId]]
            /\ nextId' = nextId + 1
  /\ UNCHANGED <<row, history, lock, clock, put, start, seen, result>>

\* Mutation: the upsert does not wait for the row lock.
UpsertAnyway(w) ==
  /\ pc[w] = "upsert"
  /\ lock' = [lock EXCEPT ![Key(w)] = w]
  /\ pc' = [pc EXCEPT ![w] = "commit"]
  /\ UNCHANGED <<row, history, clock, nextId, put, start, seen, archived, result>>

\* INSERT ... ON CONFLICT DO UPDATE waits for another holder and keeps the lock.
Upsert(w) ==
  /\ pc[w] = "upsert"
  /\ lock[Key(w)] \in {NoWriter, w}
  /\ lock' = [lock EXCEPT ![Key(w)] = w]
  /\ pc' = [pc EXCEPT ![w] = "commit"]
  /\ UNCHANGED <<row, history, clock, nextId, put, start, seen, archived, result>>

\* The row the upsert leaves: a fresh one, or the old one overwritten in place.
Upserted(w) ==
  [rec |-> put[w],
   createdAt |-> IF row[Key(w)] = NoRow THEN start[w] ELSE row[Key(w)].createdAt,
   updatedAt |-> start[w]]

Commit(w, answer) ==
  /\ pc[w] = "commit"
  /\ row' = [row EXCEPT ![Key(w)] = Upserted(w)]
  /\ history' = IF archived[w] = NoRow THEN history
                ELSE [history EXCEPT ![Key(w)] = Append(@, archived[w])]
  /\ Finish(w, answer)

\* COMMIT may take effect without its acknowledgement reaching the caller.
CommitAcknowledged(w) == Commit(w, "ok")
CommitUnacknowledged(w) == Commit(w, "error")

\* Mutation: the history row is inserted outside the transaction and survives it.
AbortKeepingArchive(w) ==
  /\ pc[w] \in Active
  /\ history' = IF archived[w] = NoRow THEN history
                ELSE [history EXCEPT ![Key(w)] = Append(@, archived[w])]
  /\ Finish(w, "error")
  /\ UNCHANGED row

\* A cancelled request, a lost connection, a failing statement or the end of the
\* process before COMMIT: everything the transaction did is rolled back.
Abort(w) ==
  /\ pc[w] \in Active
  /\ Finish(w, "error")
  /\ UNCHANGED <<row, history>>

Execute(w) ==
  \/ SelectNothing(w) \/ SelectRow(w)
  \/ RejectStale(w) \/ RejectConflict(w) \/ CommitUnchanged(w)
  \/ Archive(w) \/ Upsert(w) \/ CommitAcknowledged(w)

Fail(w) == CommitUnacknowledged(w) \/ Abort(w)

Next == \E w \in Writers :
  \/ \E rec \in Records : Begin(w, rec)
  \/ Execute(w)
  \/ Fail(w)

Spec == Init /\ [][Next]_vars

-----------------------------------------------------------------------------
(* Properties *)

TypeOK ==
  /\ row \in [Agents -> Rows \cup {NoRow}]
  /\ history \in [Agents -> Seq(Archived)]
  /\ lock \in [Agents -> Writers \cup {NoWriter}]
  /\ clock \in Times
  /\ nextId \in Nat
  /\ pc \in [Writers -> Active \cup {"idle"}]
  /\ put \in [Writers -> Records \cup {NoPut}]
  /\ start \in [Writers -> Times]
  /\ seen \in [Writers -> Rows \cup {NoRow}]
  /\ archived \in [Writers -> Archived \cup {NoRow}]
  /\ result \in [Writers -> Results]

\* A transaction that found a row holds its lock until it ends, so what it
\* decides from is still the committed row at every later statement.
SeenIsCurrent == \A w \in Writers :
  pc[w] \in {"decide", "upsert", "commit"} /\ seen[w] # NoRow =>
    lock[Key(w)] = w /\ row[Key(w)] = seen[w]

\* Put never replaces an established row by one that does not have a greater
\* sequence, whatever transactions run at the same time and however they end.
NeverRegresses ==
  [][\A a \in Agents : Established(a) =>
       row'[a] = row[a] \/ (row'[a] # NoRow /\ row'[a].rec.seq > row[a].rec.seq)]_vars

\* Archive and upsert take effect together: the history of an established agent
\* grows exactly when its row is replaced, and by exactly the row replaced.
ReplacedIsArchived ==
  [][\A a \in Agents : Established(a) =>
       \/ row'[a] = row[a] /\ history'[a] = history[a]
       \/ row'[a] # row[a] /\ \E t \in Times, i \in 0..nextId :
            history'[a] = Append(history[a], [row |-> row[a], archivedAt |-> t, id |-> i])]_vars

\* What a reader of the table sees of each agent.
Visible == [a \in Agents |-> IF row[a] = NoRow THEN NoRow ELSE row[a].rec]

EstablishedAgents == {a \in Agents : Established(a)}

Register == INSTANCE SequencedRegister WITH
  register <- Visible, settled <- EstablishedAgents, Unset <- NoRow

\* The visible records are a register that settles and from then on only moves to
\* greater sequences, whatever transactions race, fail or are not acknowledged.
ImplementsRegister == Register!RegisterSpec

\* docs/ARCHITECTURE.md:50, "Index writes reject stale sequence overwrites, and
\* same-sequence writes are idempotent only when the signed bytes are identical":
\* no committed row is ever replaced by another without a greater sequence.
StaleOverwritesRejected ==
  [][\A a \in Agents : row[a] # NoRow =>
       row'[a] = row[a] \/ row'[a].rec.seq > row[a].rec.seq]_vars

\* ORDER BY archived_at ASC, id ASC
ArchivedBefore(h, g) ==
  h.archivedAt < g.archivedAt \/ (h.archivedAt = g.archivedAt /\ h.id < g.id)

\* internal/index/postgres_test.go:147 expects History to list replaced records
\* oldest first ("history did not include second record after third put").
HistoryOldestFirst == \A a \in Agents :
  \A i, j \in DOMAIN history[a] : i < j => ArchivedBefore(history[a][i], history[a][j])
==============================================================================
