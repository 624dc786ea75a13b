# A TLA+ model of nanda

nanda is a lookup service for software agents. A client registers an agent with a
*facts* document (endpoints, capabilities, credentials). The server signs a 120-byte
record that names the document by hash and keeps the record in a *lean index*. A
client that resolves an agent gets an endpoint, a trust decision and a cache lifetime,
all of it checked against the record, the document and the revocation table. Every
decision goes to a hash-chained audit log.

There is no shared memory worth speaking of. The server is stateless HTTP handlers
over PostgreSQL and a directory of files, several servers may share both, and all
coordination is in row locks, one table lock and the order in which handlers call
their stores. That is what this project models: statements of transactions and calls
of handlers as atomic steps, interleaved in every way, with failures between any two.

## 1. Inventory

| Component | State | Operations | Uses | What makes it correct |
|---|---|---|---|---|
| `internal/index` | `agent_addr_records` (one row per agent), `agent_addr_history` | `Put` (one transaction: select for update, decide, archive, upsert, commit), `Get`, `History` | row locks | sequences only grow, replaced rows are archived exactly once, a lock is always released |
| `internal/audit` | `audit_events` | `Append` (one transaction under `LOCK TABLE`), `List`, `Query`, `VerifyHashChain` | table lock | the chain verifies in every committed state, readers never miss or repeat a row |
| `internal/facts` | files named by digest, `facts_pointers` | `Put`, `Get`, `PutFactsPointer`, `ResolveFactsPointer` | – | what is indexed can be read |
| `internal/registration` | none of its own | `Register` | facts, pointers, index, audit, in this order | index and audit log agree whatever fails |
| `internal/resolver` | none of its own | `Resolve` | index, pointers, facts, trust, audit, in this order | an answer belongs to one current record although four stores are read one by one |
| `internal/trust` | none | `VerifyCapability` | revocation | no capability on a revoked, foreign or expired credential |
| `internal/agentfacts` | none (pure) | `Validate`, `CredentialSetHash128` | – | the commitment does not depend on order |
| `internal/agentaddr` | none (pure) | `New`, `Sign`, `Decode`, `Verify`, `NormalizeAgentID` | – | round trip, tamper evidence |
| `internal/revocation` | `credential_revocations` | `SetStatus`, `GetStatus`, `IsRevoked` | – | – (one statement each) |
| `internal/admin` | none of its own | `SetRevocationStatus`, and reads | revocation, audit | table and log agree |
| `internal/config`, `cmd/nanda-server`, `migrations` | settings, signing key, schema | load, validate, migrate, serve, shut down | all | what serves has its whole schema, the audit table stays append-only, every start and stop ends and tells the truth in its exit code |
| `internal/observability` | counters and latencies behind one mutex | count, observe, render | wraps the audit store and the handlers | counters tell of no event the log lacks, a page is one moment, no request is lost between counters |
| `internal/api` | none | decode, authorise, map errors | services | every error has its status |

The components and how far each is modelled are listed in `PROJECT.json`; the hazards
found while reading, each at its line and with the properties that cover it, too.
Six behaviours are hard:

* **Locks that are not there.** `SELECT ... FOR UPDATE` locks what it finds. On the
  first registration of an agent it finds nothing.
* **Several stores, no transaction.** `Register`, `SetRevocationStatus` and `Resolve`
  touch two to five stores in sequence. Any call may fail, and any may take effect
  without its caller knowing (a lost acknowledgement of COMMIT).
* **Time.** `now()` is when a transaction began, not when it got its lock, and TTLs
  are cut to whole seconds.
* **Reads over a moving state.** A request reads the record, the pointer, the file and
  the revocations at different moments, possibly after a restart under another key.
* **Starts beside servers that serve.** Every start applies all migrations again to a
  database others use, drops a trigger on the way, and may fail or be killed anywhere.
* **Counting what others do.** A request moves up to four metrics in separate critical
  sections, after an append whose acknowledgement may be lost.

## 2. Modules

| Module | Models | Kind |
|---|---|---|
| `SequencedRegister` | what an index promises: a value per agent that, once its first registrations are over, only moves to greater sequences | abstract |
| `Publication` | what registrations do to the stores resolvers read: facts first, then the register | abstract, over `FactsStore` and `SequencedRegister` |
| `AppendOnlyLog` | what the audit log promises: a sequence that grows at its end | abstract |
| `LeanIndex` | `index/postgres.go`, `Put` statement by statement | component |
| `AuditLog` | `audit/postgres.go` and the chain in `audit.go` | component |
| `FactsStore`, `RevocationStore` | the file store with the pointer table, the revocation table | component, no specification of their own: the modules below compose them |
| `Registration` | `Register` over `FactsStore`, `LeanIndex` and `AppendOnlyLog`; implements `Publication` | composition |
| `AgentFacts` | `Validate`, the checks of `verifyCredential`, `selectEndpoint` | operators |
| `Resolver` | `Resolve` over `Publication`, `RevocationStore`, `AgentFacts`, `AppendOnlyLog` | composition |
| `Admin` | `SetRevocationStatus` over `RevocationStore` and `AppendOnlyLog` | composition |
| `AgentAddr` | the record as bytes: layout, `Sign`, `Decode`, `Verify` | pure algorithm |
| `CredentialSet` | `CredentialSetHash128` | pure algorithm |
| `Lifecycle` | `cmd/nanda-server/main.go`, `config/local.go`, `migrations/`: servers from start to exit | component |
| `Observability` | `observability/`, with the routes and handlers of `api/` in front of the services | component |
| `LeanIndexProofs`, `AuditLogProofs`, `RegistrationProofs`, `ResolverProofs`, `AdminProofs`, `LifecycleProofs`, `ObservabilityProofs` | theorems about the module each is named after | proofs |
| `EncodingProofs` | theorems about `AgentAddr` and `CredentialSet` | proofs |
| `MC*` | instances for TLC | – |

Operators whose comment begins with "Mutation:" are not part of the model. Each stands
in front of the definition it alters and is what a plausible mistake would make of it;
substituting it makes TLC find the property it is listed with in `PROJECT.json`
violated, which shows that the property depends on that code.

### How state and actions correspond to the code

**LeanIndex.** `row` and `history` are the committed tables. Each `Put` has a program
counter (`select`, `decide`, `upsert`, `commit`), the row its select returned, `now()`
of its transaction and the history row it has inserted. PostgreSQL is modelled as it
behaves at READ COMMITTED, the level `BeginTx(ctx, nil)` asks for: the select waits
for a locked row but locks nothing when there is none (`SelectNothing`, `SelectRow`);
the insert-select reads the committed row without waiting (`Archive`); the upsert
waits for any holder of the row or of the inserted key (`Upsert`). The sequence checks
of `Put` are `RejectStale`, `RejectConflict`, `CommitUnchanged` and `Supersedes`; the
deferred `Rollback` is `Finish`, which every way out of the transaction goes through.
`CommitUnacknowledged` is a COMMIT whose answer is lost, `Abort` everything else that
ends a transaction: cancelled context, failing statement, lost connection, crash.

**AuditLog.** `events` holds the committed rows *in commit order*, so that whether the
ids are in that order is a question rather than an assumption. An append goes through
`LockTable`, `NewEvent` (reads the latest hash, validates, takes the time, hashes) or
`RejectInput`, `Insert` (takes an id from the sequence, which a rollback does not give
back) and `Commit`. A digest is the sequence of payloads it covers. Times are counted in
half microseconds: the process reads a clock finer than the column, `Truncate` is what
`Append` does before hashing, and `Recorded` is what `scanEvent` reads back. Each event
takes any of `Times`: every server has a wall clock of its own, which may be set back, and
so nothing is said of the order of times. `Query` is one statement, filtered by agent, type
and decision or any of them; a reader appends page after page. `ORDER BY id` is defined by rank (`OrderById`: the
i-th row is the one with i - 1 smaller ids), which says what the order is rather than how it
is computed, and can be reasoned about.

**Registration.** A request walks through `truncate`, `write`, `pointer`, `decode`,
`index`, `audit`. While in `index` its steps are those of `LeanIndex` (`StepIndex`,
`FailIndex`), and `FollowIndex` is the return of `Put`. A malformed document is only
noticed after its file and pointer exist, as in the code. The `body` of a record is all that is
signed besides agent and sequence: the hashes, which name its document (`DocumentOf`), the
TTL and the flags. `accepted`, `unheard`, `failed` and `held` are history
variables: how many requests for a record were answered with success, how many appended an
event without hearing so, the records that failed and have not been registered successfully
since, and whether the record of a request was current while it ran. The two counts make
`IndexedIsAudited` speak of each request: an event left behind by an earlier try does
not stand for a later success. `ImplementsPublication` maps the visible rows to the register and the
established agents to the settled ones: readers of the stores cannot tell the
transactions, failures and races of registrations from `Publication`'s five actions.

**Resolver.** A request walks through `index`, `pointer`, `facts`, `trust`, `audit`;
`now` is taken once, at the start, as the code does. `Forget` drops the local state
when the handler returns. Files are truncated and rewritten, pointers put, records
committed, statuses changed, time passes and the server restarts between any two
reads. What registrations do meanwhile are the actions of `Publication`
(`TruncateFile`, `WriteFile`, `PutPointer`, `CommitRecord`, `EndFirst`), the same module
`Registration` is shown to implement, so that nothing is assumed here that is not shown
there. `window`, `revokedSince` and `foundSettled` are history variables: the values the
agent's row had during the request, the credentials that stayed revoked, and whether
the agent was settled when its record was read.

**Admin.** A request walks through `store` and `audit`. `made` and `lost` count, for each change,
how often it was stored, and how often that was without an event and answered with an error.
A *round* of a key is a run of requests for it, from one that arrives when none
is under way to the moment none is again; `since`, `overlapped` and `failed` are about the latest round only,
so that an error in one round excuses nothing in the next. All of these are history variables.

**AgentAddr, CredentialSet.** The initial state chooses any input; the steps are the
calls. Bytes have `Base` values instead of 256 and hashes `HashSize` bytes instead
of 16; the layout's offsets are written in terms of `HashSize` and give the code's 24,
40 and 56 for 16. A signature is the key and the bytes it was made for. An encoded
credential is a sequence of numbers whose comparison is the code's byte comparison:
what matters is that it is a total order on encodings, not which. A sort is stated by what
it promises, a rearrangement with nothing before what it comes after (`Sorted`); neither
sort of the code is stable, and neither has to be, as elements that compare equal are equal.

**Lifecycle.** A server goes through `ping`, `migrate`, `serve` and `shutdown`; its end,
however it comes about, is `End`. Settings are records of what each environment variable
holds, missing, bad or good values included. A private key is a value of the right length; the public
key in it is its `PublicHalf`, which need not belong to its seed, as nothing in
`loadPrivateKey` looks. `Migrations` lists the statements of the
five files; `db.ExecContext` without arguments sends a file as one simple query, which
PostgreSQL runs as one transaction, so that `ApplyStatement` changes only the server's own
`touched` and `draft`, and `CommitFile` makes them visible. Statements that meet an object
another open transaction has touched wait (`Runnable`), and may then fail (`FailStart`),
as two `CREATE ... IF NOT EXISTS` of one object do. A connection is made while the listener is
open (`Connect`), waits for a request (`waiting`), has one that is handled (`open`), and stays for the next.
A request may still arrive on it during `shutdown` (`Receive`). `Shutdown` returns when no
request is open or after its five seconds, in any order with clients that finish.

**Observability.** A request is received, refused by the mux, the token, the method or
the body, or served; a service comes to one of its endings (event and status), the
audit store wrapped by `observability.AuditStore` appends and then counts, and the middleware moves
its metrics one critical section at a time. Metrics are sparse maps as in the registry: `Copies` reads a
missing key as zero, `Counted` is `addCounter`. The state is that of one
process: `appended` counts the events its requests put in the log, whether they were
acknowledged or not.

## 3. Runs

Bounds are constants of the modules and named there (`MaxPuts`, `MaxAppends`,
`MaxRequests`, `MaxTime`, `MaxSeq`, `MaxLength`). Deadlock is not checked anywhere: once
its bound is used up a model may stop, and a server without requests stops as well. A
transaction that waits for ever is found by the liveness runs instead.

| Run | Shows | Bounds and why they are enough |
|---|---|---|
| `index` | `SeenIsCurrent`, `NeverRegresses`, `ReplacedIsArchived`, and the refinement `ImplementsRegister` | four calls of three writers on one agent (rows of different agents do not interact: each has its own lock), two sequences, two bodies: two writers race while a third is established, waits or archives; equal sequences with equal and unequal bytes occur |
| `index_stale` | **violated**: `StaleOverwritesRejected` | two writers suffice |
| `index_history` | **violated**: `HistoryOldestFirst` | three puts: one establishes the row, two replace it |
| `audit` | `ChainVerifies` (the truncation of times included), `IdsFollowCommits`, `PagesAreExact`, the refinement `ImplementsLog`, and `AppendReturns` | three appends of two writers, so that they contend for the lock and a rollback leaves a gap between the ids of two rows; two valid inputs, one with a bad type and one with a bad decision; a time below a microsecond and one after, in any order; queries with no filter, one and all three; pages of one and two rows |
| `registration` | `IndexedIsStored`, `IndexedIsAudited`, `AcceptedWasCurrent`, the refinement `ImplementsPublication`, and `RegisterReturns` (the row locks of the index included) | two concurrent requests and a third after either, so that a failed or unheard request is repeated; a record, a newer one, another with its sequence (the same document under another TTL), and a document that does not decode |
| `resolver` | `AnsweredFromCurrentRecord`, `CachedWithinBothTTLs`, `RevocationIsEffective`, `NotFoundIsTrue` | one request, since requests do not read each other's state (`RequestsLeft` drops states after it); two ticks per second and three times, so that a remainder below one second, an expired record and a credential and document that expire all occur; two endpoints, two keys |
| `resolver_answers` | `SequencesNeverGoBack`, `AnswersAreAudited` | two requests of a client, the record replaced in between, a document with two credentials whose statuses keep changing |
| `admin` | `StatusIsAudited`, `AuditedWasMade`, `LatestEventStands` | five requests of two administrators on two credentials: a round of two that overlap or fail, and rounds after it on the same credential |
| `agentaddr` | `RoundTrip` | every payload over a two-valued byte; each one-byte change, a forged signature, a short record |
| `credential_set` | `CommitsToTheSet` | all pairs of lists of at most two credentials with at most two capabilities |
| `observability` | `CounterFollowsLog`, `PageIsConsistent` | see `MCObservability.cfg`: two requests in flight at once and a third after either, so that a scrape meets requests between any two of their counters |
| `lifecycle` | `ServesWholeSchema`, `StaysAppendOnly`, `ExitZeroMeansAnswered`, `StartAndStopEnd` | two servers and four starts: a first migration beside another, a repeated one beside a serving server, restarts under the same and other settings; settings refused for each reason there is, and a key whose halves do not match, which is accepted; two connections of a server, one idle while the other has a request |

Each component's `TypeOK` is checked in its main safety run (`AgentAddr`, `CredentialSet` and `Observability` have
none: what they compute is compared value by value).

Symmetry is used only in runs without liveness properties, and only over constants the
specification treats alike.

### What the two violations mean

* `index_stale`. `docs/ARCHITECTURE.md:50` says that index writes reject stale
  overwrites. Two first registrations of one agent both select nothing, so neither
  locks nor compares anything, and the second upsert overwrites the first whatever its
  sequence is. `ON CONFLICT DO UPDATE` carries no condition on the sequence. What does
  hold is stated by `NeverRegresses`, about *established* agents: those with a row and
  no transaction left that began before there was one. The register that `LeanIndex`
  implements therefore has two phases: while first registrations are under way any of
  them may overwrite another (`Race`), and from then on the agent is settled and only
  `Advance` is possible.
* `index_history`. `History` orders by `archived_at`, the start of the archiving
  transaction. A transaction that began earlier but got the lock later archives the
  newer row with the earlier time, and `History` lists the rows out of order.

### Fairness

`AuditLog` and `Registration`, whose requests run the transactions of `LeanIndex`, assume
strong fairness of a transaction's next statement: PostgreSQL queues the waiters of a
lock and grants it in turn, so that a transaction whose lock becomes free again and again
gets it. `Lifecycle`
assumes weak fairness of a server's own steps: its start-up goes on while its next statement can run (the database
answers, and what another transaction holds is released when that server's file is
committed or the server ends) and the five seconds of a shutdown pass; no client is
assumed to finish its request. `Resolver` and `Admin` state no fairness: their requests are
straight-line code that waits for nobody, and that they end would say nothing of the code. No client is assumed to call, nothing is assumed to fail, and time is not assumed to pass. The bounds on
requests make the runs finite; strong fairness is what the lock queue gives under
unbounded traffic as well.

## 4. What is proved

The proofs hold for all values of the constants: any number of agents, servers, requests and
clients, any bounds, any documents and settings. What they assume are the named `ASSUME`s of
the modules. Bounds are natural numbers. The values for "nothing" (`NoRow`, `NoWriter`, `NoPut`,
`NoEvent`, `None`) and a forged signature differ from everything they stand beside. A document
lists its endpoints and credentials, and TTLs are numbers (`DocumentsAssumption` of `Resolver`); a
body names its document, a key value its public half, an input an agent, and clocks show numbers. Administrators
and clients of `/metrics` are finitely many. Each
is evaluated by TLC on the instances.

| Property | Theorem |
|---|---|
| `SeenIsCurrent`, `NeverRegresses`, `ReplacedIsArchived`, `ImplementsRegister` | `LeanIndexProofs` |
| `IdsFollowCommits`, `ChainVerifies`, `PagesAreExact`, `ImplementsLog` | `AuditLogProofs` |
| `IndexedIsStored`, `IndexedIsAudited`, `AcceptedWasCurrent`, `ImplementsPublication` | `RegistrationProofs` |
| `AnsweredFromCurrentRecord`, `CachedWithinBothTTLs`, `RevocationIsEffective`, `NotFoundIsTrue`, `SequencesNeverGoBack`, `AnswersAreAudited` | `ResolverProofs` |
| `StatusIsAudited`, `AuditedWasMade`, `LatestEventStands` | `AdminProofs` |
| `RoundTrip`, `CommitsToTheSet` | `EncodingProofs` |
| `ServesWholeSchema`, `StaysAppendOnly`, `ExitZeroMeansAnswered` | `LifecycleProofs` |
| `CounterFollowsLog`, `PageIsConsistent` | `ObservabilityProofs` |

and `TypeOK` of every module that has one. Each theorem is `Spec => []Property`, the action properties and
refinements `Spec => Property`, where `Spec` is `CommitmentSpec` in `CredentialSet`; those of `EncodingProofs`
include `DecodedAsEncoded` and `HashIsOfTheSet`, which are about values and not behaviours. Every inductive invariant was an invariant of a TLC run before it was proved.

**LeanIndexProofs.** The inductive invariant `IInv` adds to `TypeOK` and `SeenIsCurrent`
what holds between the statements of running transactions: a lock belongs to a
transaction past its select on that agent (`LocksAreHeld`), after the upsert the row is
locked whatever the select found (`UpsertedIsLocked`), a transaction that saw a row
writes a greater sequence and has archived exactly that row (`WritesSupersede`), one that
has not run its select has seen nothing (`NothingSeenYet`). `SeenIsCurrent` alone is not
inductive: that nobody else commits to a locked row needs `UpsertedIsLocked`. For
`NeverRegresses` the argument is that the only step that changes an established row is the commit of
a transaction that is not blind, hence one that holds the lock, has seen the row and
carries a greater sequence; `ReplacedIsArchived` is what `WritesSupersede` says of that same commit.
For `Implementation`, a commit to an established agent is an advance of the register, any other
commit a race, and a transaction that ends without one may
settle its agent; a row once there stays (`RowsStay`), and an agent once established
stays so, because a select that comes later finds the row.

**AuditLogProofs.** There are two invariants. `IInv` is about the writers: whoever is past `LOCK TABLE`
holds the lock, committed ids are below the next one and below the holder's, the event the
holder has built continues the committed chain and is recorded as it was hashed, which
needs the time to be cut before hashing (`TruncatedOnce`). `ReadInv` is about the lists that queries make: every place of a list is
taken by exactly one row (`Placed`), in the list of all rows each is where its commit put it
(`ListedByCommit`), and a reader has read a beginning of what its filter selects. The lemma between the two is
`ListIsEvents`: the table in the order of ids is the sequence of commits. It turns
`ChainInCommitOrder` into `ChainVerifies` and makes every commit one
entry at the end of `AppendOnlyLog`.

**RegistrationProofs.** `IInv` consists of the index's own `IInv` and of what a request has done by
each stage: its facts are stored before its record goes to the index (`StoredByStage`), so are those of
rows that a transaction has archived but not committed (`ArchivedIsStored`), and a request runs its index transaction at one
place only (`IndexStage`). `IndexedIsAudited` is part of it: a step that appends adds one event and one to
`accepted` or `unheard`; a step that puts a record in the index is the commit of a request that is
about to audit it, or one that was not acknowledged, which adds the record to `failed`. The theorems about the index are used as they are, through an instance of
`LeanIndexProofs`. `Implementation` composes: a step of the index is what `LeanIndexProofs` shows it to be
to the register, and a record that becomes visible has its pointer and file, which is the guard of
`Publication`'s `CommitRecord`.

**ResolverProofs.** `StoresAgree` says what `Publication` keeps: an indexed record has its pointer, a pointer its file,
a settled agent its row. The rest is one conjunct per hazard between two reads of a request (`RequestOK`):
the record it holds was current while it ran, is signed with the server's key and has not expired
(`FoundWasCurrent`); an allowed answer is computed from that record and from a document that was
validated (`AllowedIsValid`); keys in `revokedSince` are revoked still (`StillRevoked`), so a credential that
is accepted was not revoked throughout (`GrantHolds`); a missing row was missing during the window
(`NotFoundHolds`). For `SequencesNeverGoBack` it is needed that what a client has been told of a
settled agent is not newer than the row, nor than what its present request has found
(`ToldWasCurrent`, `FoundNotAhead`). Two of the code's computations need lemmas: `selectEndpoint`
finds a best endpoint of any non-empty list (a least element of a set of numbers, from the well-foundedness of
the natural numbers, since induction is out of reach), and whole seconds of a remaining TTL are
no longer than the TTL for any number of ticks per second. `AnswersAreAudited` counts both sides: an append adds one
occurrence to the log and at most one answer.

**AdminProofs.** `IInv` makes the books balance (`Accounts`): every time a change was stored has one event, one
request about to append it, or one counted as lost. `StatusIsAudited` and `AuditedWasMade` are the two halves of this, and
neither is inductive by itself. Each step moves one request from one of the numbers to another;
the lemmas on cardinalities (`EventsAppend`, `AppendersGrow`, `AppendersShrink`) say that it moves just one.
`LatestEventStands` needs `InStep`, about the round under way: if nothing in it failed, the status of
the key has its event in this round, or will have it, or is about to be changed (`Recorded`); if in addition
nothing overlapped, requests come one by one and the log lacks at most the event of the one
about to append it (`OneByOne`). A round that begins says nothing of the log before it, which is why it recovers from earlier errors.

**EncodingProofs.** The records: big-endian numbers of two and four digits of any base are read back as they were put
(`DivTwice` is the arithmetic of it), a sequence cut where it was joined falls into its parts, and so
a payload is decoded to itself (`DecodedAsEncoded`). Bytes of 256 values and hashes of 16 bytes are one instance. On its
way to the reader a record is the one signed or one that no key signed.

The credentials: `Sorted` is a choice, so there must be something to choose, and just one thing. A list over a
total order can be sorted (`SortExists`) since the rank of a place, the number of places it comes after,
equal elements being ranked by place, is a bijection of the places (`RankIsPlace`). Two sorted rearrangements of one
list are equal (`NotLess`): were one less at place `k`, it would hold `k` elements below
something the other holds at most `k - 1` below, and bijections keep such numbers. Hence two lists
are rearrangements of each other exactly when they are sorted to the same list (`SortedIff`). Both orders of the code
are total: `Before` because two sequences agree up to a first difference (`FirstDifference`, a least number again).
Applied to capabilities, then to encodings, this gives `HashIsOfTheSet`, and with
`CommitmentInv`, which says that the verdict is the comparison of two hashes, `CommitsToTheSet`, for credential lists
and capability lists of any length.

**LifecycleProofs.** `MigrationInv` follows the open transactions: a server is within its file
(`WithinFile`), the files before it are committed (`FilesInOrder`), to itself its statements so far
have taken effect (`FileUnderWay`), and the only object a transaction may hide is the trigger, between the
statement that drops it and the one that makes it again (`OnlyGuardIsHidden`). A commit happens after the last
statement of a file, never there. `ServerInv` says that a server
which was told to migrate listens after its last file, and what its exit code says of its requests.

**ObservabilityProofs.** A page is consistent because each counter, together with the requests that
have moved the one before it but not yet this one, accounts for that earlier one. `IInv` says so for each pair:
audit events before outcomes (`EventsFirst`), all requests before latencies (`HTTPFirst`), latencies before
the route's own counter (`LatencyFirst`), that before denials and updates (`RouteFirst`), the log before the counter of its
events (`Followed`). A step concerns one request, so that each side changes by at most one:
`InHandMoves` says it of the number of requests between two counters, `CopiesMove` and `TotalsMove` of the
counters, `StageMoves` of the request. The clients only need to be finitely many
(`BoundsAssumption`), as cardinalities mean nothing otherwise.

Only model-checked: the liveness properties `AppendReturns`, `RegisterReturns` and `StartAndStopEnd`, since the provers handle neither fairness nor ENABLED.

## 5. What is abstracted, and what is left out

* PostgreSQL's statements are atomic and behave as described above. In `Resolver` its clock
  and the server's agree; `AuditLog` relies on no such thing. SHA-256 has no collisions and Ed25519 no forgeries.
* The comparisons in `Resolve` of agent hash, pointer hash and credential set succeed by
  construction of the records in the model. That the last one does for equal
  sets is what `CredentialSet` is about.
* A facts document that fails a check on one of its strings (blank id, url not https) is
  one with `wellFormed` false; the instance checked by TLC has none, and relies on
  expiry for documents and credentials that stop being valid.
* A server that ends closes its connections, so that its transactions roll back: this is
  `Abort` in `LeanIndex` and `AuditLog` and `Fail` in `Registration`.
* The in-memory stores (used by tests) do the same under one mutex, and are not modelled.
* `Lifecycle` lets any statement of a migration fail and any process be killed, but not
  the database itself. A server that does not migrate (`NANDA_AUTO_MIGRATE=false`, or production by
  default) serves whatever schema there is, as the code does; `ServesWholeSchema` is
  about the others.
* Handlers do not panic, and counters do not reach 2^64.

### Not modelled

* Request ids, the wording and layout of answers, and the text format of `/metrics`: no state
  depends on them.
* The sum, minimum and maximum of latencies: floating point under the same mutex as
  their count.
* `NormalizeAgentID`: Unicode case mapping and trimming of one string. The services call
  it before anything else, so that an agent here is a normalised id.
* Canonical JSON: applied before hashing and again to what is read, so that hash
  and verification see one form; its own correctness is that of `encoding/json`.
* The in-memory stores.

## 6. Plan

Done: all modules of section 2 and the proofs of section 4, which state every safety property
and refinement that the runs check.

Open: nothing in reach of the tools. The liveness properties stay with TLC, and what is
not modelled is listed in section 5.
