------------------------------ MODULE Lifecycle ------------------------------
(* Servers from start to exit (cmd/nanda-server/main.go): settings are loaded *)
(* and checked (internal/config/local.go), the files of migrations/ are       *)
(* applied one after the other when asked for, requests are served, and a     *)
(* signal stops the server within five seconds.  Servers share a database and *)
(* start, fail and are killed at any time.                                    *)
(*                                                                            *)
(* db.ExecContext sends a file without arguments as one simple query, which   *)
(* PostgreSQL runs as one transaction.  A statement waits for what another    *)
(* open transaction has created, replaced or dropped.                         *)
EXTENDS Integers, Sequences, FiniteSets

CONSTANTS
  Servers,      \* server processes, each started again when it has ended
  Settings,     \* the environments they are started with
  PrivateKeys,  \* values of 64 bytes to configure a server with: a seed and a public key
  FreshKeys,    \* keys a server makes when it starts without one
  PublicHalf,   \* such a value or key -> the public key in it, derived from the seed or not
  MaxStarts,    \* bound: starts
  MaxOpen,      \* bound: connections of a server
  NoConfig      \* a server that has not loaded its settings

ASSUME BoundsAssumption == MaxStarts \in Nat /\ MaxOpen \in Nat

ASSUME PublicHalfAssumption == DOMAIN PublicHalf = PrivateKeys \cup FreshKeys

-----------------------------------------------------------------------------
(* Settings *)

\* A fresh key without a configured one; "none" is an error.  Whether the public key
\* in the configured value belongs to its seed is not looked at.
LoadPrivateKey(s, fresh) ==
  CASE s.privateKey = "" -> fresh
    [] s.privateKey \in PrivateKeys -> s.privateKey
    [] OTHER -> "none"

\* A public key that is given is the one in the private key.
LoadPublicKey(s, key) == s.publicKey \in {"", PublicHalf[key]}

Mode(s) == IF s.mode = "" THEN "local" ELSE s.mode

\* An allowlist comes from the JSON or the file that is named, never from both.
LoadTrustedIssuers(s) ==
  <<s.issuersJSON, s.issuersFile>> \in {<<"", "">>, <<"valid", "">>, <<"", "valid">>}

LoadLocal(s, fresh) ==
  /\ Mode(s) \in {"local", "production"}
  /\ Mode(s) = "production" => s.privateKey # ""
  /\ LoadPrivateKey(s, fresh) # "none"
  /\ LoadPublicKey(s, LoadPrivateKey(s, fresh))
  /\ LoadTrustedIssuers(s)

ValidateRuntime(s) ==
  /\ s.dsn # ""
  /\ Mode(s) = "production" => s.privateKey # "" /\ s.token # ""

ShouldAutoMigrate(s) ==
  IF Mode(s) = "local" THEN s.autoMigrate # "false" ELSE s.autoMigrate = "true"

-----------------------------------------------------------------------------
(* Migrations *)

\* CREATE ... IF NOT EXISTS; the trigger is created after it was dropped.
Create(x) == [op |-> "create", object |-> x]

AgentAddrIndexFile ==
  <<Create("agent_addr_records"), Create("agent_addr_history"),
    Create("agent_addr_history_agent_hash_idx")>>

AuditEventsFile == <<Create("audit_events"), Create("audit_events_agent_id_idx")>>

CredentialRevocationsFile == <<Create("credential_revocations")>>

FactsPointersFile == <<Create("facts_pointers")>>

AppendOnlyFile ==
  <<[op |-> "replace", object |-> "prevent_audit_events_mutation"],
    [op |-> "drop", object |-> "audit_events_append_only"],
    Create("audit_events_append_only")>>

\* The files in the order of their names, in which they are applied.
Migrations ==
  <<AgentAddrIndexFile, AuditEventsFile, CredentialRevocationsFile, FactsPointersFile,
    AppendOnlyFile>>

Statements == UNION {{Migrations[f][i] : i \in DOMAIN Migrations[f]} : f \in DOMAIN Migrations}
Objects == {s.object : s \in Statements}
Guard == "audit_events_append_only"

VARIABLES
  schema,     \* the objects of the database, as committed
  starts,     \* number of starts
  stage,      \* server -> "down", "ping", "migrate", "serve" or "shutdown"
  config,     \* server -> the settings it runs with and its key, or NoConfig
  file,       \* server -> the migration it is to apply next
  statement,  \* server -> the statement of that file it is to run next
  touched,    \* server -> what its open transaction created, replaced or dropped
  draft,      \* server -> those of them that exist at the end of it
  waiting,    \* server -> number of its connections without a request
  open,       \* server -> number of its connections whose request it handles
  exit,       \* server -> how it last ended: "none", "0", "1" or "killed"
  dropped     \* server -> number of requests that ended with it, unanswered

migrationVars == <<schema, file, statement, touched, draft>>
vars == <<migrationVars, starts, stage, config, waiting, open, exit, dropped>>

Init ==
  /\ schema = {}
  /\ starts = 0
  /\ stage = [p \in Servers |-> "down"]
  /\ config = [p \in Servers |-> NoConfig]
  /\ file = [p \in Servers |-> 1]
  /\ statement = [p \in Servers |-> 1]
  /\ touched = [p \in Servers |-> {}]
  /\ draft = [p \in Servers |-> {}]
  /\ waiting = [p \in Servers |-> 0]
  /\ open = [p \in Servers |-> 0]
  /\ exit = [p \in Servers |-> "none"]
  /\ dropped = [p \in Servers |-> 0]

Goto(p, next) == stage' = [stage EXCEPT ![p] = next]

\* The process ends, and with it its transaction and its connections.
End(p, code) ==
  /\ Goto(p, "down")
  /\ config' = [config EXCEPT ![p] = NoConfig]
  /\ file' = [file EXCEPT ![p] = 1]
  /\ statement' = [statement EXCEPT ![p] = 1]
  /\ touched' = [touched EXCEPT ![p] = {}]
  /\ draft' = [draft EXCEPT ![p] = {}]
  /\ waiting' = [waiting EXCEPT ![p] = 0]
  /\ open' = [open EXCEPT ![p] = 0]
  /\ exit' = [exit EXCEPT ![p] = code]
  /\ dropped' = [dropped EXCEPT ![p] = open[p]]
  /\ UNCHANGED schema

-----------------------------------------------------------------------------
(* Start *)

Start(p, s, fresh) ==
  /\ stage[p] = "down"
  /\ starts < MaxStarts
  /\ starts' = starts + 1
  /\ IF LoadLocal(s, fresh) /\ ValidateRuntime(s)
       THEN /\ config' = [config EXCEPT ![p] =
                 [settings |-> s, key |-> LoadPrivateKey(s, fresh)]]
            /\ Goto(p, "ping")
            /\ exit' = [exit EXCEPT ![p] = "none"]
            /\ dropped' = [dropped EXCEPT ![p] = 0]
            /\ UNCHANGED <<migrationVars, waiting, open>>
       ELSE End(p, "1")

Ping(p) ==
  /\ stage[p] = "ping"
  /\ Goto(p, IF ShouldAutoMigrate(config[p].settings) THEN "migrate" ELSE "serve")
  /\ UNCHANGED <<migrationVars, starts, config, waiting, open, exit, dropped>>

Current(p) == Migrations[file[p]][statement[p]]

Visible(p, x) == IF x \in touched[p] THEN x \in draft[p] ELSE x \in schema

\* What the next statement leaves of the open transaction.
RunStatement(p) ==
  LET op == Current(p).op
      x == Current(p).object
  IN
  /\ statement' = [statement EXCEPT ![p] = @ + 1]
  /\ touched' = [touched EXCEPT ![p] =
       IF op = "create" /\ Visible(p, x) THEN @ ELSE @ \cup {x}]
  /\ draft' = [draft EXCEPT ![p] =
       CASE op = "drop" -> @ \ {x}
         [] op = "create" /\ Visible(p, x) -> @
         [] OTHER -> @ \cup {x}]

Runnable(p) ==
  /\ stage[p] = "migrate"
  /\ file[p] \in DOMAIN Migrations
  /\ statement[p] \in DOMAIN Migrations[file[p]]
  /\ \A q \in Servers \ {p} : Current(p).object \notin touched[q]

\* Mutation: every statement is a transaction of its own.
ApplyStatementAlone(p) ==
  LET x == Current(p).object IN
  /\ Runnable(p)
  /\ statement' = [statement EXCEPT ![p] = @ + 1]
  /\ schema' = IF Current(p).op = "drop" THEN schema \ {x} ELSE schema \cup {x}
  /\ UNCHANGED <<file, touched, draft, starts, stage, config, waiting, open, exit, dropped>>

ApplyStatement(p) ==
  /\ Runnable(p)
  /\ RunStatement(p)
  /\ UNCHANGED <<schema, file, starts, stage, config, waiting, open, exit, dropped>>

FileApplied(p) ==
  /\ stage[p] = "migrate"
  /\ file[p] \in DOMAIN Migrations
  /\ statement[p] > Len(Migrations[file[p]])

\* Mutation: the transaction of a file is left open.
CommitFileKeepingLocks(p) ==
  /\ FileApplied(p)
  /\ schema' = (schema \ touched[p]) \cup draft[p]
  /\ file' = [file EXCEPT ![p] = @ + 1]
  /\ statement' = [statement EXCEPT ![p] = 1]
  /\ UNCHANGED <<touched, draft, starts, stage, config, waiting, open, exit, dropped>>

CommitFile(p) ==
  /\ FileApplied(p)
  /\ schema' = (schema \ touched[p]) \cup draft[p]
  /\ file' = [file EXCEPT ![p] = @ + 1]
  /\ statement' = [statement EXCEPT ![p] = 1]
  /\ touched' = [touched EXCEPT ![p] = {}]
  /\ draft' = [draft EXCEPT ![p] = {}]
  /\ UNCHANGED <<starts, stage, config, waiting, open, exit, dropped>>

\* The listener is opened once every file is applied.
FinishMigrations(p) ==
  /\ stage[p] = "migrate"
  /\ file[p] > Len(Migrations)
  /\ Goto(p, "serve")
  /\ UNCHANGED <<migrationVars, starts, config, waiting, open, exit, dropped>>

\* Mutation: a migration that fails is skipped.
SkipFailedFile(p) ==
  /\ stage[p] = "migrate"
  /\ file' = [file EXCEPT ![p] = @ + 1]
  /\ statement' = [statement EXCEPT ![p] = 1]
  /\ touched' = [touched EXCEPT ![p] = {}]
  /\ draft' = [draft EXCEPT ![p] = {}]
  /\ UNCHANGED <<schema, starts, stage, config, waiting, open, exit, dropped>>

\* The database does not answer, or a statement fails, be it because another server
\* has just created the same object: the transaction is rolled back.
FailStart(p) ==
  /\ stage[p] \in {"ping", "migrate"}
  /\ End(p, "1")
  /\ UNCHANGED starts

-----------------------------------------------------------------------------
(* Requests and the end *)

\* A client connects while the listener is open.
Connect(p) ==
  /\ stage[p] = "serve"
  /\ waiting[p] + open[p] < MaxOpen
  /\ waiting' = [waiting EXCEPT ![p] = @ + 1]
  /\ UNCHANGED <<migrationVars, starts, stage, config, open, exit, dropped>>

\* A request arrives on a connection, also on one made before the listener was closed.
Receive(p) ==
  /\ stage[p] \in {"serve", "shutdown"}
  /\ waiting[p] > 0
  /\ waiting' = [waiting EXCEPT ![p] = @ - 1]
  /\ open' = [open EXCEPT ![p] = @ + 1]
  /\ UNCHANGED <<migrationVars, starts, stage, config, exit, dropped>>

\* The connection stays for another request, unless the server is shutting down.
Answer(p) ==
  /\ open[p] > 0
  /\ open' = [open EXCEPT ![p] = @ - 1]
  /\ \/ stage[p] = "serve" /\ waiting' = [waiting EXCEPT ![p] = @ + 1]
     \/ UNCHANGED waiting
  /\ UNCHANGED <<migrationVars, starts, stage, config, exit, dropped>>

\* A connection is closed: by its client, after five seconds without the headers of a
\* request, or as an idle one by Shutdown.
Disconnect(p) ==
  /\ waiting[p] > 0
  /\ waiting' = [waiting EXCEPT ![p] = @ - 1]
  /\ UNCHANGED <<migrationVars, starts, stage, config, open, exit, dropped>>

\* ListenAndServe returns an error: the port is taken, or accepting fails for good.
FailListen(p) ==
  /\ stage[p] = "serve"
  /\ End(p, "1")
  /\ UNCHANGED starts

\* SIGINT or SIGTERM while the server serves: the listener is closed.
Signal(p) ==
  /\ stage[p] = "serve"
  /\ Goto(p, "shutdown")
  /\ UNCHANGED <<migrationVars, starts, config, waiting, open, exit, dropped>>

\* Shutdown finds no connection with a request, and closes the rest.
ShutdownReturns(p) ==
  /\ stage[p] = "shutdown"
  /\ open[p] = 0
  /\ End(p, "0")
  /\ UNCHANGED starts

\* Mutation: the error of Shutdown is dropped.
ShutdownTimesOutUnnoticed(p) ==
  /\ stage[p] = "shutdown"
  /\ open[p] > 0
  /\ End(p, "0")
  /\ UNCHANGED starts

\* Mutation: Shutdown waits for as long as it takes.
ShutdownWaits(p) ==
  /\ stage[p] = "shutdown"
  /\ waiting[p] + open[p] > 0
  /\ UNCHANGED vars

\* The five seconds are over and a request is still being handled, or a connection is
\* too young to tell whether it brings one.
ShutdownTimesOut(p) ==
  /\ stage[p] = "shutdown"
  /\ waiting[p] + open[p] > 0
  /\ End(p, "1")
  /\ UNCHANGED starts

\* A crash, or a signal before the server listens for signals.
Kill(p) ==
  /\ stage[p] # "down"
  /\ End(p, "killed")
  /\ UNCHANGED starts

StartUp(p) == Ping(p) \/ ApplyStatement(p) \/ CommitFile(p) \/ FinishMigrations(p)

ShutDown(p) == ShutdownReturns(p) \/ ShutdownTimesOut(p)

Next == \E p \in Servers :
  \/ \E s \in Settings, fresh \in FreshKeys : Start(p, s, fresh)
  \/ StartUp(p) \/ FailStart(p)
  \/ Connect(p) \/ Receive(p) \/ Answer(p) \/ Disconnect(p)
  \/ FailListen(p) \/ Signal(p) \/ ShutDown(p) \/ Kill(p)

Spec == Init /\ [][Next]_vars

\* The database runs the statements it is sent, and time passes; no client is made
\* to finish, and nobody is made to start or stop a server.
Fairness == \A p \in Servers : WF_vars(StartUp(p)) /\ WF_vars(ShutDown(p))

FairSpec == Spec /\ Fairness

-----------------------------------------------------------------------------
(* Properties *)

Running(p) == stage[p] \in {"serve", "shutdown"}

TypeOK ==
  /\ schema \subseteq Objects
  /\ starts \in 0..MaxStarts
  /\ stage \in [Servers -> {"down", "ping", "migrate", "serve", "shutdown"}]
  /\ config \in [Servers -> {NoConfig} \cup
                   [settings : Settings, key : PrivateKeys \cup FreshKeys]]
  /\ file \in [Servers -> 1..(Len(Migrations) + 1)]
  /\ statement \in [Servers -> 1..4]
  /\ touched \in [Servers -> SUBSET Objects]
  /\ draft \in [Servers -> SUBSET Objects]
  /\ \A p \in Servers :
       /\ draft[p] \subseteq touched[p]
       /\ touched[p] \subseteq {Migrations[file[p]][i].object : i \in 1..(statement[p] - 1)}
  /\ waiting \in [Servers -> 0..MaxOpen]
  /\ open \in [Servers -> 0..MaxOpen]
  /\ \A p \in Servers : waiting[p] + open[p] <= MaxOpen
  /\ exit \in [Servers -> {"none", "0", "1", "killed"}]
  /\ dropped \in [Servers -> 0..MaxOpen]

\* docs/LOCAL_DEMO.md:19: a server that applies migrations serves no request before
\* the whole schema is there, also when others start, fail or are killed beside it.
ServesWholeSchema == \A p \in Servers :
  Running(p) /\ ShouldAutoMigrate(config[p].settings) => Objects \subseteq schema

\* Once the audit table refuses updates and deletes it does so in every state a
\* client of the database can see, although each start drops and makes the trigger
\* again while other servers are serving.
StaysAppendOnly == [][(Guard \in schema) => (Guard \in schema')]_schema

\* A server that reports success to its supervisor has answered every request it
\* took, however the signal, its clients and the timeout came together.
ExitZeroMeansAnswered == \A p \in Servers : exit[p] = "0" => dropped[p] = 0

\* A server that has been started serves or ends, also when two of them migrate at
\* the same time and wait for each other's transactions; one that has been told to
\* stop ends although a client never finishes.
StartAndStopEnd == \A p \in Servers :
  /\ stage[p] = "migrate" ~> stage[p] # "migrate"
  /\ stage[p] = "shutdown" ~> stage[p] # "shutdown"
=============================================================================
