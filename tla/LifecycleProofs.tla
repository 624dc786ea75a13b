-------------------------- MODULE LifecycleProofs --------------------------
(* Theorems about Lifecycle for any servers, settings and keys: whatever      *)
(* starts, fails or is killed beside it, the audit table stays append-only, a *)
(* server that migrates serves the whole schema, and one that reports success *)
(* has answered its requests.                                                 *)
EXTENDS Lifecycle, TLAPS

Object(f, i) == Migrations[f][i].object

(* What holds of the transactions in which the files are applied.             *)

\* A server is within the file it applies, or past the last one.
WithinFile == \A p \in Servers :
  IF file[p] > Len(Migrations) THEN statement[p] = 1
  ELSE statement[p] <= Len(Migrations[file[p]]) + 1

\* The files before the current one are committed.
FilesInOrder == \A p \in Servers : \A f \in 1..(file[p] - 1) :
  \A i \in DOMAIN Migrations[f] : Object(f, i) \in schema

\* Between the statement that drops the trigger and the one that makes it again.
Unguarded(p) == file[p] = 5 /\ statement[p] = 3

\* To its own transaction, what the statements of a file were to make is there.
FileUnderWay == \A p \in Servers : file[p] \in DOMAIN Migrations =>
  \A i \in 1..(statement[p] - 1) :
    Visible(p, Object(file[p], i)) \/ (Unguarded(p) /\ Object(file[p], i) = Guard)

\* An open transaction hides an object of the schema only then, and only the trigger.
OnlyGuardIsHidden == \A p \in Servers : \A x \in touched[p] \ draft[p] :
  Unguarded(p) /\ x = Guard

MigrationInv == WithinFile /\ FilesInOrder /\ FileUnderWay /\ OnlyGuardIsHidden

(* What holds of the servers.                                                 *)

\* A server that was told to migrate listens after the last file.
MigratedBeforeServing == \A p \in Servers :
  Running(p) /\ ShouldAutoMigrate(config[p].settings) => file[p] > Len(Migrations)

ServerInv == MigratedBeforeServing /\ ExitZeroMeansAnswered

IInv == TypeOK /\ MigrationInv /\ ServerInv

-----------------------------------------------------------------------------
(* The five files.                                                            *)

LEMMA Texts ==
  /\ Migrations[1] = <<Create("agent_addr_records"), Create("agent_addr_history"),
                       Create("agent_addr_history_agent_hash_idx")>>
  /\ Migrations[2] = <<Create("audit_events"), Create("audit_events_agent_id_idx")>>
  /\ Migrations[3] = <<Create("credential_revocations")>>
  /\ Migrations[4] = <<Create("facts_pointers")>>
  /\ Migrations[5] = <<[op |-> "replace", object |-> "prevent_audit_events_mutation"],
                       [op |-> "drop", object |-> Guard], Create(Guard)>>
BY DEF Migrations, Guard, AgentAddrIndexFile, AuditEventsFile, CredentialRevocationsFile,
       FactsPointersFile, AppendOnlyFile

LEMMA Files ==
  /\ Len(Migrations) = 5
  /\ DOMAIN Migrations = 1..5
  /\ \A f \in 1..5 : /\ Len(Migrations[f]) \in 1..3
                     /\ DOMAIN Migrations[f] = 1..Len(Migrations[f])
  /\ Len(Migrations[5]) = 3
BY DEF Migrations, Create, AgentAddrIndexFile, AuditEventsFile, CredentialRevocationsFile,
       FactsPointersFile, AppendOnlyFile

\* Only the trigger is ever dropped, and the next statement makes it again.
LEMMA OnlyGuardIsDropped ==
  ASSUME NEW f \in 1..5, NEW i \in DOMAIN Migrations[f]
  PROVE  /\ Migrations[f][i].op \in {"create", "replace", "drop"}
         /\ Migrations[f][i].op = "drop" => f = 5 /\ i = 2 /\ Object(f, i) = Guard
         /\ f = 5 /\ i = 3 => Migrations[f][i].op # "drop" /\ Object(f, i) = Guard
<1>1. CASE f \in 1..4
  <2>1. Migrations[f][i].op = "create"
    <3>1. CASE f = 1
      BY <3>1, Texts DEF Create
    <3>2. CASE f = 2
      BY <3>2, Texts DEF Create
    <3>3. CASE f = 3
      BY <3>3, Texts DEF Create
    <3>4. CASE f = 4
      BY <3>4, Texts DEF Create
    <3> QED BY <1>1, <3>1, <3>2, <3>3, <3>4
  <2> QED BY <1>1, <2>1
<1>2. CASE f = 5
  <2>1. i \in {1, 2, 3}
    BY <1>2, Files
  <2>2. CASE i = 1
    BY <1>2, <2>2, Texts
  <2>3. CASE i = 2
    BY <1>2, <2>3, Texts DEF Object
  <2>4. CASE i = 3
    BY <1>2, <2>4, Texts DEF Object, Create
  <2> QED BY <2>1, <2>2, <2>3, <2>4
<1> QED BY <1>1, <1>2

\* Every object of the schema is named by a statement of a file.
LEMMA ObjectsOfFiles ==
  ASSUME NEW x \in Objects
  PROVE  \E f \in 1..5 : \E i \in DOMAIN Migrations[f] : x = Object(f, i)
BY Files DEF Objects, Statements, Object

-----------------------------------------------------------------------------
(* The invariant of the migrations.                                           *)

\* The step of one server on its own transaction leaves the others' alone.
OthersUnchanged(p) == \A q \in Servers \ {p} :
  /\ file'[q] = file[q]
  /\ statement'[q] = statement[q]
  /\ touched'[q] = touched[q]
  /\ draft'[q] = draft[q]

\* What a server sees or has committed stays when the schema only grows.
LEMMA OthersKeep ==
  ASSUME TypeOK, MigrationInv, NEW p \in Servers, OthersUnchanged(p), schema \subseteq schema',
         NEW q \in Servers \ {p}
  PROVE  /\ file'[q] = file[q] /\ statement'[q] = statement[q]
         /\ \A f \in 1..(file'[q] - 1) : \A i \in DOMAIN Migrations[f] : Object(f, i) \in schema'
         /\ file'[q] \in DOMAIN Migrations => \A i \in 1..(statement'[q] - 1) : \A x :
              x = Object(file'[q], i) =>
                Visible(q, x)' \/ (file'[q] = 5 /\ statement'[q] = 3 /\ x = Guard)
         /\ \A x \in touched'[q] \ draft'[q] : file'[q] = 5 /\ statement'[q] = 3 /\ x = Guard
<1>1. /\ file'[q] = file[q] /\ statement'[q] = statement[q]
      /\ touched'[q] = touched[q] /\ draft'[q] = draft[q]
  BY DEF OthersUnchanged
<1>2. \A f \in 1..(file[q] - 1) : \A i \in DOMAIN Migrations[f] : Object(f, i) \in schema'
  BY DEF MigrationInv, FilesInOrder
<1>3. \A x : Visible(q, x) => Visible(q, x)'
  BY <1>1 DEF Visible
<1>4. \A x \in touched[q] \ draft[q] : file[q] = 5 /\ statement[q] = 3 /\ x = Guard
  BY DEF MigrationInv, OnlyGuardIsHidden, Unguarded
<1>5. file[q] \in DOMAIN Migrations => \A i \in 1..(statement[q] - 1) : \A x :
        x = Object(file[q], i) =>
          Visible(q, x)' \/ (file[q] = 5 /\ statement[q] = 3 /\ x = Guard)
  BY <1>3 DEF MigrationInv, FileUnderWay, Unguarded
<1> QED BY <1>1, <1>2, <1>4, <1>5

\* So it is enough to look at the server that takes the step.
LEMMA OwnStep ==
  ASSUME TypeOK, MigrationInv, NEW p \in Servers, OthersUnchanged(p), schema \subseteq schema',
         IF file'[p] > Len(Migrations) THEN statement'[p] = 1
         ELSE statement'[p] <= Len(Migrations[file'[p]]) + 1,
         \A f \in 1..(file'[p] - 1) : \A i \in DOMAIN Migrations[f] : Object(f, i) \in schema',
         file'[p] \in DOMAIN Migrations => \A i \in 1..(statement'[p] - 1) : \A x :
           x = Object(file'[p], i) =>
             Visible(p, x)' \/ (file'[p] = 5 /\ statement'[p] = 3 /\ x = Guard),
         \A x \in touched'[p] \ draft'[p] : file'[p] = 5 /\ statement'[p] = 3 /\ x = Guard
  PROVE  MigrationInv'
<1>1. WithinFile'
  BY OthersKeep DEF MigrationInv, WithinFile
<1>2. FilesInOrder'
  BY OthersKeep DEF FilesInOrder
<1>3. FileUnderWay'
  BY OthersKeep DEF FileUnderWay, Unguarded
<1>4. OnlyGuardIsHidden'
  BY OthersKeep DEF OnlyGuardIsHidden, Unguarded
<1> QED BY <1>1, <1>2, <1>3, <1>4 DEF MigrationInv

\* A process that ends gives up its transaction.
LEMMA EndMigration ==
  ASSUME TypeOK, MigrationInv, NEW p \in Servers, NEW code, End(p, code)
  PROVE  MigrationInv' /\ schema' = schema
<1>1. schema' = schema /\ OthersUnchanged(p)
  BY DEF End, OthersUnchanged, TypeOK
<1>2. file'[p] = 1 /\ statement'[p] = 1 /\ touched'[p] = {} /\ draft'[p] = {}
  BY DEF End, TypeOK
<1>3. ~(1 > Len(Migrations)) /\ 1 <= Len(Migrations[1]) + 1
  BY Files
<1> QED BY <1>1, <1>2, <1>3, OwnStep

\* A statement runs in its transaction; the drop hides the trigger, and the next
\* statement makes it again.
LEMMA ApplyMigration ==
  ASSUME TypeOK, MigrationInv, NEW p \in Servers, ApplyStatement(p)
  PROVE  MigrationInv' /\ schema' = schema
<1>0. PICK f, n : f = file[p] /\ n = statement[p]
  OBVIOUS
<1> DEFINE x == Object(f, n)
           op == Migrations[f][n].op
<1>1. f \in 1..5 /\ n \in DOMAIN Migrations[f] /\ n \in 1..Len(Migrations[f]) /\ n \in 1..3
  <2>1. f \in DOMAIN Migrations /\ n \in DOMAIN Migrations[f]
    BY <1>0 DEF ApplyStatement, Runnable
  <2> QED BY <2>1, Files
<1>2. /\ schema' = schema /\ file'[p] = f /\ statement'[p] = n + 1
      /\ OthersUnchanged(p)
  BY <1>0 DEF ApplyStatement, RunStatement, OthersUnchanged, TypeOK
<1>3. /\ touched'[p] = IF op = "create" /\ Visible(p, x) THEN touched[p] ELSE touched[p] \cup {x}
      /\ draft'[p] = CASE op = "drop" -> draft[p] \ {x}
                       [] op = "create" /\ Visible(p, x) -> draft[p]
                       [] OTHER -> draft[p] \cup {x}
  BY <1>0 DEF ApplyStatement, RunStatement, Current, Object, TypeOK
<1>4. /\ op \in {"create", "replace", "drop"}
      /\ op = "drop" => f = 5 /\ n = 2 /\ x = Guard
      /\ f = 5 /\ n = 3 => op # "drop" /\ x = Guard
  BY <1>1, OnlyGuardIsDropped
<1> HIDE DEF x, op
<1>5. op # "drop" => Visible(p, x)'
  BY <1>2, <1>3 DEF Visible
<1>6. ASSUME NEW y, y # x PROVE Visible(p, y)' <=> Visible(p, y)
  BY <1>2, <1>3, <1>6 DEF Visible
<1>7. \A i \in 1..(n - 1) : Visible(p, Object(f, i)) \/ (f = 5 /\ n = 3 /\ Object(f, i) = Guard)
  BY <1>0, <1>1, Files DEF MigrationInv, FileUnderWay, Unguarded
<1>8. \A i \in 1..n : \A y : y = Object(f, i) => Visible(p, y)' \/ (f = 5 /\ n + 1 = 3 /\ y = Guard)
  <2> SUFFICES ASSUME NEW i \in 1..n, NEW y, y = Object(f, i), ~Visible(p, y)'
               PROVE  f = 5 /\ n + 1 = 3 /\ y = Guard
    OBVIOUS
  <2>1. CASE y = x
    BY <2>1, <1>1, <1>4, <1>5
  <2>2. CASE y # x
    <3>1. i # n /\ i \in 1..(n - 1)
      BY <2>2, <1>1 DEF x
    <3>2. ~Visible(p, y)
      BY <2>2, <1>6
    <3>3. f = 5 /\ n = 3 /\ y = Guard
      BY <3>1, <3>2, <1>7
    <3> QED BY <3>3, <2>2, <1>4
  <2> QED BY <2>1, <2>2
<1>9. \A y \in touched'[p] \ draft'[p] : f = 5 /\ n + 1 = 3 /\ y = Guard
  <2> SUFFICES ASSUME NEW y \in touched'[p] \ draft'[p]
               PROVE  f = 5 /\ n + 1 = 3 /\ y = Guard
    OBVIOUS
  <2>1. ~Visible(p, y)'
    BY DEF Visible
  <2>2. CASE y = x
    BY <2>1, <2>2, <1>1, <1>4, <1>5
  <2>3. CASE y # x
    <3>1. y \in touched[p] \ draft[p]
      BY <2>3, <1>3
    <3>2. f = 5 /\ n = 3 /\ y = Guard
      BY <3>1, <1>0 DEF MigrationInv, OnlyGuardIsHidden, Unguarded
    <3> QED BY <3>2, <2>3, <1>4
  <2> QED BY <2>2, <2>3
<1>10. ~(f > Len(Migrations)) /\ n + 1 <= Len(Migrations[f]) + 1
  BY <1>1, Files
<1>11. \A g \in 1..(f - 1) : \A i \in DOMAIN Migrations[g] : Object(g, i) \in schema'
  BY <1>0, <1>2 DEF MigrationInv, FilesInOrder
<1>12. (n + 1) - 1 = n
  BY <1>1
<1> QED BY <1>2, <1>8, <1>9, <1>10, <1>11, <1>12, OwnStep

\* A file takes effect as a whole, and by then nothing is hidden.
LEMMA CommitMigration ==
  ASSUME TypeOK, MigrationInv, NEW p \in Servers, CommitFile(p)
  PROVE  MigrationInv' /\ schema \subseteq schema'
<1>0. PICK f, n : f = file[p] /\ n = statement[p]
  OBVIOUS
<1>1. f \in 1..5 /\ n \in Nat /\ n = Len(Migrations[f]) + 1 /\ DOMAIN Migrations[f] = 1..(n - 1)
  <2>1. f \in 1..5 /\ n > Len(Migrations[f]) /\ n \in Nat
    <3>1. f \in DOMAIN Migrations /\ n > Len(Migrations[f])
      BY <1>0 DEF CommitFile, FileApplied
    <3>2. n \in 1..4
      BY <1>0 DEF TypeOK
    <3> QED BY <3>1, <3>2, Files
  <2>2. n <= Len(Migrations[f]) + 1
    BY <1>0, <2>1, Files DEF MigrationInv, WithinFile
  <2> QED BY <2>1, <2>2, Files
<1>2. ~(f = 5 /\ n = 3)
  <2> SUFFICES ASSUME f = 5, n = 3 PROVE FALSE
    OBVIOUS
  <2>1. Len(Migrations[5]) = 3
    BY Files
  <2>2. 3 = Len(Migrations[5]) + 1
    BY <1>1
  <2> QED BY <2>1, <2>2
<1>3. touched[p] \subseteq draft[p]
  BY <1>0, <1>2 DEF MigrationInv, OnlyGuardIsHidden, Unguarded
<1>4. /\ schema' = (schema \ touched[p]) \cup draft[p]
      /\ file'[p] = f + 1 /\ statement'[p] = 1 /\ touched'[p] = {} /\ draft'[p] = {}
      /\ OthersUnchanged(p)
  BY <1>0 DEF CommitFile, OthersUnchanged, TypeOK
<1>5. schema \subseteq schema'
  BY <1>3, <1>4
<1>6. \A i \in DOMAIN Migrations[f] : Object(f, i) \in schema'
  <2> SUFFICES ASSUME NEW i \in 1..(n - 1) PROVE Object(f, i) \in schema'
    BY <1>1
  <2>1. Visible(p, Object(f, i))
    BY <1>0, <1>1, <1>2, Files DEF MigrationInv, FileUnderWay, Unguarded
  <2> QED BY <2>1, <1>4 DEF Visible
<1>7. \A g \in 1..(f - 1) : \A i \in DOMAIN Migrations[g] : Object(g, i) \in schema'
  BY <1>0, <1>5 DEF MigrationInv, FilesInOrder
<1>8. \A g \in 1..((f + 1) - 1) : \A i \in DOMAIN Migrations[g] : Object(g, i) \in schema'
  BY <1>1, <1>6, <1>7
<1>9. IF f + 1 > Len(Migrations) THEN TRUE ELSE 1 <= Len(Migrations[f + 1]) + 1
  BY <1>1, Files
<1> QED BY <1>4, <1>5, <1>8, <1>9, OwnStep

\* Every other step leaves the migrations alone.
LEMMA MigrationStep ==
  ASSUME TypeOK, MigrationInv, [Next]_vars
  PROVE  MigrationInv' /\ schema \subseteq schema'
<1>1. CASE UNCHANGED migrationVars
  BY <1>1 DEF migrationVars, MigrationInv, WithinFile, FilesInOrder, FileUnderWay,
              OnlyGuardIsHidden, Unguarded, Visible
<1>2. ASSUME NEW p \in Servers, NEW code, End(p, code)
      PROVE  MigrationInv' /\ schema \subseteq schema'
  BY <1>2, EndMigration
<1>3. ASSUME NEW p \in Servers, NEW s \in Settings, NEW fresh \in FreshKeys, Start(p, s, fresh)
      PROVE  MigrationInv' /\ schema \subseteq schema'
  BY <1>1, <1>2, <1>3 DEF Start
<1>4. ASSUME NEW p \in Servers, StartUp(p)
      PROVE  MigrationInv' /\ schema \subseteq schema'
  <2>1. CASE ApplyStatement(p)
    BY <2>1, ApplyMigration
  <2>2. CASE CommitFile(p)
    BY <2>2, CommitMigration
  <2>3. CASE Ping(p) \/ FinishMigrations(p)
    BY <1>1, <2>3 DEF Ping, FinishMigrations
  <2> QED BY <1>4, <2>1, <2>2, <2>3 DEF StartUp
<1>5. ASSUME NEW p \in Servers,
             FailStart(p) \/ FailListen(p) \/ ShutDown(p) \/ Kill(p)
      PROVE  MigrationInv' /\ schema \subseteq schema'
  BY <1>2, <1>5 DEF FailStart, FailListen, ShutDown, ShutdownReturns, ShutdownTimesOut, Kill
<1>6. ASSUME NEW p \in Servers,
             Connect(p) \/ Receive(p) \/ Answer(p) \/ Disconnect(p) \/ Signal(p)
      PROVE  MigrationInv' /\ schema \subseteq schema'
  BY <1>1, <1>6 DEF Connect, Receive, Answer, Disconnect, Signal
<1>7. CASE UNCHANGED vars
  BY <1>1, <1>7 DEF vars
<1> QED BY <1>3, <1>4, <1>5, <1>6, <1>7 DEF Next

-----------------------------------------------------------------------------
(* Types, and the invariant of the servers.                                   *)

MigrationTypes ==
  /\ schema \subseteq Objects
  /\ file \in [Servers -> 1..(Len(Migrations) + 1)]
  /\ statement \in [Servers -> 1..4]
  /\ touched \in [Servers -> SUBSET Objects]
  /\ draft \in [Servers -> SUBSET Objects]
  /\ \A p \in Servers :
       /\ draft[p] \subseteq touched[p]
       /\ touched[p] \subseteq {Migrations[file[p]][i].object : i \in 1..(statement[p] - 1)}

Keys == PrivateKeys \cup FreshKeys
Configs == {NoConfig} \cup [settings : Settings, key : Keys]

ServerTypes ==
  /\ starts \in 0..MaxStarts
  /\ stage \in [Servers -> {"down", "ping", "migrate", "serve", "shutdown"}]
  /\ config \in [Servers -> Configs]
  /\ waiting \in [Servers -> 0..MaxOpen]
  /\ open \in [Servers -> 0..MaxOpen]
  /\ \A p \in Servers : waiting[p] + open[p] <= MaxOpen
  /\ exit \in [Servers -> {"none", "0", "1", "killed"}]
  /\ dropped \in [Servers -> 0..MaxOpen]

LEMMA TypeParts ==
  /\ TypeOK <=> MigrationTypes /\ ServerTypes
  /\ TypeOK' <=> MigrationTypes' /\ ServerTypes'
BY DEF TypeOK, MigrationTypes, ServerTypes, Configs, Keys

\* A transaction that a step leaves alone has still touched what its statements are about.
LEMMA StillTouched ==
  ASSUME MigrationTypes, NEW q \in Servers, touched'[q] = touched[q], draft'[q] = draft[q],
         file'[q] = file[q], statement'[q] = statement[q]
  PROVE  /\ draft'[q] \subseteq touched'[q]
         /\ touched'[q] \subseteq {Migrations[file'[q]][i].object : i \in 1..(statement'[q] - 1)}
<1>1. /\ draft[q] \subseteq touched[q]
      /\ touched[q] \subseteq {Migrations[file[q]][i].object : i \in 1..(statement[q] - 1)}
  BY DEF MigrationTypes
<1> QED BY <1>1

LEMMA MigrationTypesStep ==
  ASSUME MigrationTypes, [Next]_vars
  PROVE  MigrationTypes'
<1>1. CASE UNCHANGED migrationVars
  BY <1>1 DEF migrationVars, MigrationTypes
<1>2. ASSUME NEW p \in Servers, NEW code, End(p, code)
      PROVE  MigrationTypes'
  <2>1. 1 \in 1..(Len(Migrations) + 1) /\ 1 \in 1..4
    BY Files
  <2>2. /\ schema' \subseteq Objects
        /\ file' \in [Servers -> 1..(Len(Migrations) + 1)]
        /\ statement' \in [Servers -> 1..4]
    BY <1>2, <2>1 DEF End, MigrationTypes
  <2>3. /\ touched' \in [Servers -> SUBSET Objects]
        /\ draft' \in [Servers -> SUBSET Objects]
    BY <1>2 DEF End, MigrationTypes
  <2>4. draft'[p] = {} /\ touched'[p] = {}
    BY <1>2 DEF End, MigrationTypes
  <2>5. \A q \in Servers \ {p} :
          /\ touched'[q] = touched[q] /\ draft'[q] = draft[q]
          /\ file'[q] = file[q] /\ statement'[q] = statement[q]
    BY <1>2 DEF End, MigrationTypes
  <2>6. \A q \in Servers :
          /\ draft'[q] \subseteq touched'[q]
          /\ touched'[q] \subseteq {Migrations[file'[q]][i].object : i \in 1..(statement'[q] - 1)}
    BY <2>4, <2>5, StillTouched
  <2> QED BY <2>2, <2>3, <2>6 DEF MigrationTypes
<1>3. ASSUME NEW p \in Servers, ApplyStatement(p)
      PROVE  MigrationTypes'
  <2>0. PICK f, n : f = file[p] /\ n = statement[p]
    OBVIOUS
  <2> DEFINE x == Object(f, n)
  <2>1. f \in 1..5 /\ n \in 1..3 /\ n \in DOMAIN Migrations[f]
    BY <1>3, <2>0, Files DEF ApplyStatement, Runnable, MigrationTypes
  <2>2. x \in Objects
    BY <2>1, Files DEF Objects, Statements, Object
  <2>3. x = Current(p).object
    BY <2>0 DEF Current, Object
  <2> HIDE DEF x
  <2>4. /\ touched' \in [Servers -> SUBSET Objects]
        /\ draft' \in [Servers -> SUBSET Objects]
        /\ draft'[p] \subseteq touched'[p]
        /\ touched'[p] \subseteq touched[p] \cup {x}
    BY <1>3, <2>2, <2>3 DEF ApplyStatement, RunStatement, Visible, MigrationTypes
  <2>5. /\ statement' = [statement EXCEPT ![p] = n + 1] /\ file' = file /\ schema' = schema
        /\ \A q \in Servers \ {p} : touched'[q] = touched[q] /\ draft'[q] = draft[q]
    BY <1>3, <2>0 DEF ApplyStatement, RunStatement, MigrationTypes
  <2>6. touched'[p] \subseteq {Migrations[file'[p]][i].object : i \in 1..(statement'[p] - 1)}
    <3>1. touched[p] \subseteq {Object(f, i) : i \in 1..(n - 1)}
      BY <2>0 DEF MigrationTypes, Object
    <3>2. file'[p] = f /\ statement'[p] = n + 1 /\ (n + 1) - 1 = n
      BY <2>0, <2>1, <2>5 DEF MigrationTypes
    <3>3. \A i \in 1..(n - 1) : i \in 1..n
      BY <2>1
    <3>4. n \in 1..n
      BY <2>1
    <3>5. touched'[p] \subseteq {Object(f, i) : i \in 1..n}
      BY <2>4, <3>1, <3>3, <3>4 DEF x
    <3> QED BY <3>2, <3>5 DEF Object
  <2>7. \A q \in Servers \ {p} :
          /\ draft'[q] \subseteq touched'[q]
          /\ touched'[q] \subseteq {Migrations[file'[q]][i].object : i \in 1..(statement'[q] - 1)}
    <3>1. \A q \in Servers \ {p} : file'[q] = file[q] /\ statement'[q] = statement[q]
      BY <2>5 DEF MigrationTypes
    <3> QED BY <2>5, <3>1, StillTouched
  <2>8. statement' \in [Servers -> 1..4]
    BY <2>1, <2>5 DEF MigrationTypes
  <2>9. schema' \subseteq Objects /\ file' \in [Servers -> 1..(Len(Migrations) + 1)]
    BY <2>5 DEF MigrationTypes
  <2>10. \A q \in Servers :
           /\ draft'[q] \subseteq touched'[q]
           /\ touched'[q] \subseteq {Migrations[file'[q]][i].object : i \in 1..(statement'[q] - 1)}
    BY <2>4, <2>6, <2>7
  <2> QED BY <2>4, <2>8, <2>9, <2>10 DEF MigrationTypes
<1>4. ASSUME NEW p \in Servers, CommitFile(p)
      PROVE  MigrationTypes'
  <2>1. file[p] \in 1..5 /\ file' = [file EXCEPT ![p] = @ + 1]
    BY <1>4, Files DEF CommitFile, FileApplied, MigrationTypes
  <2>2. file' \in [Servers -> 1..(Len(Migrations) + 1)]
    BY <2>1, Files DEF MigrationTypes
  <2>3. schema' \subseteq Objects
    BY <1>4 DEF CommitFile, MigrationTypes
  <2>4. /\ statement' \in [Servers -> 1..4]
        /\ touched' \in [Servers -> SUBSET Objects]
        /\ draft' \in [Servers -> SUBSET Objects]
    BY <1>4 DEF CommitFile, MigrationTypes
  <2>5. touched'[p] = {} /\ draft'[p] = {}
    BY <1>4 DEF CommitFile, MigrationTypes
  <2>6. \A q \in Servers \ {p} :
          /\ touched'[q] = touched[q] /\ draft'[q] = draft[q]
          /\ file'[q] = file[q] /\ statement'[q] = statement[q]
    BY <1>4 DEF CommitFile, MigrationTypes
  <2>7. \A q \in Servers :
          /\ draft'[q] \subseteq touched'[q]
          /\ touched'[q] \subseteq {Migrations[file'[q]][i].object : i \in 1..(statement'[q] - 1)}
    BY <2>5, <2>6, StillTouched
  <2> QED BY <2>2, <2>3, <2>4, <2>7 DEF MigrationTypes
<1>5. ASSUME NEW p \in Servers, NEW s \in Settings, NEW fresh \in FreshKeys, Start(p, s, fresh)
      PROVE  MigrationTypes'
  BY <1>1, <1>2, <1>5 DEF Start
<1>6. ASSUME NEW p \in Servers,
             \/ Ping(p) \/ FinishMigrations(p) \/ Signal(p)
             \/ Connect(p) \/ Receive(p) \/ Answer(p) \/ Disconnect(p)
      PROVE  MigrationTypes'
  BY <1>1, <1>6 DEF Ping, FinishMigrations, Signal, Connect, Receive, Answer, Disconnect
<1>7. ASSUME NEW p \in Servers, FailStart(p) \/ FailListen(p) \/ ShutDown(p) \/ Kill(p)
      PROVE  MigrationTypes'
  BY <1>2, <1>7 DEF FailStart, FailListen, ShutDown, ShutdownReturns, ShutdownTimesOut, Kill
<1>8. CASE UNCHANGED vars
  BY <1>1, <1>8 DEF vars
<1> QED BY <1>3, <1>4, <1>5, <1>6, <1>7, <1>8 DEF Next, StartUp

\* The key of a process that has been started.
LEMMA KeyLoaded ==
  ASSUME NEW s \in Settings, NEW fresh \in FreshKeys, LoadLocal(s, fresh)
  PROVE  LoadPrivateKey(s, fresh) \in Keys
BY DEF LoadLocal, LoadPrivateKey, Keys

\* The invariant of the servers, one server at a time.
ServerOK(p) ==
  /\ Running(p) /\ ShouldAutoMigrate(config[p].settings) => file[p] > Len(Migrations)
  /\ exit[p] = "0" => dropped[p] = 0

LEMMA ServerParts ==
  /\ ServerInv <=> \A p \in Servers : ServerOK(p)
  /\ ServerInv' <=> \A p \in Servers : ServerOK(p)'
BY DEF ServerInv, ServerOK, MigratedBeforeServing, ExitZeroMeansAnswered

\* Connections and requests come and go, within the bound.
LEMMA ConnectionStep ==
  ASSUME ServerTypes, NEW p \in Servers,
         Connect(p) \/ Receive(p) \/ Answer(p) \/ Disconnect(p)
  PROVE  ServerTypes' /\ UNCHANGED <<starts, stage, config, file, exit, dropped>>
<1>1. UNCHANGED <<starts, stage, config, file, exit, dropped>>
  BY DEF Connect, Receive, Answer, Disconnect, migrationVars
<1>2. PICK w \in 0..MaxOpen, o \in 0..MaxOpen :
        /\ w + o <= MaxOpen
        /\ waiting' = [waiting EXCEPT ![p] = w] /\ open' = [open EXCEPT ![p] = o]
  <2> DEFINE w0 == waiting[p]  o0 == open[p]
  <2>1. w0 \in 0..MaxOpen /\ o0 \in 0..MaxOpen /\ w0 + o0 <= MaxOpen /\ MaxOpen \in Nat
    BY BoundsAssumption DEF ServerTypes
  <2>2. waiting = [waiting EXCEPT ![p] = w0] /\ open = [open EXCEPT ![p] = o0]
    BY DEF ServerTypes
  <2>3. \/ /\ w0 + o0 < MaxOpen
           /\ waiting' = [waiting EXCEPT ![p] = w0 + 1] /\ open' = open
        \/ /\ w0 > 0
           /\ waiting' = [waiting EXCEPT ![p] = w0 - 1] /\ open' = [open EXCEPT ![p] = o0 + 1]
        \/ /\ o0 > 0
           /\ waiting' = [waiting EXCEPT ![p] = w0 + 1] /\ open' = [open EXCEPT ![p] = o0 - 1]
        \/ o0 > 0 /\ waiting' = waiting /\ open' = [open EXCEPT ![p] = o0 - 1]
        \/ w0 > 0 /\ waiting' = [waiting EXCEPT ![p] = w0 - 1] /\ open' = open
    BY DEF Connect, Receive, Answer, Disconnect
  <2> HIDE DEF w0, o0
  <2> QED BY <2>1, <2>2, <2>3
<1>3. waiting' \in [Servers -> 0..MaxOpen] /\ open' \in [Servers -> 0..MaxOpen]
  BY <1>2 DEF ServerTypes
<1>4. \A q \in Servers : waiting'[q] + open'[q] <= MaxOpen
  BY <1>2 DEF ServerTypes
<1> QED BY <1>1, <1>3, <1>4 DEF ServerTypes

LEMMA ServerStep ==
  ASSUME MigrationTypes, ServerTypes, ServerInv, [Next]_vars
  PROVE  ServerTypes' /\ ServerInv'
<1> USE ServerParts
<1> DEFINE Others(p) == \A q \in Servers \ {p} :
             /\ stage'[q] = stage[q] /\ config'[q] = config[q] /\ file'[q] = file[q]
             /\ exit'[q] = exit[q] /\ dropped'[q] = dropped[q]
<1>1. ASSUME NEW p \in Servers, Others(p), ServerOK(p)'
      PROVE  ServerInv'
  <2>1. ASSUME NEW q \in Servers \ {p} PROVE ServerOK(q)'
    <3>1. ServerOK(q)
      OBVIOUS
    <3> QED BY <1>1, <3>1 DEF ServerOK, Running
  <2> QED BY <1>1, <2>1
<1>2. ASSUME NEW p \in Servers, NEW code \in {"0", "1", "killed"}, End(p, code),
             starts' \in 0..MaxStarts, code = "0" => open[p] = 0
      PROVE  ServerTypes' /\ ServerInv'
  <2>1. ServerTypes'
    <3>1. /\ waiting' = [waiting EXCEPT ![p] = 0] /\ open' = [open EXCEPT ![p] = 0]
          /\ waiting' \in [Servers -> 0..MaxOpen] /\ open' \in [Servers -> 0..MaxOpen]
      BY <1>2, BoundsAssumption DEF End, ServerTypes
    <3>2. \A q \in Servers : waiting'[q] + open'[q] <= MaxOpen
      BY <3>1, BoundsAssumption DEF ServerTypes
    <3>3. /\ stage' \in [Servers -> {"down", "ping", "migrate", "serve", "shutdown"}]
          /\ config' \in [Servers -> Configs]
          /\ exit' \in [Servers -> {"none", "0", "1", "killed"}]
          /\ dropped' \in [Servers -> 0..MaxOpen]
      BY <1>2 DEF End, Goto, ServerTypes, Configs
    <3> QED BY <1>2, <3>1, <3>2, <3>3 DEF ServerTypes
  <2>2. Others(p)
    BY <1>2 DEF End, Goto, ServerTypes, MigrationTypes
  <2>3. stage'[p] = "down" /\ exit'[p] = code /\ dropped'[p] = open[p]
    BY <1>2 DEF End, Goto, ServerTypes
  <2>4. ServerOK(p)'
    BY <1>2, <2>3 DEF ServerOK, Running
  <2> QED BY <1>1, <2>1, <2>2, <2>4
<1>3. ASSUME NEW p \in Servers, NEW s \in Settings, NEW fresh \in FreshKeys, Start(p, s, fresh)
      PROVE  ServerTypes' /\ ServerInv'
  <2>1. starts' \in 0..MaxStarts
    BY <1>3, BoundsAssumption DEF Start, ServerTypes
  <2>2. CASE ~(LoadLocal(s, fresh) /\ ValidateRuntime(s))
    BY <1>2, <1>3, <2>1, <2>2 DEF Start
  <2>3. CASE LoadLocal(s, fresh) /\ ValidateRuntime(s)
    <3> DEFINE c == [settings |-> s, key |-> LoadPrivateKey(s, fresh)]
    <3>1. c \in [settings : Settings, key : Keys]
      BY <2>3, KeyLoaded
    <3>2. config' = [config EXCEPT ![p] = c]
      BY <1>3, <2>3 DEF Start
    <3> HIDE DEF c
    <3>3. /\ stage' = [stage EXCEPT ![p] = "ping"]
          /\ exit' = [exit EXCEPT ![p] = "none"]
          /\ dropped' = [dropped EXCEPT ![p] = 0]
          /\ UNCHANGED <<file, waiting, open>>
      BY <1>3, <2>3 DEF Start, Goto, migrationVars
    <3>4. ServerTypes'
      BY <2>1, <3>1, <3>2, <3>3, BoundsAssumption DEF ServerTypes, Configs
    <3>5. Others(p)
      BY <3>2, <3>3 DEF ServerTypes
    <3>6. stage'[p] = "ping" /\ exit'[p] = "none"
      BY <3>3 DEF ServerTypes
    <3>7. ServerOK(p)'
      BY <3>6 DEF ServerOK, Running
    <3> QED BY <1>1, <3>4, <3>5, <3>7
  <2> QED BY <2>2, <2>3
<1>4. ASSUME NEW p \in Servers, Ping(p)
      PROVE  ServerTypes' /\ ServerInv'
  <2>1. ServerTypes' /\ Others(p)
    BY <1>4 DEF Ping, Goto, ServerTypes, migrationVars
  <2>2. stage[p] = "ping" /\ UNCHANGED <<config, file, exit, dropped>>
        /\ stage'[p] = IF ShouldAutoMigrate(config[p].settings) THEN "migrate" ELSE "serve"
    BY <1>4 DEF Ping, Goto, ServerTypes, migrationVars
  <2>3. ServerOK(p)'
    BY <2>2 DEF ServerOK, Running, ServerTypes
  <2> QED BY <1>1, <2>1, <2>3
<1>5. ASSUME NEW p \in Servers, ApplyStatement(p) \/ CommitFile(p)
      PROVE  ServerTypes' /\ ServerInv'
  <2>1. UNCHANGED <<starts, stage, config, waiting, open, exit, dropped>> /\ stage[p] = "migrate"
    BY <1>5 DEF ApplyStatement, CommitFile, Runnable, FileApplied
  <2>2. ServerTypes' /\ Others(p)
    BY <1>5, <2>1 DEF ApplyStatement, CommitFile, ServerTypes, MigrationTypes
  <2>3. ServerOK(p)'
    BY <2>1 DEF ServerOK, Running
  <2> QED BY <1>1, <2>2, <2>3
<1>6. ASSUME NEW p \in Servers, FinishMigrations(p) \/ Signal(p)
      PROVE  ServerTypes' /\ ServerInv'
  <2>1. ServerTypes' /\ Others(p)
    BY <1>6 DEF FinishMigrations, Signal, Goto, ServerTypes, migrationVars
  <2>2. UNCHANGED <<config, file, exit, dropped>>
    BY <1>6 DEF FinishMigrations, Signal, migrationVars
  <2>3. \/ stage[p] = "migrate" /\ stage'[p] = "serve" /\ file[p] > Len(Migrations)
        \/ stage[p] = "serve" /\ stage'[p] = "shutdown"
    BY <1>6 DEF FinishMigrations, Signal, Goto, ServerTypes
  <2>4. ServerOK(p)'
    BY <2>2, <2>3 DEF ServerOK, Running
  <2> QED BY <1>1, <2>1, <2>4
<1>7. ASSUME NEW p \in Servers, Connect(p) \/ Receive(p) \/ Answer(p) \/ Disconnect(p)
      PROVE  ServerTypes' /\ ServerInv'
  <2>1. ServerTypes' /\ UNCHANGED <<starts, stage, config, file, exit, dropped>>
    BY <1>7, ConnectionStep
  <2>2. \A q \in Servers : ServerOK(q)'
    BY <2>1 DEF ServerOK, Running
  <2> QED BY <2>1, <2>2
<1>8. ASSUME NEW p \in Servers, FailStart(p) \/ FailListen(p) \/ ShutDown(p) \/ Kill(p)
      PROVE  ServerTypes' /\ ServerInv'
  BY <1>2, <1>8 DEF FailStart, FailListen, ShutDown, ShutdownReturns, ShutdownTimesOut, Kill, ServerTypes
<1>9. CASE UNCHANGED vars
  <2>1. ServerTypes'
    BY <1>9 DEF vars, migrationVars, ServerTypes
  <2>2. \A q \in Servers : ServerOK(q)'
    BY <1>9 DEF vars, migrationVars, ServerOK, Running
  <2> QED BY <2>1, <2>2
<1> QED BY <1>3, <1>4, <1>5, <1>6, <1>7, <1>8, <1>9 DEF Next, StartUp

-----------------------------------------------------------------------------
(* The theorems.                                                              *)

LEMMA IInvInit == Init => IInv
<1> SUFFICES ASSUME Init PROVE IInv
  OBVIOUS
<1>1. 1 \in 1..(Len(Migrations) + 1) /\ ~(1 > Len(Migrations)) /\ 1 <= Len(Migrations[1]) + 1
  BY Files
<1>2. MigrationTypes /\ ServerTypes
  BY <1>1, BoundsAssumption DEF Init, MigrationTypes, ServerTypes, Configs
<1>3. MigrationInv
  BY <1>1 DEF Init, MigrationInv, WithinFile, FilesInOrder, FileUnderWay, OnlyGuardIsHidden
<1>4. \A p \in Servers : ServerOK(p)
  BY DEF Init, ServerOK, Running
<1> QED BY <1>2, <1>3, <1>4, TypeParts, ServerParts DEF IInv

LEMMA IInvStep == IInv /\ [Next]_vars => IInv'
<1> SUFFICES ASSUME IInv, [Next]_vars PROVE IInv'
  OBVIOUS
<1>1. MigrationTypes /\ ServerTypes
  BY TypeParts DEF IInv
<1>2. MigrationTypes' /\ ServerTypes' /\ ServerInv'
  BY <1>1, MigrationTypesStep, ServerStep DEF IInv
<1>3. TypeOK'
  BY <1>2, TypeParts
<1>4. MigrationInv'
  BY MigrationStep DEF IInv
<1> QED BY <1>2, <1>3, <1>4 DEF IInv

LEMMA IInvInvariant == Spec => []IInv
  BY IInvInit, IInvStep, PTL DEF Spec

\* The servers, their transactions and the schema are well typed at any time.
THEOREM TypeCorrect == Spec => []TypeOK
<1>1. IInv => TypeOK
  BY DEF IInv
<1> QED BY <1>1, IInvInvariant, PTL

\* A server that migrates serves the whole schema, whatever others do beside it.
THEOREM ServesWholeSchemaAlways == Spec => []ServesWholeSchema
<1>1. IInv => ServesWholeSchema
  <2> SUFFICES ASSUME IInv, NEW p \in Servers, Running(p),
                      ShouldAutoMigrate(config[p].settings), NEW x \in Objects
               PROVE  x \in schema
    BY DEF ServesWholeSchema
  <2>1. file[p] > 5 /\ file[p] \in Int
    BY Files DEF IInv, ServerInv, MigratedBeforeServing, TypeOK
  <2>2. PICK f \in 1..5 : \E i \in DOMAIN Migrations[f] : x = Object(f, i)
    BY ObjectsOfFiles
  <2>3. f \in 1..(file[p] - 1)
    BY <2>1
  <2> QED BY <2>2, <2>3 DEF IInv, MigrationInv, FilesInOrder
<1> QED BY <1>1, IInvInvariant, PTL

\* No commit of any server takes the trigger that protects the audit log away.
THEOREM StaysAppendOnlyAlways == Spec => StaysAppendOnly
<1>1. IInv /\ [Next]_vars => [(Guard \in schema) => (Guard \in schema')]_schema
  BY MigrationStep DEF IInv
<1> QED BY <1>1, IInvInvariant, PTL DEF Spec, StaysAppendOnly

\* Success is reported only by servers that answered every request they took.
THEOREM ExitZeroMeansAnsweredAlways == Spec => []ExitZeroMeansAnswered
<1>1. IInv => ExitZeroMeansAnswered
  BY DEF IInv, ServerInv
<1> QED BY <1>1, IInvInvariant, PTL
============================================================================
