--------------------------- MODULE AuditLogProofs ---------------------------
(* AuditLog for any writers, readers, events and bounds: under the table lock *)
(* rows become visible in the order of their ids, each chained to the one     *)
(* before it.                                                                 *)
EXTENDS AuditLog, FiniteSetTheorems, TLAPS

Locked == {"build", "insert", "commit"}

\* A writer inside Append carries an input.
AppendsCarryInputs == \A w \in Writers : pc[w] # "idle" => input[w] \in Inputs

\* Who is past LOCK TABLE holds the lock, so at most one transaction is.
LockIsHeld == \A w \in Writers : pc[w] \in Locked <=> holder = w

\* Every row committed so far has an id below those still to be handed out, and
\* below the one the holder has inserted but not committed.
IdsAreFresh ==
  /\ \A i \in DOMAIN events : events[i].id < nextId
  /\ \A w \in Writers : pc[w] = "commit" =>
       /\ id[w] < nextId
       /\ \A i \in DOMAIN events : events[i].id < id[w]

\* The hash a new event must be chained to.
LastHash == IF events = << >> THEN NoHash ELSE events[Len(events)].eventHash

\* The event the holder has built continues the committed chain,
\* and its time is one that the table keeps as it is.
BuiltIsChained == \A w \in Writers : pc[w] \in {"insert", "commit"} =>
  /\ event[w] \in Events
  /\ Recorded(event[w].payload) = event[w].payload
  /\ event[w].previousHash = LastHash
  /\ event[w].eventHash = HashEvent(LastHash, event[w].payload)

\* The rows verify in the order of their commits, which IdsFollowCommits makes the
\* order of their ids.
ChainInCommitOrder == VerifyEvents(events)

IInv ==
  /\ WriterTypes
  /\ AppendsCarryInputs
  /\ LockIsHeld
  /\ IdsAreFresh
  /\ BuiltIsChained
  /\ IdsFollowCommits
  /\ ChainInCommitOrder

(* What holds of the lists that queries make of the rows.                     *)

Selected(f) == {e \in Table : Selects(f, e.payload)}

\* The number of selected rows with a smaller id.
Place(e, rows) == Cardinality({d \in rows : d.id < e.id})

\* Every place of a list is taken by a row.
Placed(rows) == /\ IsFiniteSet(rows)
                /\ \A i \in 1..Cardinality(rows) : \E e \in rows : Place(e, rows) = i - 1

\* In the list of all rows each is where its commit put it.
ListedByCommit ==
  /\ Cardinality(Table) = Len(events)
  /\ \A i \in DOMAIN events : Place(events[i], Table) = i - 1

\* A reader has read the beginning of what its queries select.
PagesAreBeginnings == \A r \in Readers :
  /\ Len(pages[r]) <= Len(Matching(filter[r]))
  /\ \A i \in 1..Len(pages[r]) : pages[r][i] = Matching(filter[r])[i]

ReadInv ==
  /\ filter \in [Readers -> Filters]
  /\ pages \in [Readers -> Seq(Rows)]
  /\ \A f \in Filters : Placed(Selected(f))
  /\ Placed(Table)
  /\ ListedByCommit
  /\ PagesAreBeginnings

-----------------------------------------------------------------------------
\* The ids of a table of rows are numbers, and its digests are digests.
LEMMA RowIds ==
  ASSUME events \in Seq(Rows), NEW i \in DOMAIN events
  PROVE  events[i].id \in Nat /\ events[i].eventHash \in Hashes
<1>1. events[i] \in Rows
  OBVIOUS
<1> QED BY <1>1 DEF Rows

\* With ids that follow the commits, the last hash by id is the last committed.
LEMMA LatestIsLast ==
  ASSUME events \in Seq(Rows), IdsFollowCommits
  PROVE  LatestHash(events) = LastHash
<1>1. CASE events = << >>
  BY <1>1 DEF LatestHash, LastHash
<1>2. CASE events # << >>
  <2>1. Len(events) \in DOMAIN events /\ \A i \in DOMAIN events : i <= Len(events) /\ i \in Nat
    BY <1>2
  <2>2. \A i \in DOMAIN events : events[i].id \in Nat
    BY RowIds
  <2>3. \A i \in DOMAIN events : events[i].id <= events[Len(events)].id
    BY <2>1, <2>2 DEF IdsFollowCommits
  <2> DEFINE newest(e) == \A i \in DOMAIN events : events[i].id <= e.id
             rows == {events[i] : i \in DOMAIN events}
             pick == CHOOSE e \in rows : newest(e)
  <2>4. \E e \in rows : newest(e)
    BY <2>1, <2>3
  <2>5. pick \in rows /\ newest(pick)
    BY <2>4
  <2>6. PICK k \in DOMAIN events : pick = events[k]
    BY <2>5
  <2>7. events[Len(events)].id <= events[k].id
    BY <2>1, <2>5, <2>6
  <2>8. k = Len(events)
    BY <2>1, <2>2, <2>7 DEF IdsFollowCommits
  <2>9. LatestHash(events) = pick.eventHash
    BY <1>2 DEF LatestHash
  <2> QED BY <1>2, <2>6, <2>8, <2>9 DEF LastHash
<1> QED BY <1>1, <1>2

\* A digest of a digest and a payload is a digest.
LEMMA HashType ==
  ASSUME NEW h \in Hashes, NEW p \in Payloads
  PROVE  HashEvent(h, p) \in Hashes
  BY DEF HashEvent, Hashes

LEMMA LastHashType == events \in Seq(Rows) => LastHash \in Hashes
<1> SUFFICES ASSUME events \in Seq(Rows) PROVE LastHash \in Hashes
  OBVIOUS
<1>1. CASE events = << >>
  BY <1>1 DEF LastHash, NoHash, Hashes
<1>2. CASE events # << >>
  <2>1. Len(events) \in DOMAIN events
    BY <1>2
  <2> QED BY <1>2, <2>1, RowIds DEF LastHash
<1> QED BY <1>1, <1>2

\* Ending a transaction, with or without a row appended, keeps the types.
LEMMA FinishTypes ==
  ASSUME WriterTypes, NEW w \in Writers, NEW answer \in {"ok", "invalid", "error"},
         Finish(w, answer)
  PROVE  /\ holder' \in Writers \cup {NoWriter}
         /\ nextId' \in Nat /\ calls' \in 0..MaxAppends
         /\ pc' \in [Writers -> {"idle", "lock", "build", "insert", "commit"}]
         /\ input' \in [Writers -> Inputs \cup {NoEvent}]
         /\ event' \in [Writers -> Events \cup {NoEvent}]
         /\ id' \in [Writers -> Nat]
         /\ result' \in [Writers -> {"none", "ok", "invalid", "error"}]
  BY DEF WriterTypes, Finish

\* A time that was cut to microseconds is kept as it is.
LEMMA TruncatedOnce ==
  ASSUME NEW t \in Times
  PROVE  Truncate(t) \in Nat /\ Truncate(Truncate(t)) = Truncate(t)
  BY TimesAssumption DEF Truncate

\* The event NewEvent builds is chained to the last committed row.
LEMMA BuiltEvent ==
  ASSUME IInv, NEW w \in Writers, NEW now \in Times, NewEvent(w, now)
  PROVE  /\ event'[w] \in Events
         /\ Recorded(event'[w].payload) = event'[w].payload
         /\ event'[w].previousHash = LastHash
         /\ event'[w].eventHash = HashEvent(LastHash, event'[w].payload)
         /\ \A v \in Writers \ {w} : event'[v] = event[v]
<1> DEFINE payload == [type |-> input[w].type, agent |-> input[w].agent,
                       decision |-> input[w].decision, createdAt |-> Truncate(now)]
           built == [payload |-> payload, previousHash |-> LatestHash(events),
                     eventHash |-> HashEvent(LatestHash(events), payload)]
<1>1. event' = [event EXCEPT ![w] = built]
  BY DEF NewEvent, EventOf
<1>2. LatestHash(events) = LastHash /\ LastHash \in Hashes
  BY LatestIsLast, LastHashType DEF IInv, WriterTypes
<1>3. payload \in Payloads /\ Recorded(payload) = payload
  BY TruncatedOnce, InputsAssumption
  DEF NewEvent, IInv, AppendsCarryInputs, Valid, Payloads, Recorded
<1>4. built \in Events
  BY <1>2, <1>3, HashType DEF Events
<1>5. /\ built.previousHash = LastHash /\ built.eventHash = HashEvent(LastHash, built.payload)
      /\ Recorded(built.payload) = built.payload
  BY <1>2, <1>3
<1> HIDE DEF built
<1>6. event'[w] = built /\ \A v \in Writers \ {w} : event'[v] = event[v]
  BY <1>1 DEF IInv, WriterTypes
<1> QED BY <1>4, <1>5, <1>6

\* The row that Commit adds.
LEMMA CommittedRow ==
  ASSUME IInv, NEW w \in Writers, pc[w] = "commit"
  PROVE  /\ Inserted(w) \in Rows
         /\ Inserted(w).id = id[w]
         /\ Inserted(w).previousHash = LastHash
         /\ Inserted(w).eventHash = HashEvent(LastHash, Inserted(w).payload)
<1>1. event[w] \in Events /\ id[w] \in Nat /\ Recorded(event[w].payload) = event[w].payload
  BY DEF IInv, BuiltIsChained, WriterTypes
<1>2. Inserted(w) \in Rows
  BY <1>1 DEF Inserted, Rows, Events
<1>3. Inserted(w).payload = event[w].payload /\ Inserted(w).previousHash = event[w].previousHash
      /\ Inserted(w).eventHash = event[w].eventHash /\ Inserted(w).id = id[w]
  BY <1>1 DEF Inserted
<1> QED BY <1>2, <1>3 DEF IInv, BuiltIsChained

\* The write side keeps its types; Query does not touch it.
LEMMA TypeStep == IInv /\ [Next]_vars => WriterTypes' /\ AppendsCarryInputs'
<1> SUFFICES ASSUME IInv, [Next]_vars
             PROVE  WriterTypes' /\ AppendsCarryInputs'
  OBVIOUS
<1> USE DEF IInv
<1>1. ASSUME NEW w \in Writers, NEW in \in Inputs, Begin(w, in)
      PROVE  WriterTypes' /\ AppendsCarryInputs'
  BY <1>1, AppendsAssumption DEF Begin, WriterTypes, AppendsCarryInputs
<1>2. ASSUME NEW w \in Writers, LockTable(w)
      PROVE  WriterTypes' /\ AppendsCarryInputs'
  BY <1>2 DEF LockTable, WriterTypes, AppendsCarryInputs
<1>3. ASSUME NEW w \in Writers, NEW now \in Times, NewEvent(w, now)
      PROVE  WriterTypes' /\ AppendsCarryInputs'
  <2>1. event' \in [Writers -> Events \cup {NoEvent}]
    <3>1. event' = [event EXCEPT ![w] = event'[w]]
      BY <1>3 DEF NewEvent, WriterTypes
    <3> QED BY <3>1, BuiltEvent, <1>3 DEF WriterTypes
  <2> QED BY <1>3, <2>1 DEF NewEvent, WriterTypes, AppendsCarryInputs
<1>4. ASSUME NEW w \in Writers, NEW answer \in {"ok", "invalid", "error"},
             Finish(w, answer), UNCHANGED events
      PROVE  WriterTypes' /\ AppendsCarryInputs'
  BY <1>4, FinishTypes DEF WriterTypes, AppendsCarryInputs, Finish
<1>5. ASSUME NEW w \in Writers, Insert(w)
      PROVE  WriterTypes' /\ AppendsCarryInputs'
  BY <1>5 DEF Insert, WriterTypes, AppendsCarryInputs
<1>6. ASSUME NEW w \in Writers, NEW answer \in {"ok", "invalid", "error"}, Commit(w, answer)
      PROVE  WriterTypes' /\ AppendsCarryInputs'
  <2>1. events' \in Seq(Rows)
    BY <1>6, CommittedRow DEF Commit, WriterTypes
  <2>2. Finish(w, answer)
    BY <1>6 DEF Commit
  <2>3. AppendsCarryInputs'
    BY <2>2 DEF AppendsCarryInputs, Finish, WriterTypes
  <2> QED BY <2>1, <2>2, <2>3, FinishTypes DEF WriterTypes
<1>7. CASE UNCHANGED vars
  BY <1>7 DEF vars, writeVars, WriterTypes, AppendsCarryInputs
<1>8. ASSUME NEW r \in Readers, NEW limit \in 0..MaxLimit, Query(r, limit)
      PROVE  WriterTypes' /\ AppendsCarryInputs'
  BY <1>8 DEF Query, writeVars, WriterTypes, AppendsCarryInputs
<1> QED
  BY <1>1, <1>2, <1>3, <1>4, <1>5, <1>6, <1>7, <1>8
  DEF Next, Execute, Fail, RejectInput, CommitAcknowledged, CommitUnacknowledged, Abort

-----------------------------------------------------------------------------
(* The inductive invariant: one step per statement of Append.                  *)

Chained == LockIsHeld /\ IdsAreFresh /\ BuiltIsChained /\ IdsFollowCommits /\ ChainInCommitOrder

\* A statement of one transaction leaves the state of the others alone.
OthersUnchanged(w) == \A v \in Writers \ {w} :
  pc'[v] = pc[v] /\ event'[v] = event[v] /\ id'[v] = id[v]

\* A rollback keeps the invariant: the lock goes, the table stays.
LEMMA RollbackStep ==
  ASSUME IInv, NEW w \in Writers, NEW answer, pc[w] # "idle", Finish(w, answer), UNCHANGED events
  PROVE  Chained'
<1> USE DEF IInv, Chained
<1>1. OthersUnchanged(w) /\ pc'[w] = "idle"
  BY DEF Finish, WriterTypes, OthersUnchanged
<1>2. holder' = IF holder = w THEN NoWriter ELSE holder
  BY DEF Finish
<1>3. LockIsHeld'
  BY <1>1, <1>2, NoWriterAssumption DEF LockIsHeld, Locked, OthersUnchanged
<1>4. IdsAreFresh' /\ IdsFollowCommits' /\ ChainInCommitOrder' /\ LastHash' = LastHash
  BY <1>1 DEF IdsAreFresh, IdsFollowCommits, ChainInCommitOrder, VerifyEvents, LastHash,
              OthersUnchanged, Finish
<1>5. BuiltIsChained'
  BY <1>1, <1>4 DEF BuiltIsChained, OthersUnchanged
<1> QED BY <1>3, <1>4, <1>5

\* The commit of the lock holder: the new row has the highest id and continues the
\* chain, and nobody else has built on the old end of it.
LEMMA CommitStep ==
  ASSUME IInv, NEW w \in Writers, NEW answer, Commit(w, answer)
  PROVE  Chained'
<1> USE DEF IInv, Chained
<1> DEFINE new == Inserted(w)
           n == Len(events)
<1>1. pc[w] = "commit" /\ events' = Append(events, new) /\ Finish(w, answer)
  BY DEF Commit
<1>2. OthersUnchanged(w) /\ pc'[w] = "idle"
  BY <1>1 DEF Finish, WriterTypes, OthersUnchanged
<1>3. holder = w /\ holder' = NoWriter /\ nextId' = nextId
  BY <1>1 DEF Finish, LockIsHeld, Locked
<1>4. \A v \in Writers : pc'[v] \notin Locked
  BY <1>2, <1>3, NoWriterAssumption DEF LockIsHeld, Locked, OthersUnchanged
<1>5. LockIsHeld'
  BY <1>3, <1>4, NoWriterAssumption DEF LockIsHeld
<1>6. BuiltIsChained'
  BY <1>4 DEF BuiltIsChained, Locked
<1>7. /\ new \in Rows
      /\ new.id = id[w]
      /\ new.previousHash = LastHash
      /\ new.eventHash = HashEvent(LastHash, new.payload)
  BY <1>1, CommittedRow
<1> HIDE DEF new
<1>8. /\ n \in Nat /\ DOMAIN events = 1..n /\ DOMAIN events' = 1..(n + 1)
      /\ \A i \in 1..n : events'[i] = events[i]
      /\ events'[n + 1] = new
  BY <1>1, <1>7 DEF WriterTypes
<1>9. id[w] < nextId /\ \A i \in 1..n : events[i].id < id[w]
  BY <1>1, <1>8 DEF IdsAreFresh
<1>10. IdsAreFresh'
  <2>1. \A i \in DOMAIN events' : events'[i].id < nextId'
    BY <1>3, <1>7, <1>8, <1>9 DEF IdsAreFresh
  <2> QED BY <2>1, <1>4 DEF IdsAreFresh, Locked
<1>11. IdsFollowCommits'
  BY <1>7, <1>8, <1>9 DEF IdsFollowCommits
<1>12. ChainInCommitOrder'
  <2> SUFFICES ASSUME NEW i \in 1..(n + 1)
               PROVE  /\ events'[i].previousHash =
                           IF i = 1 THEN NoHash ELSE events'[i - 1].eventHash
                      /\ events'[i].eventHash =
                           HashEvent(events'[i].previousHash, events'[i].payload)
    BY <1>8 DEF ChainInCommitOrder, VerifyEvents
  <2>1. CASE i \in 1..n
    BY <2>1, <1>8 DEF ChainInCommitOrder, VerifyEvents
  <2>2. CASE i = n + 1
    <3>1. LastHash = IF n = 0 THEN NoHash ELSE events[n].eventHash
      BY <1>8 DEF LastHash, WriterTypes
    <3> QED BY <2>2, <3>1, <1>7, <1>8
  <2> QED BY <1>8, <2>1, <2>2
<1> QED BY <1>5, <1>6, <1>10, <1>11, <1>12

LEMMA ChainedStep == IInv /\ [Next]_vars => Chained'
<1> SUFFICES ASSUME IInv, [Next]_vars
             PROVE  Chained'
  OBVIOUS
<1> USE DEF IInv, Chained
<1>t. UNCHANGED events => LastHash' = LastHash /\ IdsFollowCommits' /\ ChainInCommitOrder'
  BY DEF LastHash, IdsFollowCommits, ChainInCommitOrder, VerifyEvents
<1>1. ASSUME NEW w \in Writers, NEW in \in Inputs, Begin(w, in)
      PROVE  Chained'
  <2>1. OthersUnchanged(w) /\ pc[w] = "idle" /\ pc'[w] = "lock" /\ UNCHANGED <<events, holder, nextId>>
    BY <1>1 DEF Begin, WriterTypes, OthersUnchanged
  <2> QED BY <2>1, <1>t DEF LockIsHeld, Locked, IdsAreFresh, BuiltIsChained, OthersUnchanged
<1>2. ASSUME NEW w \in Writers, LockTable(w)
      PROVE  Chained'
  <2>1. OthersUnchanged(w) /\ pc[w] = "lock" /\ pc'[w] = "build" /\ UNCHANGED <<events, nextId>>
    BY <1>2 DEF LockTable, WriterTypes, OthersUnchanged
  <2>2. holder = NoWriter /\ holder' = w
    BY <1>2 DEF LockTable
  <2>3. LockIsHeld'
    BY <2>1, <2>2, NoWriterAssumption DEF LockIsHeld, Locked, OthersUnchanged
  <2> QED BY <2>1, <2>3, <1>t DEF IdsAreFresh, BuiltIsChained, OthersUnchanged
<1>3. ASSUME NEW w \in Writers, NEW now \in Times, NewEvent(w, now)
      PROVE  Chained'
  <2>1. pc[w] = "build" /\ pc'[w] = "insert" /\ UNCHANGED <<events, holder, nextId, id>>
        /\ \A v \in Writers \ {w} : pc'[v] = pc[v]
    BY <1>3 DEF NewEvent, WriterTypes
  <2>2. LockIsHeld' /\ IdsAreFresh'
    BY <2>1 DEF LockIsHeld, Locked, IdsAreFresh
  <2>3. BuiltIsChained'
    BY <1>3, <2>1, <1>t, BuiltEvent DEF BuiltIsChained
  <2> QED BY <2>1, <2>2, <2>3, <1>t
<1>4. ASSUME NEW w \in Writers, NEW answer \in {"ok", "invalid", "error"}, pc[w] # "idle",
             Finish(w, answer), UNCHANGED events
      PROVE  Chained'
  BY <1>4, RollbackStep
<1>5. ASSUME NEW w \in Writers, Insert(w)
      PROVE  Chained'
  <2>1. pc[w] = "insert" /\ pc'[w] = "commit" /\ UNCHANGED <<events, holder, event>>
        /\ (\A v \in Writers \ {w} : pc'[v] = pc[v] /\ id'[v] = id[v])
        /\ id'[w] = nextId /\ nextId' = nextId + 1
    BY <1>5 DEF Insert, WriterTypes
  <2>2. LockIsHeld' /\ BuiltIsChained'
    BY <2>1, <1>t DEF LockIsHeld, Locked, BuiltIsChained
  <2>3. IdsAreFresh'
    <3>1. nextId \in Nat /\ \A i \in DOMAIN events : events[i].id \in Nat
      BY RowIds DEF WriterTypes
    <3>2. \A v \in Writers \ {w} : pc'[v] # "commit"
      BY <2>1 DEF LockIsHeld, Locked
    <3> QED BY <2>1, <3>1, <3>2 DEF IdsAreFresh
  <2> QED BY <2>1, <2>2, <2>3, <1>t
<1>6. ASSUME NEW w \in Writers, NEW answer \in {"ok", "invalid", "error"}, Commit(w, answer)
      PROVE  Chained'
  BY <1>6, CommitStep
<1>7. CASE UNCHANGED writeVars
  BY <1>7, <1>t DEF writeVars, LockIsHeld, IdsAreFresh, BuiltIsChained
<1> QED
  BY <1>1, <1>2, <1>3, <1>4, <1>5, <1>6, <1>7
  DEF Next, Execute, Fail, RejectInput, CommitAcknowledged, CommitUnacknowledged, Abort,
      Query, vars

LEMMA IInvInvariant == Spec => []IInv
<1>1. Init => IInv
  <2> SUFFICES ASSUME Init PROVE IInv
    OBVIOUS
  <2>1. WriterTypes /\ AppendsCarryInputs
    BY AppendsAssumption DEF Init, WriterTypes, AppendsCarryInputs
  <2>2. Chained
    BY NoWriterAssumption
    DEF Init, Chained, LockIsHeld, Locked, IdsAreFresh, BuiltIsChained, IdsFollowCommits,
        ChainInCommitOrder, VerifyEvents
  <2> QED BY <2>1, <2>2 DEF IInv, Chained
<1>2. IInv /\ [Next]_vars => IInv'
  BY TypeStep, ChainedStep DEF IInv, Chained
<1> QED BY <1>1, <1>2, PTL DEF Spec

\* Rows become visible in the order of their ids.
THEOREM IdsFollowCommitsAlways == Spec => []IdsFollowCommits
<1>1. IInv => IdsFollowCommits
  BY DEF IInv
<1> QED BY <1>1, IInvInvariant, PTL

\* The committed rows verify, each chained to the one committed before it.
THEOREM ChainVerifiesInCommitOrder == Spec => []ChainInCommitOrder
<1>1. IInv => ChainInCommitOrder
  BY DEF IInv
<1> QED BY <1>1, IInvInvariant, PTL

-----------------------------------------------------------------------------
(* The lists that queries make: ordered by id, rows take the places in which   *)
(* they were committed, so a list only ever grows at its end.                  *)

\* The row that takes a place of a list.
LEMMA ListAt ==
  ASSUME NEW S
  PROVE  /\ OrderById(S) = [i \in 1..Cardinality(S) |-> OrderById(S)[i]]
         /\ \A i \in 1..Cardinality(S) :
              OrderById(S)[i] = CHOOSE e \in S : Place(e, S) = i - 1
<1> DEFINE at(i) == CHOOSE e \in S : Place(e, S) = i - 1
<1>1. OrderById(S) = [i \in 1..Cardinality(S) |-> at(i)]
  BY DEF OrderById, Place
<1> HIDE DEF at
<1>2. /\ OrderById(S) = [i \in 1..Cardinality(S) |-> OrderById(S)[i]]
      /\ \A i \in 1..Cardinality(S) : OrderById(S)[i] = at(i)
  BY <1>1
<1> QED BY <1>2 DEF at

\* A list holds the selected rows.
LEMMA ListType ==
  ASSUME NEW S, Placed(S)
  PROVE  /\ Cardinality(S) \in Nat
         /\ OrderById(S) \in Seq(S) /\ Len(OrderById(S)) = Cardinality(S)
         /\ DOMAIN OrderById(S) = 1..Cardinality(S)
<1>1. Cardinality(S) \in Nat
  BY FS_CardinalityType DEF Placed
<1>2. \A i \in 1..Cardinality(S) : OrderById(S)[i] \in S
  <2> SUFFICES ASSUME NEW i \in 1..Cardinality(S) PROVE OrderById(S)[i] \in S
    OBVIOUS
  <2>1. \E e \in S : Place(e, S) = i - 1
    BY DEF Placed
  <2> QED BY <2>1, ListAt
<1> QED BY <1>1, <1>2, ListAt

\* A row with the greatest id takes the next place and leaves the others theirs.
LEMMA NextPlace ==
  ASSUME NEW S, IsFiniteSet(S), NEW e, e.id \in Nat, \A d \in S : d.id \in Nat /\ d.id < e.id
  PROVE  /\ IsFiniteSet(S \cup {e}) /\ Cardinality(S \cup {e}) = Cardinality(S) + 1
         /\ Cardinality(S) \in Nat
         /\ Place(e, S \cup {e}) = Cardinality(S)
         /\ \A d \in S : Place(d, S \cup {e}) = Place(d, S)
         /\ \A d \in S : Place(d, S) \in 0..(Cardinality(S) - 1)
<1>1. e \notin S
  OBVIOUS
<1>2. {d \in S \cup {e} : d.id < e.id} = S
  OBVIOUS
<1>3. \A d \in S : {c \in S \cup {e} : c.id < d.id} = {c \in S : c.id < d.id}
  OBVIOUS
<1>4. Cardinality(S) \in Nat
  BY FS_CardinalityType
<1>5. ASSUME NEW d \in S PROVE Place(d, S) \in 0..(Cardinality(S) - 1)
  <2> DEFINE T == {c \in S : c.id < d.id}
  <2>1. T \in SUBSET S /\ T # S
    BY <1>5
  <2>2. IsFiniteSet(T) /\ Cardinality(T) <= Cardinality(S) /\ Cardinality(T) # Cardinality(S)
    BY <2>1, FS_Subset
  <2>3. Cardinality(T) \in Nat
    BY <2>2, FS_CardinalityType
  <2> QED BY <1>4, <2>2, <2>3 DEF Place
<1> QED BY <1>1, <1>2, <1>3, <1>4, <1>5, FS_AddElement DEF Place

\* So the list only grows at its end.
LEMMA ListGrows ==
  ASSUME NEW S, Placed(S), NEW e, e.id \in Nat, \A d \in S : d.id \in Nat /\ d.id < e.id
  PROVE  /\ Placed(S \cup {e})
         /\ \A i \in 1..Cardinality(S) : OrderById(S \cup {e})[i] = OrderById(S)[i]
<1> DEFINE n == Cardinality(S)
           R == S \cup {e}
<1>1. /\ IsFiniteSet(R) /\ Cardinality(R) = n + 1 /\ n \in Nat
      /\ Place(e, R) = n
      /\ \A d \in S : Place(d, R) = Place(d, S)
  BY NextPlace DEF Placed
<1> HIDE DEF R, n
<1>2. Placed(R)
  <2> SUFFICES ASSUME NEW i \in 1..(n + 1) PROVE \E d \in R : Place(d, R) = i - 1
    BY <1>1 DEF Placed
  <2>1. CASE i \in 1..n
    BY <1>1, <2>1 DEF Placed, R, n
  <2>2. CASE i = n + 1
    BY <1>1, <2>2 DEF R
  <2> QED BY <1>1, <2>1, <2>2
<1>3. ASSUME NEW i \in 1..n
      PROVE  OrderById(R)[i] = OrderById(S)[i]
  <2>1. \A d : (d \in R /\ Place(d, R) = i - 1) <=> (d \in S /\ Place(d, S) = i - 1)
    <3>1. n # i - 1
      BY <1>1, <1>3
    <3>2. ASSUME NEW d \in R, Place(d, R) = i - 1 PROVE d \in S
      BY <1>1, <3>1, <3>2 DEF R
    <3>3. ASSUME NEW d \in S PROVE d \in R
      BY DEF R
    <3> QED BY <1>1, <3>2, <3>3
  <2>2. (CHOOSE d \in R : Place(d, R) = i - 1) = (CHOOSE d \in S : Place(d, S) = i - 1)
    BY <2>1
  <2>3. i \in 1..Cardinality(R) /\ i \in 1..Cardinality(S)
    BY <1>1, <1>3 DEF n
  <2> QED BY <2>2, <2>3, ListAt
<1> QED BY <1>2, <1>3 DEF R, n

\* Listed by id the rows are in the order of their commits.
LEMMA ListIsEvents ==
  ASSUME IInv, ReadInv
  PROVE  List = events
<1>1. /\ events \in Seq(Rows) /\ Len(events) \in Nat /\ DOMAIN events = 1..Len(events)
      /\ Cardinality(Table) = Len(events)
      /\ \A i \in 1..Len(events) : Place(events[i], Table) = i - 1
  <2>1. events \in Seq(Rows)
    BY DEF IInv, WriterTypes
  <2> QED BY <2>1 DEF ReadInv, ListedByCommit
<1>2. ASSUME NEW i \in 1..Len(events)
      PROVE  (CHOOSE e \in Table : Place(e, Table) = i - 1) = events[i]
  <2> DEFINE pick == CHOOSE e \in Table : Place(e, Table) = i - 1
  <2>1. events[i] \in Table /\ Place(events[i], Table) = i - 1
    BY <1>1, <1>2 DEF Table
  <2>2. pick \in Table /\ Place(pick, Table) = i - 1
    BY <2>1
  <2>3. PICK k \in 1..Len(events) : pick = events[k]
    BY <1>1, <2>2 DEF Table
  <2>4. k = i
    BY <1>1, <2>2, <2>3
  <2> QED BY <2>3, <2>4
<1>3. \A i \in 1..Len(events) : List[i] = events[i]
  BY <1>1, <1>2, ListAt DEF List
<1>4. List = [i \in 1..Len(events) |-> List[i]]
  BY <1>1, ListAt DEF List
<1> QED BY <1>1, <1>3, <1>4

\* The rows a query selects are rows.
LEMMA SelectedRows ==
  ASSUME events \in Seq(Rows), NEW f
  PROVE  Selected(f) \subseteq Rows /\ Selected(f) = {e \in Table : Selects(f, e.payload)}
         /\ Matching(f) = OrderById(Selected(f))
<1>1. \A i \in DOMAIN events : events[i] \in Rows
  OBVIOUS
<1> QED BY <1>1 DEF Selected, Table, Matching

\* A page continues what a reader has read by the part of its list that follows.
LEMMA NextPage ==
  ASSUME NEW S, NEW M \in Seq(S), NEW p \in Seq(S), NEW limit \in Nat,
         Len(p) <= Len(M), \A i \in 1..Len(p) : p[i] = M[i],
         NEW last, last = IF Len(p) + limit < Len(M) THEN Len(p) + limit ELSE Len(M)
  PROVE  LET q == p \o SubSeq(M, Len(p) + 1, last)
         IN  q \in Seq(S) /\ Len(q) <= Len(M) /\ \A i \in 1..Len(q) : q[i] = M[i]
<1> DEFINE n == Len(p)
           rest == SubSeq(M, n + 1, last)
<1>1. n \in Nat /\ last \in Nat /\ n <= last /\ last <= Len(M) /\ Len(M) \in Nat
  OBVIOUS
<1>2. rest \in Seq(S) /\ Len(rest) = last - n /\ \A i \in 1..(last - n) : rest[i] = M[n + i]
  <2>1. rest = [i \in 1..(last - n) |-> M[n + i]]
    BY <1>1
  <2>2. \A i \in 1..(last - n) : M[n + i] \in S
    BY <1>1
  <2>3. last - n \in Nat
    BY <1>1
  <2> DEFINE k == last - n
  <2> HIDE DEF rest, n, k
  <2>4. rest = [i \in 1..k |-> rest[i]] /\ \A i \in 1..k : rest[i] = M[n + i] /\ rest[i] \in S
    BY <2>1, <2>2 DEF k
  <2>5. k \in Nat
    BY <2>3 DEF k
  <2>6. rest \in [1..k -> S]
    BY <2>4
  <2>7. rest \in Seq(S) /\ Len(rest) = k
    BY <2>5, <2>6
  <2> QED BY <2>4, <2>7 DEF k
<1> HIDE DEF rest
<1>3. p \o rest \in Seq(S) /\ Len(p \o rest) = last
  BY <1>1, <1>2
<1>4. ASSUME NEW i \in 1..last PROVE (p \o rest)[i] = M[i]
  <2>1. CASE i \in 1..n
    BY <1>1, <1>2, <2>1
  <2>2. CASE i \in (n + 1)..last
    <3>1. i - n \in 1..(last - n) /\ n + (i - n) = i
      BY <1>1, <2>2
    <3>2. (p \o rest)[i] = rest[i - n]
      BY <1>1, <1>2, <2>2
    <3> QED BY <1>2, <3>1, <3>2
  <2>3. i \in 1..n \/ i \in (n + 1)..last
    BY <1>1, <1>4
  <2> QED BY <2>1, <2>2, <2>3
<1> QED BY <1>1, <1>3, <1>4 DEF rest

LEMMA ReadInit == Init => ReadInv
<1> SUFFICES ASSUME Init PROVE ReadInv
  OBVIOUS
<1>1. events = << >> /\ Table = {} /\ Len(events) = 0 /\ DOMAIN events = {}
  BY DEF Init, Table
<1>2. IsFiniteSet({}) /\ Cardinality({}) = 0
  BY FS_EmptySet
<1>3. Placed({}) /\ Placed(Table) /\ \A f : Selected(f) = {}
  BY <1>1, <1>2 DEF Placed, Selected
<1>4. ListedByCommit
  BY <1>1, <1>2 DEF ListedByCommit
<1>5. \A f : Matching(f) = OrderById({}) /\ Len(OrderById({})) = 0
  BY <1>1, <1>2, <1>3, ListType DEF Matching, Selected
<1>6. PagesAreBeginnings
  BY <1>5 DEF PagesAreBeginnings, Init
<1>7. pages \in [Readers -> Seq(Rows)] /\ filter \in [Readers -> Filters]
  BY DEF Init
<1> QED BY <1>3, <1>4, <1>6, <1>7 DEF ReadInv

\* The commit of a row: it takes the last place of the lists that select it.
LEMMA CommitLists ==
  ASSUME IInv, ReadInv, NEW w \in Writers, NEW answer, Commit(w, answer)
  PROVE  ReadInv'
<1> DEFINE new == Inserted(w)
           n == Len(events)
           Matches(f) == Selects(f, new.payload)
<1>1. /\ events \in Seq(Rows) /\ events' = Append(events, new) /\ new \in Rows
      /\ new.id = id[w] /\ UNCHANGED <<filter, pages>>
      /\ \A i \in DOMAIN events : events[i].id < id[w]
  BY CommittedRow DEF Commit, Finish, IInv, IdsAreFresh, WriterTypes
<1> HIDE DEF new
<1>2. /\ n \in Nat /\ DOMAIN events = 1..n /\ DOMAIN events' = 1..(n + 1) /\ Len(events') = n + 1
      /\ \A i \in 1..n : events'[i] = events[i]
      /\ events'[n + 1] = new
  BY <1>1
<1>3. Table' = Table \cup {new}
  BY <1>2 DEF Table
<1>4. new.id \in Nat /\ \A d \in Table : d.id \in Nat /\ d.id < new.id
  <2>1. new.id \in Nat
    BY <1>1 DEF Rows
  <2> QED BY <2>1, <1>1, RowIds DEF Table
<1>5. \A f : Selected(f)' = IF Matches(f) THEN Selected(f) \cup {new} ELSE Selected(f)
  BY <1>3 DEF Selected
<1>6. Placed(Table)
  BY DEF ReadInv
<1>7. ASSUME NEW f \in Filters
      PROVE  /\ Placed(Selected(f)')
             /\ Len(OrderById(Selected(f))) <= Len(OrderById(Selected(f)'))
             /\ \A i \in 1..Len(OrderById(Selected(f))) :
                  OrderById(Selected(f)')[i] = OrderById(Selected(f))[i]
  <2> DEFINE S == Selected(f)
  <2>1. Placed(S) /\ \A d \in S : d.id \in Nat /\ d.id < new.id
    BY <1>4 DEF Selected, ReadInv
  <2> HIDE DEF S
  <2>2. Cardinality(S) \in Nat /\ Len(OrderById(S)) = Cardinality(S)
    BY <2>1, ListType
  <2> DEFINE T == S \cup {new}
  <2>3. Placed(T) /\ \A i \in 1..Cardinality(S) : OrderById(T)[i] = OrderById(S)[i]
    BY <1>4, <2>1, ListGrows
  <2>4. Cardinality(T) = Cardinality(S) + 1
    BY <1>4, <2>1, NextPlace DEF Placed
  <2> HIDE DEF T
  <2>5. Len(OrderById(T)) = Cardinality(S) + 1
    BY <2>3, <2>4, ListType
  <2>6. Selected(f)' = T \/ Selected(f)' = S
    BY <1>5 DEF S, T
  <2>7. \A R : R = T \/ R = S =>
          /\ Placed(R) /\ Len(OrderById(S)) <= Len(OrderById(R))
          /\ \A i \in 1..Len(OrderById(S)) : OrderById(R)[i] = OrderById(S)[i]
    BY <2>1, <2>2, <2>3, <2>5
  <2> QED BY <2>6, <2>7 DEF S
<1>8. ListedByCommit'
  <2>1. Place(new, Table \cup {new}) = Cardinality(Table)
        /\ Cardinality(Table \cup {new}) = Cardinality(Table) + 1
        /\ \A d \in Table : Place(d, Table \cup {new}) = Place(d, Table)
    <3>1. IsFiniteSet(Table)
      BY <1>6 DEF Placed
    <3> QED BY <1>4, <3>1, NextPlace
  <2>2. Cardinality(Table) = n /\ \A i \in 1..n : events[i] \in Table /\ Place(events[i], Table) = i - 1
    BY <1>2 DEF ReadInv, ListedByCommit, Table
  <2>3. \A T : T = Table \cup {new} =>
          Cardinality(T) = n + 1 /\ \A i \in 1..(n + 1) : Place(events'[i], T) = i - 1
    <3>1. Place(events'[n + 1], Table \cup {new}) = n
      BY <1>2, <2>1, <2>2
    <3>2. \A i \in 1..n : Place(events'[i], Table \cup {new}) = i - 1
      BY <1>2, <2>1, <2>2
    <3>3. \A i \in 1..(n + 1) : i \in 1..n \/ (i = n + 1 /\ i - 1 = n)
      BY <1>2
    <3> QED BY <2>1, <2>2, <3>1, <3>2, <3>3
  <2>4. \A T : T = Table' => Cardinality(T) = Len(events') /\ \A i \in DOMAIN events' : Place(events'[i], T) = i - 1
    BY <1>2, <1>3, <2>3
  <2> QED BY <2>4 DEF ListedByCommit, Place
<1>9. PagesAreBeginnings'
  <2> SUFFICES ASSUME NEW r \in Readers
               PROVE  /\ Len(pages[r]) <= Len(Matching(filter[r])')
                      /\ \A i \in 1..Len(pages[r]) : pages[r][i] = Matching(filter[r])'[i]
    BY <1>1 DEF PagesAreBeginnings
  <2>1. PICK f \in Filters : f = filter[r]
    BY DEF ReadInv
  <2>2. Matching(f) = OrderById(Selected(f))
    BY DEF Matching, Selected
  <2>3. Matching(f)' = OrderById(Selected(f)')
    BY DEF Matching, Selected
  <2>4. filter'[r] = f
    BY <1>1, <2>1
  <2>5. Matching(filter[r])' = Matching(f)'
    BY <2>4 DEF Matching
  <2>6. Len(pages[r]) <= Len(Matching(f)) /\ \A i \in 1..Len(pages[r]) : pages[r][i] = Matching(f)[i]
    BY <2>1 DEF ReadInv, PagesAreBeginnings
  <2>7. Len(pages[r]) \in Nat /\ Len(Matching(f)) \in Nat /\ Len(Matching(f)') \in Nat
    <3>1. Placed(Selected(f)) /\ Placed(Selected(f)')
      BY <1>7 DEF ReadInv
    <3>2. \A S : Placed(S) => Len(OrderById(S)) \in Nat
      BY ListType
    <3>3. pages[r] \in Seq(Rows)
      BY DEF ReadInv
    <3> QED BY <2>2, <2>3, <3>1, <3>2, <3>3
  <2> QED BY <1>7, <2>2, <2>3, <2>5, <2>6, <2>7
<1>10. /\ filter' \in [Readers -> Filters] /\ pages' \in [Readers -> Seq(Rows)]
       /\ \A f \in Filters : Placed(Selected(f)')
       /\ Placed(Table')
  <2>1. Placed(Table \cup {new})
    BY <1>4, <1>6, ListGrows
  <2> QED BY <1>1, <1>3, <1>7, <2>1 DEF ReadInv
<1> QED BY <1>8, <1>9, <1>10 DEF ReadInv, Placed, Place

\* A query adds to the pages of its reader what follows them in the list.
LEMMA QueryLists ==
  ASSUME IInv, ReadInv, NEW r \in Readers, NEW limit \in 0..MaxLimit, Query(r, limit)
  PROVE  ReadInv'
<1> DEFINE M == Matching(filter[r])
           p == pages[r]
           most == NormalizedLimit(limit)
           last == IF Len(p) + most < Len(M) THEN Len(p) + most ELSE Len(M)
           q == p \o SubSeq(M, Len(p) + 1, last)
<1>1. pages' = [pages EXCEPT ![r] = q] /\ UNCHANGED <<events, filter>>
  BY DEF Query, Page, writeVars
<1>2. Table' = Table /\ (\A f : Selected(f)' = Selected(f)) /\ (\A f : Matching(f)' = Matching(f))
  BY <1>1 DEF Table, Selected, Matching
<1>3. most \in Nat
  BY LimitAssumption DEF NormalizedLimit
<1>4. M \in Seq(Rows)
  <2>1. PICK f \in Filters : f = filter[r]
    BY DEF ReadInv
  <2>2. Placed(Selected(f)) /\ Selected(f) \subseteq Rows /\ Matching(f) = OrderById(Selected(f))
    BY SelectedRows DEF ReadInv, IInv, WriterTypes
  <2>3. OrderById(Selected(f)) \in Seq(Selected(f))
    BY <2>2, ListType
  <2> QED BY <2>1, <2>2, <2>3
<1>5. p \in Seq(Rows) /\ Len(p) <= Len(M) /\ \A i \in 1..Len(p) : p[i] = M[i]
  BY DEF ReadInv, PagesAreBeginnings
<1>6. q \in Seq(Rows) /\ Len(q) <= Len(M) /\ \A i \in 1..Len(q) : q[i] = M[i]
  <2> HIDE DEF M, p, most
  <2> QED BY <1>3, <1>4, <1>5, NextPage
<1> HIDE DEF q
<1>7. pages' \in [Readers -> Seq(Rows)] /\ pages'[r] = q /\ \A s \in Readers \ {r} : pages'[s] = pages[s]
  BY <1>1, <1>6 DEF ReadInv
<1>8. PagesAreBeginnings'
  <2> SUFFICES ASSUME NEW s \in Readers
               PROVE  /\ Len(pages'[s]) <= Len(Matching(filter[s])')
                      /\ \A i \in 1..Len(pages'[s]) : pages'[s][i] = Matching(filter[s])'[i]
    BY DEF PagesAreBeginnings
  <2>1. Matching(filter[s])' = Matching(filter[s])
    BY <1>1 DEF Matching, Table
  <2>2. CASE s = r
    BY <1>6, <1>7, <2>1, <2>2
  <2>3. CASE s # r
    BY <1>7, <2>1, <2>3 DEF ReadInv, PagesAreBeginnings
  <2> QED BY <2>2, <2>3
<1>9. ListedByCommit' /\ Placed(Table') /\ \A f \in Filters : Placed(Selected(f)')
  BY <1>1, <1>2 DEF ReadInv, ListedByCommit, Place
<1>10. filter' \in [Readers -> Filters]
  BY <1>1 DEF ReadInv
<1> QED BY <1>7, <1>8, <1>9, <1>10 DEF ReadInv, Placed, Place

LEMMA ReadStep == IInv /\ ReadInv /\ [Next]_vars => ReadInv'
<1> SUFFICES ASSUME IInv, ReadInv, [Next]_vars
             PROVE  ReadInv'
  OBVIOUS
<1>1. ASSUME UNCHANGED <<events, filter, pages>>
      PROVE  ReadInv'
  <2>1. Table' = Table /\ (\A f : Selected(f)' = Selected(f)) /\ (\A f : Matching(f)' = Matching(f))
    BY <1>1 DEF Table, Selected, Matching
  <2>2. ListedByCommit' /\ PagesAreBeginnings'
    BY <1>1, <2>1 DEF ReadInv, ListedByCommit, PagesAreBeginnings, Place
  <2>3. Placed(Table') /\ \A f \in Filters : Placed(Selected(f)')
    BY <2>1 DEF ReadInv
  <2> QED BY <1>1, <2>2, <2>3 DEF ReadInv, Placed, Place
<1>2. ASSUME NEW w \in Writers, NEW answer, Commit(w, answer)
      PROVE  ReadInv'
  BY <1>2, CommitLists
<1>3. ASSUME NEW r \in Readers, NEW limit \in 0..MaxLimit, Query(r, limit)
      PROVE  ReadInv'
  BY <1>3, QueryLists
<1>4. ASSUME NEW w \in Writers,
             \/ \E in \in Inputs : Begin(w, in)
             \/ LockTable(w) \/ (\E now \in Times : NewEvent(w, now))
             \/ RejectInput(w) \/ Insert(w) \/ Abort(w)
      PROVE  ReadInv'
  BY <1>1, <1>4 DEF Begin, LockTable, NewEvent, RejectInput, Insert, Abort, Finish
<1> QED
  BY <1>1, <1>2, <1>3, <1>4
  DEF Next, Execute, Fail, CommitAcknowledged, CommitUnacknowledged, writeVars, vars

LEMMA ReadInvariant == Spec => [](IInv /\ ReadInv)
<1>1. Init => ReadInv
  BY ReadInit
<1>2. IInv /\ ReadInv /\ [Next]_vars => ReadInv'
  BY ReadStep
<1> QED BY <1>1, <1>2, IInvInvariant, PTL DEF Spec

-----------------------------------------------------------------------------
(* What readers can rely on.                                                   *)

\* Rows, lock, transactions and pages have their types.
THEOREM TypeCorrect == Spec => []TypeOK
<1>1. IInv /\ ReadInv => TypeOK
  BY DEF IInv, ReadInv, TypeOK
<1> QED BY <1>1, ReadInvariant, PTL

\* In every state that a query can see the listed log verifies as read back.
THEOREM ChainVerifiesAlways == Spec => []ChainVerifies
<1>1. IInv /\ ReadInv => ChainVerifies
  BY ListIsEvents DEF IInv, ChainInCommitOrder, ChainVerifies
<1> QED BY <1>1, ReadInvariant, PTL

\* A client that pages by offset through a growing log misses and repeats nothing.
THEOREM PagesAreExactAlways == Spec => []PagesAreExact
<1>1. IInv /\ ReadInv => PagesAreExact
  <2> SUFFICES ASSUME IInv, ReadInv, NEW r \in Readers
               PROVE  pages[r] = SubSeq(Matching(filter[r]), 1, Len(pages[r]))
    BY DEF PagesAreExact
  <2> DEFINE M == Matching(filter[r])
             p == pages[r]
             n == Len(p)
  <2>1. p \in Seq(Rows) /\ n \in Nat /\ n <= Len(M) /\ \A i \in 1..n : p[i] = M[i]
    BY DEF ReadInv, PagesAreBeginnings
  <2>2. p = [i \in 1..n |-> p[i]]
    BY <2>1
  <2> HIDE DEF p, M
  <2>3. SubSeq(M, 1, n) = [i \in 1..n |-> M[i]]
    BY <2>1
  <2> QED BY <2>1, <2>2, <2>3 DEF p, M
<1> QED BY <1>1, ReadInvariant, PTL

\* The row that a commit adds is one entry at the end of the log; no other step
\* changes what the log says.
THEOREM Implementation == Spec => ImplementsLog
<1> DEFINE entry(e) == [type |-> e.payload.type, agent |-> e.payload.agent,
                       decision |-> e.payload.decision]
           log == [i \in DOMAIN events |->
                     [type |-> List[i].payload.type, agent |-> List[i].payload.agent,
                      decision |-> List[i].payload.decision]]
           InOrder == List = events
<1>1. IInv /\ ReadInv => InOrder
  BY ListIsEvents
<1>2. Init => Log!Init
  BY DEF Init, Log!Init
<1>3. IInv /\ InOrder /\ InOrder' /\ [Next]_vars => [Log!Next]_log
  <2> SUFFICES ASSUME IInv, InOrder, InOrder', [Next]_vars
               PROVE  [Log!Next]_log
    OBVIOUS
  <2>1. log = [i \in DOMAIN events |-> entry(events[i])]
        /\ log' = [i \in DOMAIN events' |-> entry(events'[i])]
    OBVIOUS
  <2> HIDE DEF log
  <2>2. CASE UNCHANGED events
    BY <2>1, <2>2
  <2>3. ASSUME NEW w \in Writers, NEW answer, Commit(w, answer)
        PROVE  Log!Next
    <3> DEFINE new == Inserted(w)
    <3>1. new \in Rows /\ events' = Append(events, new) /\ events \in Seq(Rows)
      BY <2>3, CommittedRow DEF Commit, IInv, WriterTypes
    <3> HIDE DEF new
    <3>2. entry(new) \in [type : Supported, agent : Agents, decision : Decisions]
      BY <3>1 DEF Rows, Payloads
    <3> HIDE DEF entry
    <3>3. log' = Append(log, entry(new))
      BY <2>1, <3>1
    <3> QED BY <3>2, <3>3 DEF Log!Next, Log!AppendEntry, log
  <2>4. UNCHANGED events \/ \E w \in Writers, answer \in {"ok", "error"} : Commit(w, answer)
    BY DEF Next, Execute, Fail, Begin, LockTable, NewEvent, RejectInput, Insert, Abort, Finish,
           CommitAcknowledged, CommitUnacknowledged, Query, writeVars, vars
  <2> QED BY <2>2, <2>3, <2>4 DEF log
<1> QED BY <1>1, <1>2, <1>3, ReadInvariant, PTL DEF Spec, ImplementsLog, Log!Spec
=============================================================================
