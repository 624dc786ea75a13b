--------------------------- MODULE LeanIndexProofs ---------------------------
(* LeanIndex for any agents, writers, bodies and bounds: the lock discipline  *)
(* of Put and the theorem that an established row never regresses.            *)
EXTENDS LeanIndex, TLAPS

Writing == {"decide", "upsert", "commit"}

(* What holds between the statements of the running transactions.             *)

\* A writer inside Put carries a record.
PutsCarryRecords == \A w \in Writers : pc[w] # "idle" => put[w] \in Records

\* A lock belongs to a transaction that is past its SELECT on that very agent.
LocksAreHeld == \A a \in Agents : lock[a] # NoWriter =>
  pc[lock[a]] \in Writing /\ Key(lock[a]) = a

\* After the upsert the row is locked, whatever the SELECT found.
UpsertedIsLocked == \A w \in Writers : pc[w] = "commit" => lock[Key(w)] = w

\* A transaction that found a row writes only a greater sequence, and what it has
\* archived is the row it found.
WritesSupersede == \A w \in Writers :
  pc[w] \in {"upsert", "commit"} /\ seen[w] # NoRow =>
    /\ put[w].seq > seen[w].rec.seq
    /\ archived[w] \in Archived
    /\ archived[w].row = seen[w]

\* A transaction that has not run its SELECT has seen nothing.
NothingSeenYet == \A w \in Writers : pc[w] \in {"idle", "select"} => seen[w] = NoRow

\* The ids of the history rows still uncommitted were handed out before.
ArchiveIds == \A w \in Writers : archived[w] # NoRow => archived[w].id \in 0..nextId

IInv ==
  /\ TypeOK
  /\ PutsCarryRecords
  /\ LocksAreHeld
  /\ SeenIsCurrent
  /\ UpsertedIsLocked
  /\ WritesSupersede
  /\ NothingSeenYet
  /\ ArchiveIds

-----------------------------------------------------------------------------
\* Types are preserved by every statement of Put.
LEMMA TypeStep == TypeOK /\ PutsCarryRecords /\ [Next]_vars => TypeOK' /\ PutsCarryRecords'
<1> SUFFICES ASSUME TypeOK, PutsCarryRecords, [Next]_vars
             PROVE  TypeOK' /\ PutsCarryRecords'
  OBVIOUS
<1> USE DEF TypeOK, PutsCarryRecords, Active, Results
<1>1. ASSUME NEW w \in Writers, NEW rec \in Records, Begin(w, rec)
      PROVE  TypeOK' /\ PutsCarryRecords'
  <2>1. clock' \in Times /\ start' \in [Writers -> Times]
    BY <1>1, BoundsAssumption DEF Begin, Times
  <2> QED BY <1>1, <2>1 DEF Begin
<1>2. ASSUME NEW w \in Writers, SelectNothing(w)
      PROVE  TypeOK' /\ PutsCarryRecords'
  BY <1>2 DEF SelectNothing
<1>3. ASSUME NEW w \in Writers, SelectRow(w)
      PROVE  TypeOK' /\ PutsCarryRecords'
  BY <1>3 DEF SelectRow, Key, Records
<1>4. ASSUME NEW w \in Writers, NEW answer \in Results, Finish(w, answer),
             UNCHANGED <<row, history>>
      PROVE  TypeOK' /\ PutsCarryRecords'
  BY <1>4 DEF Finish
<1>5. ASSUME NEW w \in Writers, Archive(w)
      PROVE  TypeOK' /\ PutsCarryRecords'
  <2>1. Key(w) \in Agents
    BY <1>5 DEF Archive, Key, Records
  <2> DEFINE copy == [row |-> row[Key(w)], archivedAt |-> start[w], id |-> nextId]
  <2>2. row[Key(w)] # NoRow => copy \in Archived
    BY <2>1 DEF Archived
  <2>3. archived' \in [Writers -> Archived \cup {NoRow}] /\ nextId' \in Nat
    <3>1. CASE row[Key(w)] = NoRow
      BY <1>5, <3>1 DEF Archive
    <3>2. CASE row[Key(w)] # NoRow
      <4>1. archived' = [archived EXCEPT ![w] = copy] /\ nextId' = nextId + 1
        BY <1>5, <3>2 DEF Archive
      <4> QED BY <4>1, <2>2, <3>2
    <3> QED BY <3>1, <3>2
  <2>4. pc' \in [Writers -> Active \cup {"idle"}]
    BY <1>5 DEF Archive
  <2> QED BY <1>5, <2>3, <2>4 DEF Archive
<1>6. ASSUME NEW w \in Writers, Upsert(w)
      PROVE  TypeOK' /\ PutsCarryRecords'
  BY <1>6 DEF Upsert, Key, Records
<1>7. ASSUME NEW w \in Writers, NEW answer \in Results, Commit(w, answer)
      PROVE  TypeOK' /\ PutsCarryRecords'
  <2>1. Key(w) \in Agents /\ put[w] \in Records
    BY <1>7 DEF Commit, Key, Records
  <2>2. row' \in [Agents -> Rows \cup {NoRow}]
    <3>1. Upserted(w) \in Rows
      BY <2>1 DEF Upserted, Rows
    <3> QED BY <1>7, <2>1, <3>1 DEF Commit
  <2>3. history' \in [Agents -> Seq(Archived)]
    BY <1>7, <2>1 DEF Commit
  <2> QED BY <1>7, <2>2, <2>3 DEF Commit, Finish
<1>8. CASE UNCHANGED vars
  BY <1>8 DEF vars
<1> QED
  BY <1>1, <1>2, <1>3, <1>4, <1>5, <1>6, <1>7, <1>8
  DEF Next, Execute, Fail, RejectStale, RejectConflict, CommitUnchanged,
      CommitAcknowledged, CommitUnacknowledged, Abort

\* The variables keep their types in every behaviour of the index.
THEOREM TypeCorrect == Spec => []TypeOK
<1>1. Init => TypeOK /\ PutsCarryRecords
  BY BoundsAssumption DEF Init, TypeOK, PutsCarryRecords, Rows, Times, Active, Results
<1> QED BY <1>1, TypeStep, PTL DEF Spec

-----------------------------------------------------------------------------
(* The inductive invariant: one step per statement of Put, and under it the    *)
(* conjuncts that the statement can disturb.                                   *)

Discipline ==
  /\ LocksAreHeld /\ SeenIsCurrent /\ UpsertedIsLocked
  /\ WritesSupersede /\ NothingSeenYet /\ ArchiveIds

\* A statement of one transaction leaves the state of the others alone.
OthersUnchanged(w) == \A v \in Writers \ {w} :
  /\ pc'[v] = pc[v]
  /\ put'[v] = put[v]
  /\ seen'[v] = seen[v]
  /\ archived'[v] = archived[v]

\* Ending a transaction without writing a row keeps the discipline.
LEMMA FinishStep ==
  ASSUME IInv, NEW w \in Writers, NEW answer, Finish(w, answer),
         UNCHANGED <<row, history>>
  PROVE  Discipline'
<1> USE DEF IInv, Discipline
<1>1. OthersUnchanged(w) /\ pc'[w] = "idle" /\ seen'[w] = NoRow /\ archived'[w] = NoRow
  BY DEF Finish, TypeOK, OthersUnchanged
<1>2. UNCHANGED <<row, put, nextId>> /\ \A v \in Writers : Key(v)' = Key(v)
  BY DEF Finish, Key
<1>3. \A a \in Agents : lock'[a] = IF lock[a] = w THEN NoWriter ELSE lock[a]
  BY DEF Finish
<1>k. \A v \in Writers : pc[v] # "idle" => Key(v) \in Agents
  BY DEF PutsCarryRecords, Key, Records
<1>4. LocksAreHeld'
  BY <1>1, <1>2, <1>3, NoWriterAssumption DEF LocksAreHeld, Writing, OthersUnchanged, TypeOK
<1>5. SeenIsCurrent'
  BY <1>1, <1>2, <1>3, <1>k DEF SeenIsCurrent, OthersUnchanged
<1>6. UpsertedIsLocked'
  BY <1>1, <1>2, <1>3, <1>k DEF UpsertedIsLocked, OthersUnchanged
<1>7. WritesSupersede' /\ NothingSeenYet' /\ ArchiveIds'
  BY <1>1, <1>2 DEF WritesSupersede, NothingSeenYet, ArchiveIds, OthersUnchanged
<1> QED BY <1>4, <1>5, <1>6, <1>7

LEMMA DisciplineStep == IInv /\ [Next]_vars => Discipline'
<1> SUFFICES ASSUME IInv, [Next]_vars
             PROVE  Discipline'
  OBVIOUS
<1> USE DEF IInv, Discipline
<1>k. \A v \in Writers : pc[v] # "idle" => Key(v) \in Agents
  BY DEF PutsCarryRecords, Key, Records
<1>1. ASSUME NEW w \in Writers, NEW rec \in Records, Begin(w, rec)
      PROVE  Discipline'
  <2>1. OthersUnchanged(w) /\ pc[w] = "idle" /\ pc'[w] = "select"
    BY <1>1 DEF Begin, TypeOK, OthersUnchanged
  <2>2. UNCHANGED <<row, lock, nextId, seen, archived>>
    BY <1>1 DEF Begin
  <2>3. \A v \in Writers \ {w} : Key(v)' = Key(v)
    BY <2>1 DEF Key, OthersUnchanged
  <2>4. LocksAreHeld'
    <3> SUFFICES ASSUME NEW a \in Agents, lock'[a] # NoWriter
                 PROVE  pc'[lock'[a]] \in Writing /\ put'[lock'[a]].agent = a
      BY DEF LocksAreHeld, Key
    <3>1. lock'[a] = lock[a] /\ lock[a] \in Writers
      BY <2>2 DEF TypeOK
    <3>2. pc[lock[a]] \in Writing /\ put[lock[a]].agent = a
      BY <3>1 DEF LocksAreHeld, Key
    <3>3. lock[a] # w
      BY <2>1, <3>2 DEF Writing
    <3>4. pc'[lock[a]] = pc[lock[a]] /\ put'[lock[a]] = put[lock[a]]
      BY <2>1, <3>1, <3>3 DEF OthersUnchanged
    <3> QED BY <3>1, <3>2, <3>4
  <2>5. SeenIsCurrent' /\ UpsertedIsLocked'
    BY <2>1, <2>2, <2>3 DEF SeenIsCurrent, UpsertedIsLocked, OthersUnchanged
  <2>6. WritesSupersede' /\ NothingSeenYet' /\ ArchiveIds'
    BY <2>1, <2>2 DEF WritesSupersede, NothingSeenYet, ArchiveIds, OthersUnchanged
  <2> QED BY <2>4, <2>5, <2>6
<1>2. ASSUME NEW w \in Writers, SelectNothing(w)
      PROVE  Discipline'
  <2>1. OthersUnchanged(w) /\ pc[w] = "select" /\ pc'[w] = "decide"
    BY <1>2 DEF SelectNothing, TypeOK, OthersUnchanged
  <2>2. UNCHANGED <<row, lock, nextId, put, seen, archived>>
    BY <1>2 DEF SelectNothing
  <2>3. seen[w] = NoRow /\ \A v \in Writers : Key(v)' = Key(v)
    BY <2>1, <2>2 DEF Key, NothingSeenYet
  <2>4. LocksAreHeld'
    <3> SUFFICES ASSUME NEW a \in Agents, lock'[a] # NoWriter
                 PROVE  pc'[lock'[a]] \in Writing /\ put'[lock'[a]].agent = a
      BY DEF LocksAreHeld, Key
    <3>1. lock'[a] = lock[a] /\ lock[a] \in Writers
      BY <2>2 DEF TypeOK
    <3>2. pc[lock[a]] \in Writing /\ put[lock[a]].agent = a
      BY <3>1 DEF LocksAreHeld, Key
    <3>3. lock[a] # w
      BY <2>1, <3>2 DEF Writing
    <3>4. pc'[lock[a]] = pc[lock[a]] /\ put'[lock[a]] = put[lock[a]]
      BY <2>1, <3>1, <3>3 DEF OthersUnchanged
    <3> QED BY <3>1, <3>2, <3>4
  <2>5. SeenIsCurrent' /\ UpsertedIsLocked'
    BY <2>1, <2>2, <2>3 DEF SeenIsCurrent, UpsertedIsLocked, OthersUnchanged
  <2>6. WritesSupersede' /\ NothingSeenYet' /\ ArchiveIds'
    BY <2>1, <2>2 DEF WritesSupersede, NothingSeenYet, ArchiveIds, OthersUnchanged
  <2> QED BY <2>4, <2>5, <2>6
<1>3. ASSUME NEW w \in Writers, SelectRow(w)
      PROVE  Discipline'
  <2>1. OthersUnchanged(w) /\ pc[w] = "select" /\ pc'[w] = "decide"
    BY <1>3 DEF SelectRow, TypeOK, OthersUnchanged
  <2>2. UNCHANGED <<row, nextId, put, archived>> /\ seen'[w] = row[Key(w)]
    BY <1>3 DEF SelectRow, TypeOK
  <2>3. \A v \in Writers : Key(v)' = Key(v)
    BY <2>2 DEF Key
  <2>4. lock[Key(w)] = NoWriter /\ lock'[Key(w)] = w
    BY <1>3, <1>k, <2>1 DEF SelectRow, TypeOK
  <2>5. \A a \in Agents : a # Key(w) => lock'[a] = lock[a]
    BY <1>3 DEF SelectRow, TypeOK
  <2>6. LocksAreHeld'
    <3> SUFFICES ASSUME NEW a \in Agents, lock'[a] # NoWriter
                 PROVE  pc'[lock'[a]] \in Writing /\ put'[lock'[a]].agent = a
      BY DEF LocksAreHeld, Key
    <3>1. CASE a = Key(w)
      <4>1. lock'[a] = w /\ put'[w].agent = a
        BY <2>3, <2>4, <3>1 DEF Key
      <4> QED BY <2>1, <4>1 DEF Writing
    <3>2. CASE a # Key(w)
      <4>1. lock'[a] = lock[a] /\ lock[a] \in Writers
        BY <2>5, <3>2 DEF TypeOK
      <4>2. pc[lock[a]] \in Writing /\ put[lock[a]].agent = a
        BY <4>1 DEF LocksAreHeld, Key
      <4>3. lock[a] # w
        BY <2>1, <4>2 DEF Writing
      <4>4. pc'[lock[a]] = pc[lock[a]] /\ put'[lock[a]] = put[lock[a]]
        BY <2>1, <2>2, <4>1, <4>3 DEF OthersUnchanged
      <4> QED BY <4>1, <4>2, <4>4
    <3> QED BY <3>1, <3>2
  <2>7. SeenIsCurrent' /\ UpsertedIsLocked'
    BY <1>k, <2>1, <2>2, <2>3, <2>4, <2>5, NoWriterAssumption
    DEF SeenIsCurrent, UpsertedIsLocked, OthersUnchanged
  <2>8. WritesSupersede' /\ NothingSeenYet' /\ ArchiveIds'
    BY <2>1, <2>2 DEF WritesSupersede, NothingSeenYet, ArchiveIds, OthersUnchanged
  <2> QED BY <2>6, <2>7, <2>8
<1>4. ASSUME NEW w \in Writers, NEW answer \in Results, Finish(w, answer),
             UNCHANGED <<row, history>>
      PROVE  Discipline'
  BY <1>4, FinishStep
<1>5. ASSUME NEW w \in Writers, Archive(w)
      PROVE  Discipline'
  <2>1. OthersUnchanged(w) /\ pc[w] = "decide" /\ pc'[w] = "upsert"
    BY <1>5 DEF Archive, TypeOK, OthersUnchanged
  <2>2. UNCHANGED <<row, lock, put, seen>> /\ \A v \in Writers : Key(v)' = Key(v)
    BY <1>5 DEF Archive, Key
  <2>3. LocksAreHeld' /\ SeenIsCurrent' /\ UpsertedIsLocked' /\ NothingSeenYet'
    <3>1. LocksAreHeld'
      BY <2>1, <2>2, NoWriterAssumption DEF LocksAreHeld, Writing, TypeOK, OthersUnchanged
    <3>2. SeenIsCurrent'
      BY <2>1, <2>2 DEF SeenIsCurrent, OthersUnchanged
    <3>3. UpsertedIsLocked' /\ NothingSeenYet'
      BY <2>1, <2>2 DEF UpsertedIsLocked, NothingSeenYet, OthersUnchanged
    <3> QED BY <3>1, <3>2, <3>3
  <2> DEFINE copy == [row |-> row[Key(w)], archivedAt |-> start[w], id |-> nextId]
  <2>4. /\ row[Key(w)] = NoRow => archived'[w] = archived[w] /\ nextId' = nextId
        /\ row[Key(w)] # NoRow => archived'[w] = copy /\ nextId' = nextId + 1
    BY <1>5 DEF Archive, TypeOK
  <2>5. row[Key(w)] # NoRow => copy \in Archived
    BY <1>k, <2>1 DEF Archived, TypeOK
  <2>6. seen[w] # NoRow => row[Key(w)] = seen[w] /\ put[w].seq > seen[w].rec.seq
    BY <1>5, <2>1 DEF Archive, Supersedes, SeenIsCurrent
  <2>7. WritesSupersede'
    <3>1. seen[w] # NoRow => archived'[w] = copy /\ copy \in Archived /\ copy.row = seen[w]
      BY <2>4, <2>5, <2>6
    <3> HIDE DEF copy
    <3> QED BY <2>1, <2>2, <2>6, <3>1 DEF WritesSupersede, OthersUnchanged
  <2>8. ArchiveIds'
    <3>1. copy.id = nextId
      OBVIOUS
    <3> HIDE DEF copy
    <3>2. nextId \in Nat /\ nextId' \in {nextId, nextId + 1}
      BY <2>4 DEF TypeOK
    <3> QED BY <2>1, <2>4, <3>1, <3>2 DEF ArchiveIds, OthersUnchanged
  <2> QED BY <2>3, <2>7, <2>8
<1>6. ASSUME NEW w \in Writers, Upsert(w)
      PROVE  Discipline'
  <2>1. OthersUnchanged(w) /\ pc[w] = "upsert" /\ pc'[w] = "commit"
    BY <1>6 DEF Upsert, TypeOK, OthersUnchanged
  <2>2. UNCHANGED <<row, nextId, put, seen, archived>> /\ \A v \in Writers : Key(v)' = Key(v)
    BY <1>6 DEF Upsert, Key
  <2>3. lock[Key(w)] \in {NoWriter, w} /\ lock'[Key(w)] = w
    BY <1>6, <1>k, <2>1 DEF Upsert, TypeOK
  <2>4. \A a \in Agents : a # Key(w) => lock'[a] = lock[a]
    BY <1>6 DEF Upsert, TypeOK
  <2>5. LocksAreHeld'
    <3> SUFFICES ASSUME NEW a \in Agents, lock'[a] # NoWriter
                 PROVE  pc'[lock'[a]] \in Writing /\ put'[lock'[a]].agent = a
      BY DEF LocksAreHeld, Key
    <3>1. CASE a = Key(w)
      BY <3>1, <2>1, <2>2, <2>3 DEF Writing, Key
    <3>2. CASE a # Key(w)
      <4>1. lock[a] \in Writers \ {w} /\ pc[lock[a]] \in Writing /\ Key(lock[a]) = a
        BY <3>2, <2>4 DEF LocksAreHeld, TypeOK
      <4> QED BY <4>1, <3>2, <2>1, <2>2, <2>4 DEF OthersUnchanged, Key
    <3> QED BY <3>1, <3>2
  <2>6. SeenIsCurrent' /\ UpsertedIsLocked'
    BY <1>k, <2>1, <2>2, <2>3, <2>4, NoWriterAssumption
    DEF SeenIsCurrent, UpsertedIsLocked, OthersUnchanged
  <2>7. WritesSupersede' /\ NothingSeenYet' /\ ArchiveIds'
    BY <2>1, <2>2 DEF WritesSupersede, NothingSeenYet, ArchiveIds, OthersUnchanged
  <2> QED BY <2>5, <2>6, <2>7
<1>7. ASSUME NEW w \in Writers, NEW answer \in Results, Commit(w, answer)
      PROVE  Discipline'
  <2>1. /\ OthersUnchanged(w) /\ pc[w] = "commit"
        /\ pc'[w] = "idle" /\ seen'[w] = NoRow /\ archived'[w] = NoRow
    BY <1>7 DEF Commit, Finish, TypeOK, OthersUnchanged
  <2>2. UNCHANGED <<put, nextId>> /\ \A v \in Writers : Key(v)' = Key(v)
    BY <1>7 DEF Commit, Finish, Key
  <2>3. \A a \in Agents : lock'[a] = IF lock[a] = w THEN NoWriter ELSE lock[a]
    BY <1>7 DEF Commit, Finish
  <2>4. \A a \in Agents : a # Key(w) => row'[a] = row[a]
    BY <1>7 DEF Commit, TypeOK
  <2>5. lock[Key(w)] = w
    BY <2>1 DEF UpsertedIsLocked
  <2>6. LocksAreHeld'
    BY <2>1, <2>2, <2>3, NoWriterAssumption DEF LocksAreHeld, Writing, OthersUnchanged, TypeOK
  <2>7. SeenIsCurrent'
    BY <1>k, <2>1, <2>2, <2>3, <2>4, <2>5 DEF SeenIsCurrent, OthersUnchanged
  <2>8. UpsertedIsLocked'
    BY <1>k, <2>1, <2>2, <2>3 DEF UpsertedIsLocked, OthersUnchanged
  <2>9. WritesSupersede' /\ NothingSeenYet' /\ ArchiveIds'
    BY <2>1, <2>2 DEF WritesSupersede, NothingSeenYet, ArchiveIds, OthersUnchanged
  <2> QED BY <2>6, <2>7, <2>8, <2>9
<1>8. CASE UNCHANGED vars
  BY <1>8 DEF vars, LocksAreHeld, SeenIsCurrent, UpsertedIsLocked, WritesSupersede,
              NothingSeenYet, ArchiveIds, Key
<1> QED
  BY <1>1, <1>2, <1>3, <1>4, <1>5, <1>6, <1>7, <1>8
  DEF Next, Execute, Fail, RejectStale, RejectConflict, CommitUnchanged,
      CommitAcknowledged, CommitUnacknowledged, Abort, Results

LEMMA IInvInit == Init => IInv
<1> SUFFICES ASSUME Init PROVE IInv
  OBVIOUS
<1>1. TypeOK /\ PutsCarryRecords
  BY BoundsAssumption DEF Init, TypeOK, PutsCarryRecords, Rows, Times, Active, Results
<1>2. Discipline
  BY DEF Init, Discipline, LocksAreHeld, SeenIsCurrent, UpsertedIsLocked, WritesSupersede,
         NothingSeenYet, ArchiveIds
<1> QED BY <1>1, <1>2 DEF IInv, Discipline

LEMMA IInvStep == IInv /\ [Next]_vars => IInv'
  BY TypeStep, DisciplineStep DEF IInv, Discipline

LEMMA IInvInvariant == Spec => []IInv
  BY IInvInit, IInvStep, PTL DEF Spec

\* A transaction that found a row decides from the row that is still committed.
THEOREM SeenIsCurrentAlways == Spec => []SeenIsCurrent
<1>1. IInv => SeenIsCurrent
  BY DEF IInv
<1> QED BY <1>1, IInvInvariant, PTL

-----------------------------------------------------------------------------
(* What a step of one writer can do to an established row.                     *)

\* Only the commit of the row's lock holder changes the row, to its own record;
\* on an established agent that record is newer and the row is archived.
LEMMA CommitOnEstablished ==
  ASSUME IInv, NEW w \in Writers, pc[w] = "commit", Established(Key(w))
  PROVE  /\ seen[w] = row[Key(w)]
         /\ put[w].seq > row[Key(w)].rec.seq
         /\ archived[w] \in Archived
         /\ archived[w].row = row[Key(w)]
<1>1. seen[w] # NoRow
  BY DEF Established, Blind
<1>2. row[Key(w)] = seen[w]
  BY <1>1 DEF IInv, SeenIsCurrent
<1> QED BY <1>1, <1>2 DEF IInv, WritesSupersede

\* A step that is not a commit leaves both tables alone.
LEMMA TablesOnlyChangeByCommit ==
  ASSUME [Next]_vars
  PROVE  \/ UNCHANGED <<row, history>>
         \/ \E w \in Writers, answer \in Results : Commit(w, answer)
<1>1. CASE UNCHANGED vars
  BY <1>1 DEF vars
<1>2. CASE Next
  BY <1>2 DEF Next, Execute, Fail, Begin, SelectNothing, SelectRow, RejectStale,
      RejectConflict, CommitUnchanged, Archive, Upsert, CommitAcknowledged,
      CommitUnacknowledged, Abort, Results
<1> QED BY <1>1, <1>2

\* The row of an established agent keeps or gains in sequence at every step.
LEMMA NeverRegressesStep ==
  ASSUME IInv, [Next]_vars, NEW a \in Agents, Established(a)
  PROVE  row'[a] = row[a] \/ (row'[a] # NoRow /\ row'[a].rec.seq > row[a].rec.seq)
<1>1. CASE UNCHANGED <<row, history>>
  BY <1>1
<1>2. ASSUME NEW w \in Writers, NEW answer \in Results, Commit(w, answer)
      PROVE  row'[a] = row[a] \/ (row'[a] # NoRow /\ row'[a].rec.seq > row[a].rec.seq)
  <2>1. CASE a # Key(w)
    BY <1>2, <2>1 DEF Commit, IInv, TypeOK
  <2>2. CASE a = Key(w)
    <3>1. pc[w] = "commit" /\ row'[a] = Upserted(w)
      BY <1>2, <2>2 DEF Commit, IInv, TypeOK
    <3>2. put[w].seq > row[a].rec.seq
      BY <3>1, <2>2, CommitOnEstablished
    <3>3. Upserted(w).rec = put[w]
      BY DEF Upserted
    <3>4. row' \in [Agents -> Rows \cup {NoRow}]
      BY TypeStep DEF IInv, TypeOK
    <3>5. Upserted(w) # NoRow
      <4>1. put[w] \in Records /\ start[w] \in Times
        BY <3>1 DEF IInv, PutsCarryRecords, TypeOK
      <4>2. row[a] \in Rows
        BY DEF Established, IInv, TypeOK
      <4>3. Upserted(w) \in Rows
        BY <4>1, <4>2, <2>2 DEF Upserted, Rows
      <4> QED BY <4>3, NoRowAssumption
    <3> QED BY <3>1, <3>2, <3>3, <3>5
  <2> QED BY <2>1, <2>2
<1> QED BY <1>1, <1>2, TablesOnlyChangeByCommit

\* Put never replaces an established row by one without a greater sequence.
THEOREM NeverRegressesAlways == Spec => NeverRegresses
<1>1. IInv /\ [Next]_vars =>
        [\A a \in Agents : Established(a) =>
           row'[a] = row[a] \/ (row'[a] # NoRow /\ row'[a].rec.seq > row[a].rec.seq)]_vars
  BY NeverRegressesStep
<1> QED BY <1>1, IInvInvariant, PTL DEF Spec, NeverRegresses

\* The history of an established agent grows exactly when its row is replaced,
\* by exactly the row replaced.
LEMMA ReplacedIsArchivedStep ==
  ASSUME IInv, [Next]_vars, NEW a \in Agents, Established(a)
  PROVE  \/ row'[a] = row[a] /\ history'[a] = history[a]
         \/ row'[a] # row[a] /\ \E t \in Times, i \in 0..nextId :
              history'[a] = Append(history[a], [row |-> row[a], archivedAt |-> t, id |-> i])
<1> DEFINE Goal ==
      \/ row'[a] = row[a] /\ history'[a] = history[a]
      \/ row'[a] # row[a] /\ \E t \in Times, i \in 0..nextId :
           history'[a] = Append(history[a], [row |-> row[a], archivedAt |-> t, id |-> i])
<1>1. CASE UNCHANGED <<row, history>>
  BY <1>1
<1>2. ASSUME NEW w \in Writers, NEW answer \in Results, Commit(w, answer)
      PROVE  Goal
  <2>1. CASE a # Key(w)
    BY <1>2, <2>1 DEF Commit, IInv, TypeOK
  <2>2. CASE a = Key(w)
    <3>1. archived[w] \in Archived /\ archived[w].row = row[a]
      BY <1>2, <2>2, CommitOnEstablished DEF Commit
    <3>2. archived[w] # NoRow
      BY <3>1, NoRowAssumption
    <3>3. archived[w].archivedAt \in Times /\ archived[w].id \in 0..nextId
      BY <3>1, <3>2 DEF Archived, IInv, ArchiveIds
    <3>4. archived[w] = [row |-> row[a], archivedAt |-> archived[w].archivedAt, id |-> archived[w].id]
      BY <3>1 DEF Archived
    <3>5. history'[a] = Append(history[a], archived[w])
      BY <1>2, <2>2, <3>2 DEF Commit, IInv, TypeOK
    <3>6. row'[a] # row[a]
      <4>1. row[a] \in Rows /\ put[w].seq > row[a].rec.seq /\ row'[a] = Upserted(w)
        BY <1>2, <2>2, CommitOnEstablished DEF Commit, Established, IInv, TypeOK
      <4>2. row[a].rec.seq \in Int
        BY <4>1 DEF Rows, Records
      <4>3. Upserted(w).rec.seq > row[a].rec.seq
        BY <4>1 DEF Upserted
      <4> QED BY <4>1, <4>2, <4>3
    <3> QED BY <3>3, <3>4, <3>5, <3>6
  <2> QED BY <2>1, <2>2
<1> QED BY <1>1, <1>2, TablesOnlyChangeByCommit

\* Archive and upsert take effect together on an established agent.
THEOREM ReplacedIsArchivedAlways == Spec => ReplacedIsArchived
<1>1. IInv /\ [Next]_vars =>
        [\A a \in Agents : Established(a) =>
           \/ row'[a] = row[a] /\ history'[a] = history[a]
           \/ row'[a] # row[a] /\ \E t \in Times, i \in 0..nextId :
                history'[a] = Append(history[a], [row |-> row[a], archivedAt |-> t, id |-> i])]_vars
  BY ReplacedIsArchivedStep
<1> QED BY <1>1, IInvInvariant, PTL DEF Spec, ReplacedIsArchived

-----------------------------------------------------------------------------
(* The refinement: every step is a step of SequencedRegister or stutters.      *)

\* A step of one writer concerns one agent: of every other agent the row and the
\* transactions that are blind on it stay as they are.
LEMMA StepIsLocal ==
  ASSUME IInv, Next
  PROVE  \E a \in Agents : \A b \in Agents \ {a} :
           row'[b] = row[b] /\ (Established(b)' <=> Established(b))
<1>1. ASSUME NEW w \in Writers, NEW a \in Agents, OthersUnchanged(w),
             \A b \in Agents \ {a} : row'[b] = row[b] /\ ~Blind(w, b) /\ ~Blind(w, b)'
      PROVE  \A b \in Agents \ {a} : row'[b] = row[b] /\ (Established(b)' <=> Established(b))
  <2> SUFFICES ASSUME NEW b \in Agents \ {a}
               PROVE  Established(b)' <=> Established(b)
    BY <1>1
  <2>1. \A v \in Writers \ {w} : Blind(v, b)' <=> Blind(v, b)
    BY <1>1 DEF OthersUnchanged, Blind, Key
  <2> QED BY <1>1, <2>1 DEF Established
<1> DEFINE Local == \E a \in Agents : \A b \in Agents \ {a} :
                      row'[b] = row[b] /\ (Established(b)' <=> Established(b))
<1>2. ASSUME NEW w \in Writers, NEW rec \in Records, Begin(w, rec)
      PROVE  Local
  <2>1. OthersUnchanged(w) /\ pc[w] = "idle" /\ pc'[w] = "select" /\ row' = row
    BY <1>2 DEF Begin, OthersUnchanged, IInv, TypeOK
  <2>2. rec.agent \in Agents /\ \A b \in Agents : ~Blind(w, b) /\ ~Blind(w, b)'
    BY <2>1 DEF Blind, Records
  <2> QED BY <1>1, <2>1, <2>2
<1>3. ASSUME NEW w \in Writers, pc[w] # "idle", OthersUnchanged(w), put'[w] = put[w],
             \A b \in Agents \ {Key(w)} : row'[b] = row[b]
      PROVE  Local
  <2>1. Key(w) \in Agents /\ \A b \in Agents \ {Key(w)} : ~Blind(w, b) /\ ~Blind(w, b)'
    BY <1>3 DEF Blind, Key, IInv, PutsCarryRecords, Records
  <2> QED BY <1>1, <1>3, <2>1
<1>4. ASSUME NEW w \in Writers, Execute(w) \/ Fail(w)
      PROVE  Local
  <2>1. pc[w] # "idle" /\ put'[w] = put[w]
    BY <1>4 DEF Execute, Fail, SelectNothing, SelectRow, RejectStale, RejectConflict,
       CommitUnchanged, Archive, Upsert, CommitAcknowledged, CommitUnacknowledged, Commit,
       Abort, Finish, Active
  <2>2. OthersUnchanged(w)
    BY <1>4 DEF Execute, Fail, SelectNothing, SelectRow, RejectStale, RejectConflict,
       CommitUnchanged, Archive, Upsert, CommitAcknowledged, CommitUnacknowledged, Commit,
       Abort, Finish, OthersUnchanged, IInv, TypeOK
  <2>3. \A b \in Agents \ {Key(w)} : row'[b] = row[b]
    BY <1>4 DEF Execute, Fail, SelectNothing, SelectRow, RejectStale, RejectConflict,
       CommitUnchanged, Archive, Upsert, CommitAcknowledged, CommitUnacknowledged, Commit,
       Abort, IInv, TypeOK
  <2> QED BY <1>3, <2>1, <2>2, <2>3
<1> QED BY <1>2, <1>4 DEF Next

\* Once established, an agent stays established: a later SELECT finds its row.
LEMMA EstablishedForGood ==
  ASSUME IInv, [Next]_vars, NEW a \in Agents, Established(a)
  PROVE  Established(a)'
<1>1. row'[a] # NoRow
  BY NeverRegressesStep DEF Established
<1>2. \A w \in Writers : ~Blind(w, a)'
  <2> SUFFICES ASSUME NEW w \in Writers, Blind(w, a)' PROVE FALSE
    OBVIOUS
  <2>1. pc'[w] \in Writing /\ put'[w].agent = a /\ seen'[w] = NoRow
    BY DEF Blind, Key, Writing
  <2>2. ~Blind(w, a) /\ row[a] # NoRow
    BY DEF Established
  <2>3. CASE UNCHANGED vars
    BY <2>1, <2>2, <2>3 DEF vars, Blind, Key, Writing
  <2>4. CASE Next
    <3>1. PICK v \in Writers : (\E rec \in Records : Begin(v, rec)) \/ Execute(v) \/ Fail(v)
      BY <2>4 DEF Next
    <3>2. CASE v # w
      BY <3>1, <3>2, <2>1, <2>2
      DEF Begin, Execute, Fail, SelectNothing, SelectRow, RejectStale, RejectConflict,
       CommitUnchanged, Archive, Upsert, CommitAcknowledged, CommitUnacknowledged, Commit,
       Abort, Finish, Blind, Key, Writing, IInv, TypeOK
    <3>3. CASE v = w
      BY <3>1, <3>3, <2>1, <2>2
      DEF Begin, Execute, Fail, SelectNothing, SelectRow, RejectStale, RejectConflict,
       CommitUnchanged, Archive, Upsert, CommitAcknowledged, CommitUnacknowledged, Commit,
       Abort, Finish, Blind, Key, Writing, IInv, TypeOK
    <3> QED BY <3>2, <3>3
  <2> QED BY <2>3, <2>4
<1> QED BY <1>1, <1>2 DEF Established

\* A row that is replaced is replaced by a row.
LEMMA RowsStay ==
  ASSUME IInv, [Next]_vars, NEW a \in Agents, row'[a] # row[a]
  PROVE  row'[a] \in Rows /\ row'[a].rec.agent = a
<1>1. row'[a] \in Rows \cup {NoRow}
  BY TypeStep DEF IInv, TypeOK
<1>2. row'[a] # NoRow /\ row'[a].rec.agent = a
  <2>1. PICK w \in Writers, answer \in Results : Commit(w, answer)
    BY TablesOnlyChangeByCommit
  <2>2. a = Key(w) /\ row'[a] = Upserted(w)
    BY <2>1 DEF Commit, IInv, TypeOK
  <2>3. Upserted(w) \in Rows
    BY <2>1, <2>2 DEF Commit, Upserted, Rows, Key, IInv, TypeOK, PutsCarryRecords, Active
  <2> QED BY <2>2, <2>3, NoRowAssumption DEF Upserted, Key
<1> QED BY <1>1, <1>2

LEMMA RegisterStarts == Init => Register!RegisterInit
  BY DEF Init, Register!RegisterInit, Visible, EstablishedAgents, Established

LEMMA RegisterStep == IInv /\ [Next]_vars => [Register!RegisterNext]_(Register!registerVars)
<1> SUFFICES ASSUME IInv, [Next]_vars
             PROVE  [Register!RegisterNext]_(Register!registerVars)
  OBVIOUS
<1>1. CASE UNCHANGED vars
  BY <1>1 DEF vars, Visible, EstablishedAgents, Established, Blind, Key, Register!registerVars
<1>2. CASE Next
  <2>1. PICK a \in Agents : \A b \in Agents \ {a} :
          row'[b] = row[b] /\ (Established(b)' <=> Established(b))
    BY <1>2, StepIsLocal
  <2>2. \A b \in Agents \ {a} : Visible'[b] = Visible[b]
    BY <2>1 DEF Visible
  <2>3. Visible'[a] = IF row'[a] = NoRow THEN NoRow ELSE row'[a].rec
    BY DEF Visible
  <2>4. Visible[a] = IF row[a] = NoRow THEN NoRow ELSE row[a].rec
    BY DEF Visible
  <2>5. EstablishedAgents' \in {EstablishedAgents, EstablishedAgents \cup {a}}
    <3>1. Established(a) => Established(a)'
      BY EstablishedForGood
    <3> QED BY <2>1, <3>1 DEF EstablishedAgents
  <2>6. CASE row'[a] = row[a]
    <3>1. UNCHANGED Visible
      BY <2>2, <2>3, <2>4, <2>6 DEF Visible
    <3>2. CASE EstablishedAgents' = EstablishedAgents
      BY <3>1, <3>2 DEF Register!registerVars
    <3>3. CASE EstablishedAgents' # EstablishedAgents
      <4>1. EstablishedAgents' = EstablishedAgents \cup {a} /\ Established(a)'
        BY <2>5, <3>3 DEF EstablishedAgents
      <4>2. row[a] # NoRow
        BY <2>6, <4>1 DEF Established
      <4>3. Visible[a] # NoRow
        BY <2>4, <4>2, NoRowAssumption DEF IInv, TypeOK, Rows
      <4>4. Register!Settle(a)
        BY <3>1, <4>1, <4>3 DEF Register!Settle
      <4> QED BY <4>4 DEF Register!RegisterNext
    <3> QED BY <3>2, <3>3
  <2>7. CASE row'[a] # row[a]
    <3>1. row'[a] \in Rows /\ row'[a].rec \in Register!Records /\ row'[a].rec.agent = a
      BY <2>7, RowsStay DEF Rows, Records, Register!Records
    <3>2. Visible' = [Visible EXCEPT ![a] = row'[a].rec]
      BY <2>2, <2>3, <3>1, NoRowAssumption DEF Visible
    <3>3. CASE Established(a)
      <4>1. EstablishedAgents' = EstablishedAgents /\ a \in EstablishedAgents
        BY <2>5, <3>3 DEF EstablishedAgents
      <4>2. row'[a].rec.seq > Visible[a].seq
        BY <2>4, <2>7, <3>3, NeverRegressesStep DEF Established
      <4>3. Register!Advance(row'[a].rec)
        BY <3>1, <3>2, <4>1, <4>2 DEF Register!Advance
      <4> QED BY <3>1, <4>3 DEF Register!RegisterNext, Register!Replace
    <3>4. CASE ~Established(a)
      <4>1. Register!Race(row'[a].rec)
        BY <2>5, <3>1, <3>2, <3>4 DEF Register!Race, EstablishedAgents
      <4> QED BY <3>1, <4>1 DEF Register!RegisterNext, Register!Replace
    <3> QED BY <3>3, <3>4
  <2> QED BY <2>6, <2>7
<1> QED BY <1>1, <1>2

\* The visible records of the index are a register that settles and then only
\* moves to greater sequences, whatever Put transactions run over it.
THEOREM Implementation == Spec => ImplementsRegister
  BY IInvInvariant, RegisterStarts, RegisterStep, PTL
  DEF Spec, ImplementsRegister, Register!RegisterSpec
==============================================================================
