---------------------------- MODULE AdminProofs ----------------------------
(* Theorems about Admin for any number of administrators and credentials:     *)
(* the revocation table and the audit log agree up to requests that are under *)
(* way or were answered with an error.                                        *)
EXTENDS Admin, TLAPS, FiniteSetTheorems

\* A request under way asks for a proper change.
Underway == \A a \in Admins : stage[a] # "idle" => change[a] \in Changes

\* Each time a change was stored has one event, one request about to append it, or
\* one that was answered with an error in its place.
Accounts == \A c \in Changes : made[c] = Events(c) + Appending(c) + lost[c]

\* Inductive.
IInv == TypeOK /\ Underway /\ Accounts

\* A change consists of a key and a status.
LEMMA ChangeFields ==
  ASSUME NEW c \in Changes
  PROVE  c.key \in Keys /\ c.status \in Revocations!Statuses /\ c = [key |-> c.key, status |-> c.status]
BY DEF Changes

-----------------------------------------------------------------------------
(* Counting                                                                   *)

\* Places of a change's events in the log, and requests about to append one.
Places(c) == {i \in DOMAIN log : log[i] = c}

Appenders(c) == {a \in Admins : stage[a] = "audit" /\ change[a] = c}

\* Events are counted by a number.
LEMMA EventsType ==
  ASSUME log \in Seq(Changes), NEW c
  PROVE  IsFiniteSet(Places(c)) /\ Events(c) = Cardinality(Places(c)) /\ Events(c) \in Nat
<1>1. Len(log) \in Nat /\ DOMAIN log = 1..Len(log)
  OBVIOUS
<1>2. IsFiniteSet(1..Len(log))
  BY <1>1, FS_Interval
<1>3. Places(c) \subseteq 1..Len(log)
  BY <1>1 DEF Places
<1>4. Events(c) = Cardinality(Places(c))
  BY DEF Events, Places
<1> QED BY <1>2, <1>3, <1>4, FS_Subset, FS_CardinalityType

\* An event that is appended is one more of its change.
LEMMA EventsAppend ==
  ASSUME log \in Seq(Changes), NEW e \in Changes, log' = Append(log, e), NEW c
  PROVE  Events(c)' = Events(c) + IF e = c THEN 1 ELSE 0
<1> DEFINE n == Len(log)
<1>1. /\ n \in Nat /\ DOMAIN log = 1..n /\ DOMAIN log' = 1..(n + 1)
      /\ log'[n + 1] = e /\ \A i \in 1..n : log'[i] = log[i]
  OBVIOUS
<1>2. IsFiniteSet(Places(c)) /\ Events(c) = Cardinality(Places(c)) /\ Events(c) \in Nat
  BY EventsType
<1>3. {i \in DOMAIN log' : log'[i] = c} = IF e = c THEN Places(c) \cup {n + 1} ELSE Places(c)
  BY <1>1 DEF Places
<1>4. n + 1 \notin Places(c)
  BY <1>1 DEF Places
<1>5. Cardinality(Places(c) \cup {n + 1}) = Cardinality(Places(c)) + 1
  BY <1>2, <1>4, FS_AddElement
<1>6. Events(c)' = Cardinality({i \in DOMAIN log' : log'[i] = c})
  BY DEF Events
<1>7. CASE e = c
  BY <1>2, <1>3, <1>5, <1>6, <1>7
<1>8. CASE e # c
  <2>1. {i \in DOMAIN log' : log'[i] = c} = Places(c)
    BY <1>3, <1>8
  <2>2. Events(c)' = Events(c)
    BY <1>2, <1>6, <2>1
  <2> QED BY <1>2, <1>8, <2>2
<1> QED BY <1>7, <1>8

\* Requests about to append are counted by a number.
LEMMA AppendersType ==
  ASSUME NEW c
  PROVE  /\ IsFiniteSet(Appenders(c))
         /\ Appending(c) = Cardinality(Appenders(c)) /\ Appending(c) \in Nat
<1>1. Appenders(c) \subseteq Admins
  BY DEF Appenders
<1>2. Appending(c) = Cardinality(Appenders(c))
  BY DEF Appending, Appenders
<1> QED BY <1>1, <1>2, AdminsAssumption, FS_Subset, FS_CardinalityType

\* The requests about to append stay the same.
LEMMA AppendersSame ==
  ASSUME NEW c,
         \A b \in Admins : /\ stage'[b] = "audit" <=> stage[b] = "audit"
                           /\ stage[b] = "audit" => change'[b] = change[b]
  PROVE  Appending(c)' = Appending(c)
<1>1. {b \in Admins : stage'[b] = "audit" /\ change'[b] = c} = Appenders(c)
  BY DEF Appenders
<1>2. Appending(c)' = Cardinality({b \in Admins : stage'[b] = "audit" /\ change'[b] = c})
  BY DEF Appending
<1> QED BY <1>1, <1>2, AppendersType

\* One more, after the upsert, and one less, after the append.
LEMMA AppendersGrow ==
  ASSUME NEW a \in Admins, stage[a] # "audit", stage'[a] = "audit",
         change' = change, \A b \in Admins \ {a} : stage'[b] = stage[b], NEW c
  PROVE  Appending(c)' = Appending(c) + IF change[a] = c THEN 1 ELSE 0
<1>1. /\ IsFiniteSet(Appenders(c))
      /\ Appending(c) = Cardinality(Appenders(c)) /\ Appending(c) \in Nat
  BY AppendersType
<1>2. {b \in Admins : stage'[b] = "audit" /\ change'[b] = c}
        = IF change[a] = c THEN Appenders(c) \cup {a} ELSE Appenders(c)
  BY DEF Appenders
<1>3. a \notin Appenders(c)
  BY DEF Appenders
<1>4. Cardinality(Appenders(c) \cup {a}) = Cardinality(Appenders(c)) + 1
  BY <1>1, <1>3, FS_AddElement
<1>5. Appending(c)' = Cardinality({b \in Admins : stage'[b] = "audit" /\ change'[b] = c})
  BY DEF Appending
<1>6. CASE change[a] = c
  BY <1>1, <1>2, <1>4, <1>5, <1>6
<1>7. CASE change[a] # c
  <2>1. {b \in Admins : stage'[b] = "audit" /\ change'[b] = c} = Appenders(c)
    BY <1>2, <1>7
  <2>2. Appending(c)' = Appending(c)
    BY <1>1, <1>5, <2>1
  <2> QED BY <1>1, <1>7, <2>2
<1> QED BY <1>6, <1>7

LEMMA AppendersShrink ==
  ASSUME NEW a \in Admins, stage[a] = "audit", stage'[a] # "audit",
         change' = change, \A b \in Admins \ {a} : stage'[b] = stage[b], NEW c
  PROVE  /\ Appending(c)' \in Nat
         /\ Appending(c) = Appending(c)' + IF change[a] = c THEN 1 ELSE 0
<1> DEFINE rest == {b \in Admins : stage'[b] = "audit" /\ change'[b] = c}
<1>1. Appending(c)' = Cardinality(rest)
  BY DEF Appending
<1>2. Appenders(c) = IF change[a] = c THEN rest \cup {a} ELSE rest
  BY DEF Appenders
<1>3. a \notin rest /\ rest \subseteq Admins
  OBVIOUS
<1> HIDE DEF rest
<1>4. IsFiniteSet(rest) /\ Cardinality(rest) \in Nat
  BY <1>3, AdminsAssumption, FS_Subset, FS_CardinalityType
<1>5. Cardinality(rest \cup {a}) = Cardinality(rest) + 1
  BY <1>3, <1>4, FS_AddElement
<1>6. Appending(c) = Cardinality(Appenders(c))
  BY AppendersType
<1>7. CASE change[a] = c
  BY <1>1, <1>2, <1>4, <1>5, <1>6, <1>7
<1>8. CASE change[a] # c
  BY <1>1, <1>2, <1>4, <1>6, <1>8
<1> QED BY <1>7, <1>8

-----------------------------------------------------------------------------
(* The inductive invariant                                                    *)

\* The initial state satisfies the invariant.
LEMMA InitIInv == Init => IInv
<1> SUFFICES ASSUME Init PROVE IInv
  OBVIOUS
<1>1. TypeOK
  BY MaxRequestsAssumption DEF Init, TypeOK, Revocations!RevocationsInit, Log!Init,
     Revocations!RevocationsTypeOK
<1>2. Underway
  BY DEF Init, Underway
<1>3. ASSUME NEW c \in Changes PROVE made[c] = Events(c) + Appending(c) + lost[c]
  <2>1. Places(c) = {} /\ Appenders(c) = {}
    BY DEF Init, Log!Init, Places, Appenders
  <2>2. Events(c) = 0
    BY <1>1, <2>1, EventsType, FS_EmptySet DEF TypeOK
  <2>3. Appending(c) = 0
    BY <2>1, AppendersType, FS_EmptySet
  <2> QED BY <2>2, <2>3 DEF Init
<1> QED BY <1>1, <1>2, <1>3 DEF IInv, Accounts

\* Storing a change, with or without its acknowledgement, keeps the table typed.
LEMMA StoreTyped ==
  ASSUME NEW c \in Changes, Revocations!RevocationsTypeOK, Revocations!SetStatus(c.key, c.status)
  PROVE  /\ Revocations!RevocationsTypeOK'
         /\ Standing(c.key)' = c
         /\ \A k \in Keys \ {c.key} : revocations'[k] = revocations[k]
BY ChangeFields DEF Revocations!RevocationsTypeOK, Revocations!SetStatus, Standing

\* A request arrives.
LEMMA ReceiveStep ==
  ASSUME IInv, NEW a \in Admins, NEW c \in Changes, Receive(a, c)
  PROVE  IInv'
<1>1. Len(log) \in Nat
  BY DEF IInv, TypeOK
<1>2. since' \in [Keys -> Nat] /\ overlapped' \subseteq Keys /\ failed' \subseteq Keys
  BY <1>1, ChangeFields DEF IInv, TypeOK, Receive, BeginRound, JoinRound
<1>3. TypeOK'
  BY <1>2, MaxRequestsAssumption DEF IInv, TypeOK, Receive, Revocations!RevocationsTypeOK
<1>4. Underway'
  BY DEF IInv, TypeOK, Underway, Receive
<1>5. ASSUME NEW d \in Changes PROVE (made[d] = Events(d) + Appending(d) + lost[d])'
  <2>1. Events(d)' = Events(d) /\ made' = made /\ lost' = lost
    BY DEF Receive, Events
  <2>2. Appending(d)' = Appending(d)
    BY AppendersSame DEF IInv, TypeOK, Receive
  <2> QED BY <2>1, <2>2 DEF IInv, Accounts
<1> QED BY <1>3, <1>4, <1>5 DEF IInv, Accounts

\* A change that is stored is stored once more, the others are not.
LEMMA UpsertCounts ==
  ASSUME made \in [Changes -> Nat], NEW c \in Changes, Upsert(c)
  PROVE  /\ made' \in [Changes -> Nat]
         /\ \A d \in Changes : made'[d] = made[d] + IF c = d THEN 1 ELSE 0
BY DEF Upsert

\* The upsert takes effect and the request goes on to its event.
LEMMA StoreStep ==
  ASSUME IInv, NEW a \in Admins, Store(a)
  PROVE  IInv'
<1>1. PICK c \in Changes : c = change[a]
  BY DEF IInv, Underway, Store
<1>2. /\ stage[a] = "store" /\ stage' = [stage EXCEPT ![a] = "audit"]
      /\ UNCHANGED <<log, requests, change, reply, lost, since, overlapped, failed>>
      /\ Upsert(c)
  BY <1>1 DEF Store, rounds
<1>3. Revocations!RevocationsTypeOK'
  BY <1>2, StoreTyped DEF IInv, TypeOK, Upsert
<1>4. /\ made' \in [Changes -> Nat]
      /\ \A d \in Changes : made'[d] = made[d] + IF c = d THEN 1 ELSE 0
  BY <1>2, UpsertCounts DEF IInv, TypeOK
<1>5. stage \in [Admins -> {"idle", "store", "audit"}]
  BY DEF IInv, TypeOK
<1>6. TypeOK'
  BY <1>2, <1>3, <1>4 DEF IInv, TypeOK
<1>7. Underway'
  BY <1>1, <1>2, <1>5 DEF IInv, Underway
<1>8. ASSUME NEW d \in Changes PROVE (made[d] = Events(d) + Appending(d) + lost[d])'
  <2>1. Events(d)' = Events(d) /\ lost' = lost
    BY <1>2 DEF Events
  <2>2. Appending(d)' = Appending(d) + IF c = d THEN 1 ELSE 0
    BY <1>1, <1>2, <1>5, AppendersGrow
  <2>3. Events(d) \in Nat /\ Appending(d) \in Nat /\ lost[d] \in Nat /\ made[d] \in Nat
    BY EventsType, AppendersType DEF IInv, TypeOK
  <2>4. made[d] = Events(d) + Appending(d) + lost[d]
    BY DEF IInv, Accounts
  <2>5. CASE c = d
    BY <1>4, <2>1, <2>2, <2>3, <2>4, <2>5
  <2>6. CASE c # d
    BY <1>4, <2>1, <2>2, <2>3, <2>4, <2>6
  <2> QED BY <2>5, <2>6
<1> QED BY <1>6, <1>7, <1>8 DEF IInv, Accounts

\* A request that is answered leaves the other requests and keys alone.
LEMMA AnswerTyped ==
  ASSUME IInv, NEW a \in Admins, NEW answer \in {"ok", "error"}, stage[a] # "idle", Answer(a, answer)
  PROVE  /\ stage' \in [Admins -> {"idle", "store", "audit"}]
         /\ reply' \in [Admins -> {"none", "ok", "error"}]
         /\ failed' \subseteq Keys
         /\ Underway'
         /\ UNCHANGED <<requests, change, since, overlapped>>
         /\ stage'[a] = "idle" /\ \A b \in Admins \ {a} : stage'[b] = stage[b]
<1>1. change[a] \in Changes
  BY DEF IInv, Underway
<1>2. failed' \subseteq Keys
  BY <1>1, ChangeFields DEF IInv, TypeOK, Answer
<1>3. Underway'
  BY DEF IInv, TypeOK, Underway, Answer
<1> QED BY <1>2, <1>3 DEF IInv, TypeOK, Answer

\* The upsert fails, or takes effect unnoticed.
LEMMA FailStoreStep ==
  ASSUME IInv, NEW a \in Admins, FailStore(a)
  PROVE  IInv'
<1>1. PICK c \in Changes : c = change[a]
  BY DEF IInv, Underway, FailStore
<1>2. /\ stage[a] = "store" /\ Answer(a, "error") /\ UNCHANGED log
      /\ \/ Upsert(c) /\ lost' = [lost EXCEPT ![c] = @ + 1]
         \/ UNCHANGED <<revocations, made, lost>>
  BY <1>1 DEF FailStore
<1>3. /\ stage' \in [Admins -> {"idle", "store", "audit"}]
      /\ reply' \in [Admins -> {"none", "ok", "error"}]
      /\ failed' \subseteq Keys
      /\ Underway'
      /\ UNCHANGED <<requests, change, since, overlapped>>
      /\ stage'[a] = "idle" /\ \A b \in Admins \ {a} : stage'[b] = stage[b]
  BY <1>2, AnswerTyped
<1>4. made \in [Changes -> Nat] /\ lost \in [Changes -> Nat] /\ Revocations!RevocationsTypeOK
  BY DEF IInv, TypeOK
<1>5. /\ Revocations!RevocationsTypeOK'
      /\ made' \in [Changes -> Nat] /\ lost' \in [Changes -> Nat]
      /\ \A d \in Changes : \/ made'[d] = made[d] + 1 /\ lost'[d] = lost[d] + 1
                            \/ made'[d] = made[d] /\ lost'[d] = lost[d]
  <2>1. CASE Upsert(c) /\ lost' = [lost EXCEPT ![c] = @ + 1]
    <3>1. Revocations!RevocationsTypeOK'
      BY <1>4, <2>1, StoreTyped DEF Upsert
    <3> QED BY <1>4, <2>1, <3>1 DEF Upsert
  <2>2. CASE UNCHANGED <<revocations, made, lost>>
    BY <1>4, <2>2 DEF Revocations!RevocationsTypeOK
  <2> QED BY <1>2, <2>1, <2>2
<1>6. TypeOK'
  BY <1>2, <1>3, <1>5 DEF IInv, TypeOK
<1>7. ASSUME NEW d \in Changes PROVE (made[d] = Events(d) + Appending(d) + lost[d])'
  <2>1. Events(d)' = Events(d)
    BY <1>2 DEF Events
  <2>2. Appending(d)' = Appending(d)
    BY <1>2, <1>3, AppendersSame
  <2>3. Events(d) \in Nat /\ Appending(d) \in Nat /\ lost[d] \in Nat /\ made[d] \in Nat
    BY EventsType, AppendersType DEF IInv, TypeOK
  <2>4. made[d] = Events(d) + Appending(d) + lost[d]
    BY DEF IInv, Accounts
  <2> QED BY <1>5, <2>1, <2>2, <2>3, <2>4
<1> QED BY <1>3, <1>6, <1>7 DEF IInv, Accounts

\* The request is answered, with its event in the log or one more change without one.
LEMMA AuditStep ==
  ASSUME IInv, NEW a \in Admins, NEW answer \in {"ok", "error"}, stage[a] = "audit",
         \/ log' = Append(log, change[a]) /\ lost' = lost
         \/ log' = log /\ lost' = [lost EXCEPT ![change[a]] = @ + 1],
         Answer(a, answer), UNCHANGED <<revocations, made>>
  PROVE  IInv'
<1>1. PICK c \in Changes : c = change[a]
  BY DEF IInv, Underway
<1>2. /\ stage' \in [Admins -> {"idle", "store", "audit"}]
      /\ reply' \in [Admins -> {"none", "ok", "error"}]
      /\ failed' \subseteq Keys
      /\ Underway'
      /\ UNCHANGED <<requests, change, since, overlapped>>
      /\ stage'[a] = "idle" /\ \A b \in Admins \ {a} : stage'[b] = stage[b]
  BY AnswerTyped
<1>3. log \in Seq(Changes) /\ lost \in [Changes -> Nat]
  BY DEF IInv, TypeOK
<1>4. log' \in Seq(Changes) /\ lost' \in [Changes -> Nat]
  <2>1. Append(log, c) \in Seq(Changes)
    BY <1>3
  <2>2. [lost EXCEPT ![c] = @ + 1] \in [Changes -> Nat]
    BY <1>3
  <2> QED BY <1>1, <1>3, <2>1, <2>2
<1>5. TypeOK'
  BY <1>2, <1>4 DEF IInv, TypeOK, Revocations!RevocationsTypeOK
<1>6. ASSUME NEW d \in Changes PROVE (made[d] = Events(d) + Appending(d) + lost[d])'
  <2>1. Appending(d)' \in Nat /\ Appending(d) = Appending(d)' + IF c = d THEN 1 ELSE 0
    BY <1>1, <1>2, AppendersShrink
  <2>2. Events(d) \in Nat /\ lost[d] \in Nat /\ made[d] \in Nat
    BY <1>3, EventsType DEF IInv, TypeOK
  <2>3. Events(d)' + lost'[d] = Events(d) + lost[d] + IF c = d THEN 1 ELSE 0
    <3>1. CASE log' = Append(log, c) /\ lost' = lost
      <4>1. Events(d)' = Events(d) + IF c = d THEN 1 ELSE 0
        BY <1>3, <3>1, EventsAppend
      <4> QED BY <2>2, <3>1, <4>1
    <3>2. CASE log' = log /\ lost' = [lost EXCEPT ![c] = @ + 1]
      <4>1. Events(d)' = Events(d)
        BY <3>2 DEF Events
      <4>2. lost'[d] = lost[d] + IF c = d THEN 1 ELSE 0
        BY <1>3, <3>2
      <4> QED BY <2>2, <4>1, <4>2
    <3> QED BY <1>1, <3>1, <3>2
  <2>4. Events(d)' \in Nat /\ lost'[d] \in Nat
    <3>1. CASE log' = Append(log, c) /\ lost' = lost
      <4>1. Events(d)' = Events(d) + IF c = d THEN 1 ELSE 0
        BY <1>3, <3>1, EventsAppend
      <4> QED BY <2>2, <3>1, <4>1
    <3>2. CASE log' = log /\ lost' = [lost EXCEPT ![c] = @ + 1]
      <4>1. Events(d)' = Events(d)
        BY <3>2 DEF Events
      <4> QED BY <1>4, <2>2, <4>1
    <3> QED BY <1>1, <3>1, <3>2
  <2>5. made[d] = Events(d) + Appending(d) + lost[d]
    BY DEF IInv, Accounts
  <2>6. made'[d] = made[d] /\ Appending(d) \in Nat /\ Appending(d)' \in Nat
    BY <2>1, AppendersType
  <2>7. made'[d] = Events(d)' + Appending(d)' + lost'[d]
    <3>1. \/ Appending(d) = Appending(d)' + 1 /\ Events(d)' + lost'[d] = Events(d) + lost[d] + 1
          \/ Appending(d) = Appending(d)' /\ Events(d)' + lost'[d] = Events(d) + lost[d]
      BY <2>1, <2>2, <2>3
    <3> DEFINE e == Events(d)  p == Appending(d)  l == lost[d]
               e1 == Events(d)'  p1 == Appending(d)'  l1 == lost'[d]
    <3>2. e \in Nat /\ p \in Nat /\ l \in Nat /\ e1 \in Nat /\ p1 \in Nat /\ l1 \in Nat
      BY <2>2, <2>4, <2>6
    <3>3. made[d] = e + p + l
      BY <2>5
    <3>4. (p = p1 + 1 /\ e1 + l1 = e + l + 1) \/ (p = p1 /\ e1 + l1 = e + l)
      BY <3>1
    <3> HIDE DEF e, p, l, e1, p1, l1
    <3>5. made[d] = e1 + p1 + l1
      BY <3>2, <3>3, <3>4
    <3> QED BY <2>6, <3>5 DEF e1, p1, l1
  <2> QED BY <2>7
<1> QED BY <1>2, <1>5, <1>6 DEF IInv, Accounts

\* Every step preserves the invariant.
LEMMA NextIInv == IInv /\ [Next]_vars => IInv'
<1> SUFFICES ASSUME IInv, [Next]_vars PROVE IInv'
  OBVIOUS
<1>1. ASSUME NEW a \in Admins, NEW c \in Changes, Receive(a, c) PROVE IInv'
  BY <1>1, ReceiveStep
<1>2. ASSUME NEW a \in Admins, Store(a) PROVE IInv'
  BY <1>2, StoreStep
<1>3. ASSUME NEW a \in Admins, FailStore(a) PROVE IInv'
  BY <1>3, FailStoreStep
<1>4. ASSUME NEW a \in Admins, AppendAudit(a) PROVE IInv'
  <2>1. /\ stage[a] = "audit" /\ log' = Append(log, change[a]) /\ lost' = lost
        /\ Answer(a, "ok") /\ UNCHANGED <<revocations, made>>
    BY <1>4 DEF AppendAudit, Log!AppendEntry
  <2> QED BY <2>1, AuditStep
<1>5. ASSUME NEW a \in Admins, FailAudit(a) PROVE IInv'
  <2>1. /\ stage[a] = "audit"
        /\ \/ log' = Append(log, change[a]) /\ lost' = lost
           \/ log' = log /\ lost' = [lost EXCEPT ![change[a]] = @ + 1]
        /\ Answer(a, "error") /\ UNCHANGED <<revocations, made>>
    BY <1>5 DEF FailAudit, Log!AppendEntry
  <2> QED BY <2>1, AuditStep
<1>6. CASE UNCHANGED vars
  BY <1>6 DEF vars, rounds, IInv, TypeOK, Underway, Accounts, Events, Appending,
     Revocations!RevocationsTypeOK
<1> QED BY <1>1, <1>2, <1>3, <1>4, <1>5, <1>6 DEF Next, Proceed

\* The invariant holds in every reachable state.
LEMMA IInvAlways == Spec => []IInv
BY InitIInv, NextIInv, PTL DEF Spec

\* Every reachable state is well typed.
THEOREM TypeCorrect == Spec => []TypeOK
<1>1. IInv => TypeOK
  BY DEF IInv
<1> QED BY IInvAlways, <1>1, PTL

\* What the invariant says of the two properties, one change at a time.
LEMMA AccountsBalance ==
  ASSUME IInv
  PROVE  StatusIsAudited /\ AuditedWasMade
<1> SUFFICES ASSUME NEW c \in Changes
             PROVE  /\ made[c] <= Events(c) + Appending(c) + lost[c]
                    /\ Events(c) + Appending(c) <= made[c]
  BY DEF StatusIsAudited, AuditedWasMade
<1>1. Events(c) \in Nat /\ Appending(c) \in Nat /\ lost[c] \in Nat /\ made[c] \in Nat
  BY EventsType, AppendersType DEF IInv, TypeOK
<1>2. made[c] = Events(c) + Appending(c) + lost[c]
  BY DEF IInv, Accounts
<1> QED BY <1>1, <1>2

\* Every time a change is stored it gets an event of its own, unless the request that
\* stored it is about to append that or was answered with an error
\* (SetRevocationStatus).
THEOREM StatusIsAuditedAlways == Spec => []StatusIsAudited
<1>1. IInv => StatusIsAudited
  BY AccountsBalance
<1> QED BY IInvAlways, <1>1, PTL

\* No change of a revocation status has more audit events than times it was stored.
THEOREM AuditedWasMadeAlways == Spec => []AuditedWasMade
<1>1. IInv => AuditedWasMade
  BY AccountsBalance
<1> QED BY IInvAlways, <1>1, PTL

-----------------------------------------------------------------------------
(* The latest event                                                           *)

\* The table and the log agree on a key.
Agrees(k) == revocations[k] = "none" \/ LatestEvents(k) = {Standing(k)}

\* The round of a key is one request, and the log lacks at most its event.
OneByOne(k) ==
  /\ \A a, b \in Admins :
       stage[a] # "idle" /\ change[a].key = k /\ stage[b] # "idle" /\ change[b].key = k => a = b
  /\ \A a \in Admins : stage[a] = "audit" /\ change[a].key = k => change[a] = Standing(k)
  /\ Agrees(k) \/ Busy(k)

\* The status of a key has its event in this round, or will have it, or will be changed.
Recorded(k) ==
  \/ revocations[k] = "none"
  \/ \E i \in DOMAIN log : i > since[k] /\ log[i] = Standing(k)
  \/ \E a \in Admins : stage[a] = "audit" /\ change[a] = Standing(k)
  \/ \E a \in Admins : stage[a] = "store" /\ change[a].key = k

KeyInStep(k) ==
  /\ since[k] <= Len(log)
  /\ k \notin failed => Recorded(k)
  /\ k \notin failed /\ k \notin overlapped => OneByOne(k)

\* Inductive, together with IInv.
InStep == \A k \in Keys : KeyInStep(k)

\* A log that grows at its end keeps what it has where it is.
LEMMA LogKept ==
  ASSUME log \in Seq(Changes), NEW c \in Changes, log' = Append(log, c) \/ UNCHANGED log
  PROVE  /\ Len(log) \in Nat /\ Len(log') \in Nat /\ Len(log) <= Len(log')
         /\ \A i \in DOMAIN log : i \in DOMAIN log' /\ log'[i] = log[i]
<1>1. Len(log) \in Nat /\ DOMAIN log = 1..Len(log)
  OBVIOUS
<1>2. CASE log' = Append(log, c)
  <2>1. /\ Len(log') = Len(log) + 1 /\ DOMAIN log' = 1..(Len(log) + 1)
        /\ \A i \in 1..Len(log) : log'[i] = log[i]
    BY <1>2
  <2> QED BY <1>1, <2>1
<1>3. CASE UNCHANGED log
  BY <1>1, <1>3
<1> QED BY <1>2, <1>3

\* An appended event is the latest of its key and leaves the other keys alone.
LEMMA AppendedIsLatest ==
  ASSUME NEW c \in Changes, log \in Seq(Changes), log' = Append(log, c), NEW k
  PROVE  LatestEvents(k)' = IF c.key = k THEN {c} ELSE LatestEvents(k)
<1> DEFINE n == Len(log)
           latest == {j \in DOMAIN log : log[j].key = k /\ \A h \in DOMAIN log : h > j => log[h].key # k}
           latestNow == {j \in DOMAIN log' : log'[j].key = k /\ \A h \in DOMAIN log' : h > j => log'[h].key # k}
<1>1. /\ n \in Nat /\ DOMAIN log = 1..n /\ DOMAIN log' = 1..(n + 1)
      /\ log'[n + 1] = c /\ \A i \in 1..n : log'[i] = log[i]
  OBVIOUS
<1>2. LatestEvents(k) = {log[i] : i \in latest} /\ LatestEvents(k)' = {log'[i] : i \in latestNow}
  BY DEF LatestEvents
<1>3. CASE c.key = k
  <2>1. latestNow = {n + 1}
    BY <1>1, <1>3
  <2> QED BY <1>1, <1>2, <1>3, <2>1
<1>4. CASE c.key # k
  <2>1. latestNow = latest
    BY <1>1, <1>4
  <2>2. \A i \in latest : log'[i] = log[i]
    BY <1>1
  <2> HIDE DEF latest, latestNow
  <2>3. {log'[i] : i \in latest} = {log[i] : i \in latest}
    BY <2>2
  <2> QED BY <1>2, <1>4, <2>1, <2>3
<1> QED BY <1>3, <1>4

\* A step that leaves a key's row, its events, its round and its requests as they are.
LEMMA Untouched ==
  ASSUME NEW k \in Keys, KeyInStep(k), IInv, NEW c \in Changes,
         revocations'[k] = revocations[k], since'[k] = since[k],
         k \in failed' <=> k \in failed, k \in overlapped' <=> k \in overlapped,
         (log' = Append(log, c) /\ c.key # k) \/ UNCHANGED log,
         \A b \in Admins : \/ stage'[b] = stage[b] /\ change'[b] = change[b]
                           \/ /\ stage[b] = "idle" \/ change[b].key # k
                              /\ stage'[b] = "idle" \/ change'[b].key # k
  PROVE  KeyInStep(k)'
<1>1. Standing(k)' = Standing(k) /\ Standing(k).key = k
  BY DEF Standing
<1>2. /\ Len(log) \in Nat /\ Len(log') \in Nat /\ Len(log) <= Len(log')
      /\ \A i \in DOMAIN log : i \in DOMAIN log' /\ log'[i] = log[i]
      /\ since[k] \in Nat
  BY LogKept DEF IInv, TypeOK
<1>3. LatestEvents(k)' = LatestEvents(k)
  <2>1. CASE log' = Append(log, c) /\ c.key # k
    BY <2>1, AppendedIsLatest DEF IInv, TypeOK
  <2>2. CASE UNCHANGED log
    BY <2>2 DEF LatestEvents
  <2> QED BY <2>1, <2>2
<1>4. Recorded(k) => Recorded(k)'
  <2>1. ASSUME NEW b \in Admins, stage[b] = "audit", change[b] = Standing(k)
        PROVE  stage'[b] = "audit" /\ change'[b] = Standing(k)'
    BY <1>1, <2>1
  <2>2. ASSUME NEW b \in Admins, stage[b] = "store", change[b].key = k
        PROVE  stage'[b] = "store" /\ change'[b].key = k
    BY <2>2
  <2>3. ASSUME NEW i \in DOMAIN log, i > since[k], log[i] = Standing(k)
        PROVE  i \in DOMAIN log' /\ i > since'[k] /\ log'[i] = Standing(k)'
    BY <1>1, <1>2, <2>3
  <2>4. revocations[k] = "none" => revocations'[k] = "none"
    OBVIOUS
  <2> QED BY <2>1, <2>2, <2>3, <2>4 DEF Recorded
<1>5. OneByOne(k) => OneByOne(k)'
  <2>1. Agrees(k) => Agrees(k)'
    BY <1>1, <1>3 DEF Agrees
  <2>2. Busy(k) => Busy(k)'
    BY DEF Busy
  <2> QED BY <1>1, <2>1, <2>2 DEF OneByOne
<1>6. since'[k] <= Len(log')
  BY <1>2 DEF KeyInStep
<1> QED BY <1>4, <1>5, <1>6 DEF KeyInStep

\* A request that arrives begins a round of its own, or its key is overlapped.
LEMMA ReceiveInStep ==
  ASSUME IInv, InStep, NEW a \in Admins, NEW c \in Changes, Receive(a, c)
  PROVE  InStep'
<1> SUFFICES ASSUME NEW k \in Keys PROVE KeyInStep(k)'
  BY DEF InStep
<1>1. /\ stage[a] = "idle" /\ stage'[a] = "store" /\ change'[a] = c
      /\ \A b \in Admins \ {a} : stage'[b] = stage[b] /\ change'[b] = change[b]
      /\ UNCHANGED <<revocations, log>>
      /\ BeginRound(c.key) \/ JoinRound(c.key)
  BY DEF Receive, IInv, TypeOK
<1>2. KeyInStep(k) /\ c.key \in Keys /\ since \in [Keys -> Nat] /\ Len(log) \in Nat
  BY ChangeFields DEF InStep, IInv, TypeOK
<1>3. CASE c.key # k
  <2>1. /\ since'[k] = since[k]
        /\ (k \in failed' <=> k \in failed) /\ (k \in overlapped' <=> k \in overlapped)
    BY <1>1, <1>2, <1>3 DEF BeginRound, JoinRound
  <2> QED BY <1>1, <1>2, <1>3, <2>1, Untouched
<1>4. CASE c.key = k
  <2>1. Recorded(k)'
    BY <1>1, <1>4 DEF Recorded
  <2>2. CASE BeginRound(k)
    <3>1. since'[k] <= Len(log')
      BY <1>1, <1>2, <2>2 DEF BeginRound
    <3>2. \A b \in Admins \ {a} : stage'[b] = "idle" \/ change'[b].key # k
      BY <1>1, <2>2 DEF BeginRound, Busy
    <3>3. Busy(k)'
      BY <1>1, <1>4 DEF Busy
    <3>4. OneByOne(k)'
      BY <1>1, <3>2, <3>3 DEF OneByOne
    <3> QED BY <2>1, <3>1, <3>4 DEF KeyInStep
  <2>3. CASE JoinRound(k)
    <3>1. since'[k] <= Len(log')
      BY <1>1, <1>2, <2>3 DEF JoinRound, KeyInStep
    <3>2. k \in overlapped'
      BY <2>3 DEF JoinRound
    <3> QED BY <2>1, <3>1, <3>2 DEF KeyInStep
  <2> QED BY <1>1, <1>4, <2>2, <2>3
<1> QED BY <1>3, <1>4

\* The change that is stored is the one whose event is next.
LEMMA StoreInStep ==
  ASSUME IInv, InStep, NEW a \in Admins, Store(a)
  PROVE  InStep'
<1> SUFFICES ASSUME NEW k \in Keys PROVE KeyInStep(k)'
  BY DEF InStep
<1>1. PICK c \in Changes : c = change[a]
  BY DEF IInv, Underway, Store
<1>2. /\ stage[a] = "store" /\ stage'[a] = "audit"
      /\ \A b \in Admins \ {a} : stage'[b] = stage[b]
      /\ UNCHANGED <<log, change, failed, overlapped, since>>
      /\ Revocations!SetStatus(c.key, c.status)
  BY <1>1 DEF Store, Upsert, IInv, TypeOK, rounds
<1>3. KeyInStep(k)
  BY DEF InStep
<1>4. Standing(c.key)' = c /\ \A j \in Keys \ {c.key} : revocations'[j] = revocations[j]
  BY <1>2, StoreTyped DEF IInv, TypeOK
<1>5. CASE c.key # k
  BY <1>1, <1>2, <1>3, <1>4, <1>5, Untouched
<1>6. CASE c.key = k
  <2>1. stage'[a] = "audit" /\ change'[a] = Standing(k)'
    BY <1>1, <1>2, <1>4, <1>6
  <2>2. Recorded(k)'
    BY <2>1 DEF Recorded
  <2>3. Busy(k)'
    BY <1>1, <1>2, <1>6 DEF Busy
  <2>4. OneByOne(k) => OneByOne(k)'
    BY <1>1, <1>2, <1>6, <2>1, <2>3 DEF OneByOne
  <2> QED BY <1>2, <1>3, <2>2, <2>4 DEF KeyInStep
<1> QED BY <1>5, <1>6

\* A request that is answered, its change stored or not, its event appended or not.
LEMMA AnswerInStep ==
  ASSUME IInv, InStep, NEW a \in Admins, NEW c \in Changes, c = change[a],
         NEW answer \in {"ok", "error"}, stage[a] # "idle", Answer(a, answer),
         log' = Append(log, c) \/ UNCHANGED log,
         \A k \in Keys \ {c.key} : revocations'[k] = revocations[k],
         \/ answer = "error"
         \/ stage[a] = "audit" /\ log' = Append(log, c) /\ UNCHANGED revocations
  PROVE  InStep'
<1> SUFFICES ASSUME NEW k \in Keys PROVE KeyInStep(k)'
  BY DEF InStep
<1>1. /\ UNCHANGED <<change, since, overlapped>>
      /\ stage'[a] = "idle" /\ \A b \in Admins \ {a} : stage'[b] = stage[b]
  BY AnswerTyped
<1>2. KeyInStep(k) /\ log \in Seq(Changes) /\ since[k] \in Nat
  BY DEF InStep, IInv, TypeOK
<1>3. failed' = IF answer = "ok" THEN failed ELSE failed \cup {c.key}
  BY DEF Answer
<1>4. CASE c.key # k
  <2>1. k \in failed' <=> k \in failed
    BY <1>3, <1>4
  <2>2. stage[a] = "idle" \/ change[a].key # k
    BY <1>4
  <2>3. (log' = Append(log, c) /\ c.key # k) \/ UNCHANGED log
    BY <1>4
  <2> QED BY <1>1, <1>2, <1>4, <2>1, <2>2, <2>3, Untouched
<1>5. CASE c.key = k
  <2>0. since'[k] <= Len(log')
    <3>1. Len(log) \in Nat /\ Len(log') \in Nat /\ Len(log) <= Len(log')
      BY <1>2, LogKept
    <3> QED BY <1>1, <1>2, <3>1 DEF KeyInStep
  <2>1. CASE answer = "error"
    BY <1>3, <1>5, <2>0, <2>1 DEF KeyInStep
  <2>2. CASE stage[a] = "audit" /\ log' = Append(log, c) /\ UNCHANGED revocations
    <3>1. Standing(k)' = Standing(k) /\ Standing(k).key = k
      BY <2>2 DEF Standing
    <3>2. /\ Len(log) + 1 \in DOMAIN log' /\ log'[Len(log) + 1] = c
          /\ Len(log) \in Nat
      BY <1>2, <2>2
    <3>3. Recorded(k) => Recorded(k)'
      <4>1. CASE revocations[k] = "none"
        BY <2>2, <4>1 DEF Recorded
      <4>2. ASSUME NEW i \in DOMAIN log, i > since[k], log[i] = Standing(k)
            PROVE  Recorded(k)'
        <5>1. i \in DOMAIN log' /\ log'[i] = log[i]
          BY <1>2, LogKept
        <5> QED BY <1>1, <3>1, <4>2, <5>1 DEF Recorded
      <4>3. ASSUME NEW b \in Admins, stage[b] = "audit", change[b] = Standing(k), b # a
            PROVE  Recorded(k)'
        BY <1>1, <3>1, <4>3 DEF Recorded
      <4>4. CASE c = Standing(k)
        <5>1. Len(log) + 1 > since'[k]
          BY <1>1, <1>2, <3>2 DEF KeyInStep
        <5> QED BY <3>1, <3>2, <4>4, <5>1 DEF Recorded
      <4>5. ASSUME NEW b \in Admins, stage[b] = "store", change[b].key = k
            PROVE  Recorded(k)'
        <5>1. b # a
          BY <2>2, <4>5
        <5> QED BY <1>1, <4>5, <5>1 DEF Recorded
      <4> QED BY <4>1, <4>2, <4>3, <4>4, <4>5 DEF Recorded
    <3>4. OneByOne(k) => OneByOne(k)'
      <4> SUFFICES ASSUME OneByOne(k) PROVE OneByOne(k)'
        OBVIOUS
      <4>1. c = Standing(k) /\ \A b \in Admins \ {a} : stage[b] = "idle" \/ change[b].key # k
        BY <1>5, <2>2 DEF OneByOne
      <4>2. LatestEvents(k)' = {c}
        BY <1>2, <1>5, <2>2, AppendedIsLatest
      <4>3. Agrees(k)'
        BY <3>1, <4>1, <4>2 DEF Agrees
      <4> QED BY <1>1, <4>1, <4>3 DEF OneByOne
    <3>5. failed \subseteq failed' /\ overlapped' = overlapped
      BY <1>1, <1>3
    <3> QED BY <1>2, <2>0, <3>3, <3>4, <3>5 DEF KeyInStep
  <2> QED BY <2>1, <2>2
<1> QED BY <1>4, <1>5

\* Every step keeps keys in step.
LEMMA NextInStep == IInv /\ InStep /\ [Next]_vars => InStep'
<1> SUFFICES ASSUME IInv, InStep, [Next]_vars PROVE InStep'
  OBVIOUS
<1>1. ASSUME NEW a \in Admins, NEW c \in Changes, Receive(a, c) PROVE InStep'
  BY <1>1, ReceiveInStep
<1>2. ASSUME NEW a \in Admins, Store(a) PROVE InStep'
  BY <1>2, StoreInStep
<1>3. ASSUME NEW a \in Admins, FailStore(a) PROVE InStep'
  <2>1. PICK c \in Changes : c = change[a]
    BY <1>3 DEF IInv, Underway, FailStore
  <2>2. \A k \in Keys \ {c.key} : revocations'[k] = revocations[k]
    <3>1. CASE Upsert(c)
      BY <3>1, StoreTyped DEF IInv, TypeOK, Upsert
    <3>2. CASE UNCHANGED revocations
      BY <3>2
    <3> QED BY <1>3, <2>1, <3>1, <3>2 DEF FailStore
  <2>3. stage[a] # "idle" /\ Answer(a, "error") /\ UNCHANGED log
    BY <1>3 DEF FailStore
  <2> QED BY <2>1, <2>2, <2>3, AnswerInStep
<1>4. ASSUME NEW a \in Admins, AppendAudit(a) PROVE InStep'
  <2>1. PICK c \in Changes : c = change[a]
    BY <1>4 DEF IInv, Underway, AppendAudit
  <2>2. /\ stage[a] = "audit" /\ Answer(a, "ok")
        /\ log' = Append(log, c) /\ UNCHANGED revocations
    BY <1>4, <2>1 DEF AppendAudit, Log!AppendEntry
  <2> QED BY <2>1, <2>2, AnswerInStep
<1>5. ASSUME NEW a \in Admins, FailAudit(a) PROVE InStep'
  <2>1. PICK c \in Changes : c = change[a]
    BY <1>5 DEF IInv, Underway, FailAudit
  <2>2. /\ stage[a] = "audit" /\ Answer(a, "error")
        /\ log' = Append(log, c) \/ UNCHANGED log
        /\ UNCHANGED revocations
    BY <1>5, <2>1 DEF FailAudit, Log!AppendEntry
  <2> QED BY <2>1, <2>2, AnswerInStep
<1>6. CASE UNCHANGED vars
  BY <1>6 DEF vars, rounds, InStep, KeyInStep, Recorded, OneByOne, Agrees, Busy, Standing, LatestEvents
<1> QED BY <1>1, <1>2, <1>3, <1>4, <1>5, <1>6 DEF Next, Proceed

\* When a round of requests for a key has ended, each answered "ok", the key's status
\* has an event of that round, the latest of the key if the requests did not overlap.
THEOREM LatestEventStandsAlways == Spec => []LatestEventStands
<1>1. Init => InStep
  <2> SUFFICES ASSUME Init, NEW k \in Keys PROVE KeyInStep(k)
    BY DEF InStep
  <2>1. since[k] = 0 /\ Len(log) \in Nat /\ revocations[k] = "none"
    BY DEF Init, Log!Init, Revocations!RevocationsInit
  <2>2. Recorded(k) /\ OneByOne(k)
    BY <2>1 DEF Init, Recorded, OneByOne, Agrees
  <2> QED BY <2>1, <2>2 DEF KeyInStep
<1>2. IInv /\ InStep => LatestEventStands
  <2> SUFFICES ASSUME IInv, InStep, NEW k \in Keys, revocations[k] # "none", ~ Busy(k), k \notin failed
               PROVE  /\ \E i \in DOMAIN log : i > since[k] /\ log[i] = Standing(k)
                      /\ k \notin overlapped => LatestEvents(k) = {Standing(k)}
    BY DEF LatestEventStands
  <2>1. KeyInStep(k)
    BY DEF InStep
  <2>2. Standing(k).key = k
    BY DEF Standing
  <2>3. Recorded(k) => \E i \in DOMAIN log : i > since[k] /\ log[i] = Standing(k)
    BY <2>2 DEF Recorded, Busy
  <2>4. OneByOne(k) => LatestEvents(k) = {Standing(k)}
    BY DEF OneByOne, Agrees
  <2> QED BY <2>1, <2>3, <2>4 DEF KeyInStep
<1> QED BY IInvAlways, NextInStep, <1>1, <1>2, PTL DEF Spec
============================================================================
