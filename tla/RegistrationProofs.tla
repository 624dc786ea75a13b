------------------------- MODULE RegistrationProofs -------------------------
(* Registration for any agents, requests, documents and bounds: the four      *)
(* stores agree with each other after every step, whatever runs beside a      *)
(* request and wherever it fails, and the stores look like Publication.       *)
EXTENDS Registration, FiniteSetTheorems, TLAPS

\* The theorems about the index.
Lean == INSTANCE LeanIndexProofs WITH
          Writers <- Registrars, MaxPuts <- MaxRequests

(* The inductive invariant.                                                   *)

\* A request that is handled is a request that was made.
RequestsAreMade == \A r \in Registrars : stage[r] # "idle" => request[r] \in Requests

\* A request runs its index transaction at one place, over its own record.
IndexStage == \A r \in Registrars :
  /\ stage[r] = "index" <=> pc[r] # "idle"
  /\ stage[r] = "index" => put[r] = request[r]

FactsStored(d) == Facts!HasPointer(d) /\ Facts!HasFile(d) /\ d \notin Malformed

\* What a request has stored of its facts by the time it is at a stage.
StoredByStage == \A r \in Registrars :
  /\ stage[r] \in {"write", "pointer"} => Facts!HasFile(Document(r))
  /\ stage[r] = "decode" => Facts!HasFile(Document(r)) /\ Facts!HasPointer(Document(r))
  /\ stage[r] \in {"index", "audit"} => FactsStored(Document(r))

\* A row a transaction has archived, committed or not, is one whose facts are stored.
ArchivedIsStored == \A r \in Registrars :
  archived[r] # NoRow => FactsStored(DocumentOf[archived[r].row.rec.body])

IInv ==
  /\ TypeOK /\ Lean!IInv
  /\ RequestsAreMade /\ IndexStage /\ StoredByStage /\ ArchivedIsStored
  /\ IndexedIsStored /\ IndexedIsAudited /\ AcceptedWasCurrent

-----------------------------------------------------------------------------
(* The index of Registration is the one of the theorems.                      *)

LEMMA SameSets ==
  /\ Lean!Records = Index!Records /\ Lean!Times = Index!Times
  /\ Lean!Rows = Index!Rows /\ Lean!Archived = Index!Archived
  /\ Lean!Active = Index!Active /\ Lean!Results = Index!Results
BY DEF Lean!Records, Index!Records, Lean!Times, Index!Times, Lean!Rows, Index!Rows,
       Lean!Archived, Index!Archived, Lean!Active, Index!Active, Lean!Results, Index!Results

LEMMA SameState ==
  /\ Lean!Init <=> Index!Init
  /\ Lean!TypeOK <=> Index!TypeOK
  /\ Lean!TypeOK' <=> Index!TypeOK'
  /\ Lean!Visible = Index!Visible
BY SameSets DEF Lean!Init, Index!Init, Lean!TypeOK, Index!TypeOK, Lean!Visible, Index!Visible

LEMMA SameActions ==
  ASSUME NEW r \in Registrars
  PROVE  /\ \A req : Index!Begin(r, req) <=> Lean!Begin(r, req)
         /\ Index!Execute(r) <=> Lean!Execute(r)
         /\ Index!Fail(r) <=> Lean!Fail(r)
<1>1. \A req : Index!Begin(r, req) <=> Lean!Begin(r, req)
  BY DEF Index!Begin, Lean!Begin
<1>2. \A answer : Index!Finish(r, answer) <=> Lean!Finish(r, answer)
  BY DEF Index!Finish, Lean!Finish
<1>3. Index!Key(r) = Lean!Key(r) /\ Index!Upserted(r) = Lean!Upserted(r)
  BY DEF Index!Key, Lean!Key, Index!Upserted, Lean!Upserted
<1>4. \A answer : Index!Commit(r, answer) <=> Lean!Commit(r, answer)
  BY <1>2, <1>3 DEF Index!Commit, Lean!Commit
<1>5. Index!SelectNothing(r) <=> Lean!SelectNothing(r)
  BY <1>3 DEF Index!SelectNothing, Lean!SelectNothing
<1>6. Index!SelectRow(r) <=> Lean!SelectRow(r)
  BY <1>3 DEF Index!SelectRow, Lean!SelectRow
<1>7. /\ Index!RejectStale(r) <=> Lean!RejectStale(r)
      /\ Index!RejectConflict(r) <=> Lean!RejectConflict(r)
      /\ Index!CommitUnchanged(r) <=> Lean!CommitUnchanged(r)
  BY <1>2 DEF Index!RejectStale, Lean!RejectStale, Index!RejectConflict, Lean!RejectConflict,
              Index!CommitUnchanged, Lean!CommitUnchanged
<1>8. Index!Archive(r) <=> Lean!Archive(r)
  BY <1>3 DEF Index!Archive, Lean!Archive, Index!Supersedes, Lean!Supersedes
<1>9. Index!Upsert(r) <=> Lean!Upsert(r)
  BY <1>3 DEF Index!Upsert, Lean!Upsert
<1>10. Index!Abort(r) <=> Lean!Abort(r)
  BY <1>2, SameSets DEF Index!Abort, Lean!Abort
<1> QED
  BY <1>1, <1>4, <1>5, <1>6, <1>7, <1>8, <1>9, <1>10
  DEF Index!Execute, Lean!Execute, Index!Fail, Lean!Fail, Index!CommitAcknowledged,
      Lean!CommitAcknowledged, Index!CommitUnacknowledged, Lean!CommitUnacknowledged

\* A step of a registration is a step of its index transaction, or the index rests.
LEMMA IndexFollows ==
  ASSUME RequestsAreMade, [Next]_vars
  PROVE  [Lean!Next]_(Lean!vars)
<1>1. CASE UNCHANGED indexVars
  BY <1>1 DEF indexVars, Lean!vars
<1>2. ASSUME NEW r \in Registrars, CallIndex(r)
      PROVE  Lean!Next
  <2>1. request[r] \in Lean!Records
    BY <1>2, RequestsAssumption, SameSets DEF CallIndex, RequestsAreMade
  <2> QED BY <1>2, <2>1, SameActions DEF CallIndex, Lean!Next
<1>3. ASSUME NEW r \in Registrars, StepIndex(r) \/ FailIndex(r)
      PROVE  Lean!Next
  BY <1>3, SameActions DEF StepIndex, FailIndex, Lean!Next
<1>4. CASE UNCHANGED vars
  BY <1>1, <1>4 DEF vars
<1>5. ASSUME NEW r \in Registrars,
             \/ \E req \in Requests : Receive(r, req)
             \/ TruncateFacts(r) \/ WriteFacts(r) \/ PutPointer(r) \/ RejectFacts(r)
             \/ AppendAudit(r) \/ AppendAuditUnacknowledged(r) \/ Fail(r)
      PROVE  UNCHANGED indexVars
  BY <1>5 DEF Receive, TruncateFacts, WriteFacts, PutPointer, RejectFacts, AppendAudit,
              AppendAuditUnacknowledged, Fail
<1> QED BY <1>1, <1>2, <1>3, <1>4, <1>5 DEF Next, Proceed

LEMMA IndexInvStep == Lean!IInv /\ [Lean!Next]_(Lean!vars) => Lean!IInv'
BY Lean!IInvStep, IndexAssumption
DEF Index!Records, Index!Rows, Index!Archived, Index!Times, Lean!Records, Lean!Rows,
    Lean!Archived, Lean!Times

-----------------------------------------------------------------------------
(* What a step of one request does.                                           *)

Step(r) ==
  \/ \E req \in Requests : Receive(r, req)
  \/ Proceed(r) \/ FailIndex(r) \/ AppendAuditUnacknowledged(r) \/ Fail(r)

\* The others' requests and transactions stay as they are.
OthersUnchanged(r) == \A q \in Registrars \ {r} :
  /\ stage'[q] = stage[q] /\ request'[q] = request[q]
  /\ pc'[q] = pc[q] /\ put'[q] = put[q] /\ archived'[q] = archived[q]

\* A step outside the index transaction.
Outside(r) ==
  \/ TruncateFacts(r) \/ WriteFacts(r) \/ PutPointer(r) \/ RejectFacts(r)
  \/ AppendAudit(r) \/ AppendAuditUnacknowledged(r) \/ Fail(r)

\* What one statement of the index transaction, or its end, does to the tables.
LEMMA StatementStep ==
  ASSUME IInv, NEW r \in Registrars, stage[r] = "index", Index!Execute(r) \/ Index!Fail(r)
  PROVE  /\ request[r] \in Requests /\ put[r] = request[r] /\ put' = put
         /\ pc'[r] = "idle" => result'[r] \in {"ok", "stale", "conflict", "error"}
         /\ \A q \in Registrars \ {r} : pc'[q] = pc[q] /\ archived'[q] = archived[q]
         /\ \/ archived'[r] \in {archived[r], NoRow}
            \/ row[put[r].agent] # NoRow /\ archived'[r].row = row[put[r].agent]
         /\ \/ UNCHANGED <<row, history>>
            \/ /\ row' = [row EXCEPT ![put[r].agent] = Index!Upserted(r)]
               /\ history' = IF archived[r] = NoRow THEN history
                    ELSE [history EXCEPT ![put[r].agent] = Append(@, archived[r])]
               /\ pc'[r] = "idle" /\ result'[r] \in {"ok", "error"}
         /\ pc'[r] = "idle" /\ result'[r] = "ok" => Index!Visible'[put[r].agent] = put[r]
<1> USE DEF Index!Key
<1>0. /\ Index!TypeOK /\ request[r] \in Requests /\ put[r] = request[r]
      /\ put[r] \in Index!Records /\ put[r].agent \in Agents
  BY RequestsAssumption DEF IInv, TypeOK, RequestsAreMade, IndexStage, Index!Records
<1>1. ASSUME NEW answer \in Index!Results, Index!Finish(r, answer)
      PROVE  /\ put' = put /\ pc'[r] = "idle" /\ result'[r] = answer /\ archived'[r] = NoRow
             /\ \A q \in Registrars \ {r} : pc'[q] = pc[q] /\ archived'[q] = archived[q]
  BY <1>0, <1>1 DEF Index!Finish, Index!TypeOK
<1>2. CASE Index!SelectNothing(r) \/ Index!SelectRow(r) \/ Index!Upsert(r)
  <2>1. put' = put /\ archived' = archived /\ pc'[r] # "idle" /\ UNCHANGED <<row, history>>
    BY <1>0, <1>2 DEF Index!SelectNothing, Index!SelectRow, Index!Upsert, Index!TypeOK
  <2>2. \A q \in Registrars \ {r} : pc'[q] = pc[q]
    BY <1>0, <1>2 DEF Index!SelectNothing, Index!SelectRow, Index!Upsert, Index!TypeOK
  <2> QED BY <1>0, <2>1, <2>2
<1>3. CASE Index!Archive(r)
  <2>1. /\ put' = put /\ UNCHANGED <<row, history>> /\ pc'[r] = "upsert"
        /\ \A q \in Registrars \ {r} : pc'[q] = pc[q] /\ archived'[q] = archived[q]
    BY <1>0, <1>3 DEF Index!Archive, Index!TypeOK
  <2>2. \/ archived' = archived
        \/ row[put[r].agent] # NoRow /\ archived'[r].row = row[put[r].agent]
    BY <1>0, <1>3 DEF Index!Archive, Index!TypeOK
  <2> QED BY <1>0, <2>1, <2>2
<1>4. CASE Index!RejectStale(r) \/ Index!RejectConflict(r) \/ Index!Abort(r)
  BY <1>0, <1>1, <1>4 DEF Index!RejectStale, Index!RejectConflict, Index!Abort, Index!Results
<1>5. CASE Index!CommitUnchanged(r)
  <2>1. /\ seen[r] # NoRow /\ put[r] = seen[r].rec /\ pc[r] = "decide"
        /\ Index!Finish(r, "ok") /\ UNCHANGED <<row, history>>
    BY <1>5 DEF Index!CommitUnchanged
  <2>2. row[put[r].agent] = seen[r]
    BY <2>1 DEF IInv, Lean!IInv, Lean!SeenIsCurrent, Lean!Key
  <2>3. Index!Visible'[put[r].agent] = put[r]
    BY <1>0, <2>1, <2>2 DEF Index!Visible
  <2> QED BY <1>0, <1>1, <2>1, <2>3 DEF Index!Results
<1>6. ASSUME NEW answer \in {"ok", "error"}, Index!Commit(r, answer)
      PROVE  /\ Index!Finish(r, answer)
             /\ row' = [row EXCEPT ![put[r].agent] = Index!Upserted(r)]
             /\ history' = IF archived[r] = NoRow THEN history
                    ELSE [history EXCEPT ![put[r].agent] = Append(@, archived[r])]
             /\ Index!Visible'[put[r].agent] = put[r]
  <2>1. row'[put[r].agent] = Index!Upserted(r) /\ Index!Upserted(r).rec = put[r]
    BY <1>0, <1>6 DEF Index!Commit, Index!Upserted, Index!TypeOK
  <2>2. Index!Upserted(r) # NoRow
    <3>1. Index!Upserted(r) \in Index!Rows
      BY <1>0 DEF Index!Upserted, Index!Rows, Index!TypeOK
    <3> QED BY <3>1, IndexAssumption
  <2> QED BY <1>0, <1>6, <2>1, <2>2 DEF Index!Commit, Index!Visible
<1>7. CASE Index!CommitAcknowledged(r) \/ Index!CommitUnacknowledged(r)
  BY <1>0, <1>1, <1>6, <1>7 DEF Index!CommitAcknowledged, Index!CommitUnacknowledged, Index!Results
<1> QED BY <1>2, <1>3, <1>4, <1>5, <1>7 DEF Index!Execute, Index!Fail

\* Files and pointers are stored and never removed.
LEMMA FactsStep ==
  ASSUME IInv, NEW r \in Registrars, Step(r)
  PROVE  /\ Facts!FactsTypeOK'
         /\ \A d \in Documents : /\ Facts!HasFile(d) => Facts!HasFile(d)'
                                 /\ Facts!HasPointer(d) => Facts!HasPointer(d)'
                                 /\ FactsStored(d) => FactsStored(d)'
<1> USE DEF IInv, TypeOK, Facts!FactsTypeOK, Facts!HasFile, Facts!HasPointer, Facts!FileStates
<1>0. /\ stage[r] # "idle" => request[r] \in Requests /\ Document(r) \in Documents
  BY RequestsAssumption, DocumentOfAssumption DEF Index!Records, Document, RequestsAreMade
<1>1. /\ Facts!FactsTypeOK'
      /\ \A d \in Documents : /\ Facts!HasFile(d) => Facts!HasFile(d)'
                              /\ Facts!HasPointer(d) => Facts!HasPointer(d)'
  <2>1. CASE UNCHANGED factsVars
    BY <2>1 DEF factsVars
  <2>2. CASE TruncateFacts(r)
    BY <1>0, <2>2 DEF TruncateFacts, Facts!Truncate
  <2>3. CASE WriteFacts(r)
    BY <1>0, <2>3 DEF WriteFacts, Facts!Write
  <2>4. CASE PutPointer(r)
    BY <1>0, <2>4 DEF PutPointer, Facts!PutFactsPointer
  <2> QED
    BY <2>1, <2>2, <2>3, <2>4
    DEF Step, Proceed, Receive, RejectFacts, CallIndex, StepIndex, FailIndex, AppendAudit,
        AppendAuditUnacknowledged, Fail
<1> QED BY <1>1 DEF FactsStored

\* The other requests, and what a step makes of its own one.
LEMMA RequestStep ==
  ASSUME IInv, NEW r \in Registrars, Step(r)
  PROVE  /\ OthersUnchanged(r)
         /\ stage' \in [Registrars -> Stages]
         /\ request' \in [Registrars -> Requests \cup {NoPut}]
         /\ stage'[r] # "idle" => request'[r] \in Requests
         /\ stage'[r] = "index" <=> pc'[r] # "idle"
         /\ stage'[r] = "index" => put'[r] = request'[r]
<1> DEFINE Goal == /\ OthersUnchanged(r)
                   /\ stage' \in [Registrars -> Stages]
                   /\ request' \in [Registrars -> Requests \cup {NoPut}]
                   /\ stage'[r] # "idle" => request'[r] \in Requests
                   /\ stage'[r] = "index" <=> pc'[r] # "idle"
                   /\ stage'[r] = "index" => put'[r] = request'[r]
<1>0. /\ stage \in [Registrars -> Stages] /\ request \in [Registrars -> Requests \cup {NoPut}]
      /\ stage[r] # "idle" => request[r] \in Requests
      /\ stage[r] = "index" <=> pc[r] # "idle"
      /\ pc \in [Registrars -> Index!Active \cup {"idle"}]
      /\ put \in [Registrars -> Index!Records \cup {NoPut}]
  BY DEF IInv, TypeOK, Index!TypeOK, RequestsAreMade, IndexStage
<1>1. ASSUME NEW next \in Stages \ {"idle", "index"}, GoTo(r, next), UNCHANGED indexVars,
             stage[r] \notin {"idle", "index"}
      PROVE  Goal
  BY <1>0, <1>1 DEF GoTo, indexVars, OthersUnchanged
<1>2. ASSUME NEW answer, Answer(r, answer), UNCHANGED indexVars, stage[r] # "index"
      PROVE  Goal
  BY <1>0, <1>2 DEF Answer, indexVars, OthersUnchanged, Stages
<1>3. ASSUME NEW req \in Requests, Receive(r, req)
      PROVE  Goal
  BY <1>0, <1>3 DEF Receive, indexVars, OthersUnchanged, Stages
<1>4. CASE CallIndex(r)
  <2>1. /\ stage' = [stage EXCEPT ![r] = "index"] /\ request' = request
        /\ pc' = [pc EXCEPT ![r] = "select"] /\ put' = [put EXCEPT ![r] = request[r]]
        /\ archived' = archived /\ stage[r] = "decode"
    BY <1>4 DEF CallIndex, GoTo, Index!Begin
  <2> QED BY <1>0, <2>1 DEF OthersUnchanged, Stages
<1>5. CASE StepIndex(r) \/ FailIndex(r)
  <2>1. /\ stage[r] = "index" /\ (Index!Execute(r) \/ Index!Fail(r))
        /\ CASE pc'[r] # "idle" -> GoTo(r, "index")
             [] pc'[r] = "idle" /\ result'[r] = "ok" -> GoTo(r, "audit")
             [] OTHER -> Answer(r, result'[r])
    BY <1>5 DEF StepIndex, FailIndex, FollowIndex
  <2>2. /\ put' = put /\ put[r] = request[r] /\ request[r] \in Requests
        /\ \A q \in Registrars \ {r} : pc'[q] = pc[q] /\ archived'[q] = archived[q]
    BY <2>1, StatementStep
  <2>3. /\ request' = request
        /\ \/ pc'[r] # "idle" /\ stage' = [stage EXCEPT ![r] = "index"]
           \/ pc'[r] = "idle" /\ stage' = [stage EXCEPT ![r] = "audit"]
           \/ pc'[r] = "idle" /\ stage' = [stage EXCEPT ![r] = "idle"]
    BY <2>1 DEF GoTo, Answer
  <2> QED BY <1>0, <2>2, <2>3 DEF OthersUnchanged, Stages
<1>6. CASE TruncateFacts(r) \/ WriteFacts(r) \/ PutPointer(r)
  BY <1>1, <1>6 DEF TruncateFacts, WriteFacts, PutPointer, Stages
<1>7. CASE RejectFacts(r) \/ AppendAudit(r) \/ AppendAuditUnacknowledged(r) \/ Fail(r)
  BY <1>2, <1>7 DEF RejectFacts, AppendAudit, AppendAuditUnacknowledged, Fail
<1> QED BY <1>3, <1>4, <1>5, <1>6, <1>7 DEF Step, Proceed

\* The rest of the type invariant: the log, the answers and the history variables.
LEMMA AnswerTypesStep ==
  ASSUME IInv, NEW r \in Registrars, Step(r)
  PROVE  /\ audit' \in Seq(Requests) /\ requests' \in 0..MaxRequests
         /\ reply' \in [Registrars -> Index!Results \cup {"invalid"}]
         /\ failed' \subseteq Requests /\ held' \in [Registrars -> BOOLEAN]
         /\ accepted' \in [Requests -> Nat] /\ unheard' \in [Requests -> Nat]
<1>0. /\ audit \in Seq(Requests) /\ requests \in 0..MaxRequests
      /\ reply \in [Registrars -> Index!Results \cup {"invalid"}]
      /\ failed \subseteq Requests /\ held \in [Registrars -> BOOLEAN]
      /\ accepted \in [Requests -> Nat] /\ unheard \in [Requests -> Nat]
      /\ stage[r] # "idle" => request[r] \in Requests
  BY DEF IInv, TypeOK, RequestsAreMade
<1>1. audit' \in Seq(Requests)
  <2>0. audit \in Seq(Requests)
    BY <1>0
  <2>1. CASE audit' = audit
    BY <2>0, <2>1
  <2>2. CASE AppendAudit(r) \/ AppendAuditUnacknowledged(r)
    <3>1. stage[r] = "audit" /\ audit' = Append(audit, request[r])
      BY <2>2 DEF AppendAudit, AppendAuditUnacknowledged, Audit!AppendEntry
    <3>2. request[r] \in Requests
      BY <1>0, <3>1
    <3> QED BY <2>0, <3>1, <3>2
  <2> QED
    BY <2>1, <2>2
    DEF Step, Proceed, Receive, TruncateFacts, WriteFacts, PutPointer, RejectFacts, CallIndex,
        StepIndex, FailIndex, Fail
<1>2. requests' \in 0..MaxRequests
  BY <1>0, IndexAssumption
  DEF Step, Proceed, Receive, TruncateFacts, WriteFacts, PutPointer, RejectFacts, CallIndex,
      StepIndex, FailIndex, AppendAudit, AppendAuditUnacknowledged, Fail, FollowIndex, GoTo, Answer
<1>3. held' \in [Registrars -> BOOLEAN]
  <2>1. CASE held' = held
    BY <1>0, <2>1
  <2>2. ASSUME NEW req \in Requests, Receive(r, req)
        PROVE  held' \in [Registrars -> BOOLEAN]
    BY <1>0, <2>2 DEF Receive
  <2>3. CASE Witness
    BY <1>0, <2>3 DEF Witness
  <2> QED
    BY <2>1, <2>2, <2>3
    DEF Step, Proceed, TruncateFacts, WriteFacts, PutPointer, RejectFacts, CallIndex, StepIndex,
        FailIndex, FollowIndex, AppendAudit, AppendAuditUnacknowledged, Fail
<1>4. /\ reply' \in [Registrars -> Index!Results \cup {"invalid"}] /\ failed' \subseteq Requests
      /\ accepted' \in [Requests -> Nat]
  <2>1. CASE UNCHANGED answers
    BY <1>0, <2>1 DEF answers
  <2>2. ASSUME NEW answer \in Index!Results \cup {"invalid"}, Answer(r, answer), stage[r] # "idle"
        PROVE  /\ reply' \in [Registrars -> Index!Results \cup {"invalid"}] /\ failed' \subseteq Requests
               /\ accepted' \in [Requests -> Nat]
    <3>1. reply' \in [Registrars -> Index!Results \cup {"invalid"}]
      BY <1>0, <2>2 DEF Answer
    <3>2. failed' \subseteq Requests
      BY <1>0, <2>2 DEF Answer
    <3>3. accepted' \in [Requests -> Nat]
      BY <1>0, <2>2 DEF Answer
    <3> QED BY <3>1, <3>2, <3>3
  <2>3. CASE StepIndex(r) \/ FailIndex(r)
    <3>1. stage[r] = "index" /\ (Index!Execute(r) \/ Index!Fail(r)) /\ FollowIndex(r)
      BY <2>3 DEF StepIndex, FailIndex
    <3>2. pc'[r] = "idle" => result'[r] \in Index!Results
      BY <3>1, StatementStep DEF Index!Results
    <3>3. \/ UNCHANGED answers
          \/ pc'[r] = "idle" /\ Answer(r, result'[r])
      BY <3>1 DEF FollowIndex, GoTo
    <3> QED BY <2>1, <2>2, <3>1, <3>2, <3>3
  <2>4. CASE RejectFacts(r) \/ AppendAudit(r) \/ AppendAuditUnacknowledged(r) \/ Fail(r)
    BY <2>2, <2>4 DEF RejectFacts, AppendAudit, AppendAuditUnacknowledged, Fail, Index!Results
  <2> QED
    BY <2>1, <2>3, <2>4
    DEF Step, Proceed, Receive, TruncateFacts, WriteFacts, PutPointer, CallIndex, GoTo
<1>5. unheard' \in [Requests -> Nat]
  <2>1. CASE unheard' = unheard
    BY <1>0, <2>1
  <2>2. CASE AppendAuditUnacknowledged(r)
    BY <1>0, <2>2 DEF AppendAuditUnacknowledged
  <2> QED
    BY <2>1, <2>2
    DEF Step, Proceed, Receive, TruncateFacts, WriteFacts, PutPointer, RejectFacts, CallIndex,
        StepIndex, FailIndex, FollowIndex, AppendAudit, Fail, GoTo, answers
<1> QED BY <1>1, <1>2, <1>3, <1>4, <1>5

-----------------------------------------------------------------------------
(* The stores agree.                                                          *)

\* The documents of a row, of a history row and of a request are documents.
LEMMA BodiesAreDocuments ==
  ASSUME IInv
  PROVE  /\ \A a \in Agents : Indexed(a) \subseteq Documents
         /\ \A r \in Registrars :
              archived[r] # NoRow => DocumentOf[archived[r].row.rec.body] \in Documents
         /\ \A r \in Registrars : stage[r] # "idle" => Document(r) \in Documents
<1>1. \A a \in Agents : Indexed(a) \subseteq Documents
  <2> SUFFICES ASSUME NEW a \in Agents, NEW d \in Indexed(a) PROVE d \in Documents
    OBVIOUS
  <2>1. row[a] \in Index!Rows \cup {NoRow} /\ history[a] \in Seq(Index!Archived)
    BY DEF IInv, TypeOK, Index!TypeOK
  <2>2. CASE row[a] # NoRow /\ d = DocumentOf[row[a].rec.body]
    BY <2>1, <2>2, DocumentOfAssumption DEF Index!Rows, Index!Records
  <2>3. ASSUME NEW i \in DOMAIN history[a], d = DocumentOf[history[a][i].row.rec.body]
        PROVE  d \in Documents
    <3>1. history[a][i] \in Index!Archived
      BY <2>1, <2>3
    <3> QED BY <3>1, <2>3, DocumentOfAssumption DEF Index!Archived, Index!Rows, Index!Records
  <2> QED BY <2>2, <2>3 DEF Indexed
<1>2. \A r \in Registrars :
        archived[r] # NoRow => DocumentOf[archived[r].row.rec.body] \in Documents
  BY DocumentOfAssumption
  DEF IInv, TypeOK, Index!TypeOK, Index!Rows, Index!Archived, Index!Records
<1>3. \A r \in Registrars : stage[r] # "idle" => Document(r) \in Documents
  BY RequestsAssumption, DocumentOfAssumption DEF IInv, RequestsAreMade, Document, Index!Records
<1> QED BY <1>1, <1>2, <1>3

\* A request stores its facts in the order of the code.
LEMMA StoredByStageStep ==
  ASSUME IInv, NEW r \in Registrars, Step(r)
  PROVE  StoredByStage'
<1> DEFINE OK(q) == /\ stage[q] \in {"write", "pointer"} => Facts!HasFile(Document(q))
                    /\ stage[q] = "decode" => Facts!HasFile(Document(q)) /\ Facts!HasPointer(Document(q))
                    /\ stage[q] \in {"index", "audit"} => FactsStored(Document(q))
<1>1. ASSUME NEW q \in Registrars \ {r} PROVE OK(q)'
  <2>1. stage'[q] = stage[q] /\ request'[q] = request[q]
    BY RequestStep DEF OthersUnchanged
  <2>2. PICK d : d = Document(q)
    OBVIOUS
  <2>3. stage[q] # "idle" => d \in Documents
    BY <2>2, BodiesAreDocuments
  <2>4. d = Document(q)'
    BY <2>1, <2>2 DEF Document
  <2>5. /\ stage[q] \in {"write", "pointer"} => Facts!HasFile(d)
        /\ stage[q] = "decode" => Facts!HasFile(d) /\ Facts!HasPointer(d)
        /\ stage[q] \in {"index", "audit"} => FactsStored(d)
    BY <2>2 DEF IInv, StoredByStage
  <2>6. /\ stage'[q] \in {"write", "pointer"} => Facts!HasFile(d)'
        /\ stage'[q] = "decode" => Facts!HasFile(d)' /\ Facts!HasPointer(d)'
        /\ stage'[q] \in {"index", "audit"} => FactsStored(d)'
    BY <2>1, <2>3, <2>5, FactsStep
  <2> QED BY <2>4, <2>6 DEF Facts!HasFile, Facts!HasPointer, FactsStored
<1>2. OK(r)'
  <2>0. /\ stage \in [Registrars -> Stages] /\ file \in [Documents -> Facts!FileStates]
        /\ stage[r] # "idle" => Document(r) \in Documents
    BY BodiesAreDocuments DEF IInv, TypeOK, Facts!FactsTypeOK
  <2>1. CASE stage'[r] \in {"idle", "truncate"}
    BY <2>1
  <2>2. CASE TruncateFacts(r) \/ WriteFacts(r)
    <3>1. /\ stage'[r] \in {"write", "pointer"} /\ request' = request /\ Document(r) \in Documents
          /\ \E s \in {"torn", "whole"} : file' = [file EXCEPT ![Document(r)] = s]
      BY <2>0, <2>2 DEF TruncateFacts, WriteFacts, GoTo, Facts!Truncate, Facts!Write
    <3>2. file'[Document(r)] # "absent"
      BY <2>0, <3>1
    <3> QED BY <3>1, <3>2 DEF Document, Facts!HasFile
  <2>3. CASE PutPointer(r)
    BY <2>0, <2>3 DEF PutPointer, GoTo, Facts!PutFactsPointer, Facts!HasFile, Facts!HasPointer,
                      Document, IInv, StoredByStage
  <2>4. CASE CallIndex(r)
    BY <2>0, <2>4 DEF CallIndex, GoTo, factsVars, Facts!HasFile, Facts!HasPointer, FactsStored,
                      Document, IInv, StoredByStage
  <2>5. CASE StepIndex(r) \/ FailIndex(r)
    <3>1. stage'[r] \in {"index", "audit", "idle"} /\ request' = request /\ UNCHANGED factsVars
      BY <2>0, <2>5 DEF StepIndex, FailIndex, FollowIndex, GoTo, Answer
    <3>2. FactsStored(Document(r))
      BY <2>5 DEF StepIndex, FailIndex, IInv, StoredByStage
    <3> QED BY <3>1, <3>2 DEF factsVars, Facts!HasFile, Facts!HasPointer, FactsStored, Document
  <2> QED
    BY <2>0, <2>1, <2>2, <2>3, <2>4, <2>5
    DEF Step, Proceed, Receive, RejectFacts, AppendAudit, AppendAuditUnacknowledged, Fail, Answer
<1> QED BY <1>1, <1>2 DEF StoredByStage

\* What the index names, and what a transaction is about to make it name, is stored.
LEMMA IndexedIsStoredStep ==
  ASSUME IInv, NEW r \in Registrars, Step(r)
  PROVE  ArchivedIsStored' /\ IndexedIsStored'
<1> DEFINE Doc(x) == DocumentOf[x.body]
<1>0. /\ \A a \in Agents : \A d \in Indexed(a) : d \in Documents /\ FactsStored(d)
      /\ \A q \in Registrars : archived[q] # NoRow =>
           Doc(archived[q].row.rec) \in Documents /\ FactsStored(Doc(archived[q].row.rec))
  BY BodiesAreDocuments DEF IInv, IndexedIsStored, ArchivedIsStored, FactsStored
<1>1. /\ \A a \in Agents : \A d \in Indexed(a) : FactsStored(d)'
      /\ \A q \in Registrars : \A d :
           archived[q] # NoRow /\ d = Doc(archived[q].row.rec) => FactsStored(d)'
  BY <1>0, FactsStep
<1>2. CASE UNCHANGED indexVars
  <2>1. \A a \in Agents : Indexed(a)' = Indexed(a)
    BY <1>2 DEF indexVars, Indexed
  <2> QED BY <1>1, <1>2, <2>1 DEF indexVars, IndexedIsStored, ArchivedIsStored, FactsStored
<1>3. CASE CallIndex(r)
  <2>1. UNCHANGED <<row, history, archived>>
    BY <1>3 DEF CallIndex, Index!Begin
  <2>2. \A a \in Agents : Indexed(a)' = Indexed(a)
    BY <2>1 DEF Indexed
  <2> QED BY <1>1, <2>1, <2>2 DEF IndexedIsStored, ArchivedIsStored, FactsStored
<1>4. CASE StepIndex(r) \/ FailIndex(r)
  <2>1. stage[r] = "index" /\ (Index!Execute(r) \/ Index!Fail(r)) /\ FactsStored(Document(r))
    BY <1>4 DEF StepIndex, FailIndex, IInv, StoredByStage
  <2>2. PICK k, e : k = put[r].agent /\ e = archived[r]
    OBVIOUS
  <2>3. /\ request[r] \in Requests /\ put[r] = request[r] /\ k \in Agents
        /\ Doc(request[r]) \in Documents
    BY <2>1, <2>2, StatementStep, RequestsAssumption, DocumentOfAssumption DEF Index!Records
  <2>4. \A d : d = Doc(request[r]) => FactsStored(d)'
    BY <2>1, <2>3, FactsStep DEF Document
  <2>5. /\ \A q \in Registrars \ {r} : archived'[q] = archived[q]
        /\ \/ archived'[r] \in {e, NoRow}
           \/ row[k] # NoRow /\ archived'[r].row = row[k]
    BY <2>1, <2>2, StatementStep
  <2>6. ArchivedIsStored'
    <3>1. ASSUME NEW q \in Registrars, archived'[q] # NoRow
          PROVE  \A d : d = Doc(archived'[q].row.rec) => FactsStored(d)'
      <4>1. CASE archived'[q] = archived[q]
        BY <1>1, <3>1, <4>1
      <4>2. CASE row[k] # NoRow /\ archived'[q].row = row[k]
        <5>1. Doc(row[k].rec) \in Indexed(k)
          BY <4>2 DEF Indexed
        <5> QED BY <1>1, <2>3, <4>2, <5>1
      <4> QED BY <2>2, <2>5, <3>1, <4>1, <4>2
    <3> QED BY <3>1 DEF ArchivedIsStored
  <2>7. \A a \in Agents : \A d : d \in Indexed(a)' =>
           d \in Indexed(a) \/ d = Doc(request[r]) \/ (e # NoRow /\ d = Doc(e.row.rec))
    <3>1. CASE UNCHANGED <<row, history>>
      BY <3>1 DEF Indexed
    <3>2. CASE /\ row' = [row EXCEPT ![put[r].agent] = Index!Upserted(r)]
               /\ history' = IF archived[r] = NoRow THEN history
                    ELSE [history EXCEPT ![put[r].agent] = Append(@, archived[r])]
      <4> SUFFICES ASSUME NEW a \in Agents, NEW d, d \in Indexed(a)'
                   PROVE  d \in Indexed(a) \/ d = Doc(request[r]) \/ (e # NoRow /\ d = Doc(e.row.rec))
        OBVIOUS
      <4>1. /\ row \in [Agents -> Index!Rows \cup {NoRow}] /\ history \in [Agents -> Seq(Index!Archived)]
            /\ Index!Upserted(r).rec = put[r]
        BY DEF IInv, TypeOK, Index!TypeOK, Index!Upserted
      <4>2. row'[a] # NoRow => row'[a] = row[a] \/ row'[a].rec = request[r]
        BY <2>3, <3>2, <4>1
      <4>3. \A i \in DOMAIN history'[a] :
              (i \in DOMAIN history[a] /\ history'[a][i] = history[a][i]) \/ (e # NoRow /\ history'[a][i] = e)
        <5>1. CASE e = NoRow \/ a # k
          BY <2>2, <2>3, <3>2, <4>1, <5>1
        <5>2. CASE e # NoRow /\ a = k
          <6>1. history'[a] = Append(history[a], e) /\ history[a] \in Seq(Index!Archived)
            BY <2>2, <2>3, <3>2, <4>1, <5>2
          <6> QED BY <6>1, <5>2
        <5> QED BY <5>1, <5>2
      <4>4. CASE row'[a] # NoRow /\ d = Doc(row'[a].rec)
        BY <4>2, <4>4 DEF Indexed
      <4>5. ASSUME NEW i \in DOMAIN history'[a], d = Doc(history'[a][i].row.rec)
            PROVE  d \in Indexed(a) \/ (e # NoRow /\ d = Doc(e.row.rec))
        BY <4>3, <4>5 DEF Indexed
      <4> QED BY <4>4, <4>5 DEF Indexed
    <3> QED BY <2>1, <3>1, <3>2, StatementStep
  <2>8. \A a \in Agents : \A d : d \in Indexed(a)' => FactsStored(d)'
    BY <1>1, <2>2, <2>4, <2>7
  <2>9. IndexedIsStored'
    BY <2>8 DEF IndexedIsStored, FactsStored
  <2> QED BY <2>6, <2>9
<1> QED
  BY <1>2, <1>3, <1>4
  DEF Step, Proceed, Receive, TruncateFacts, WriteFacts, PutPointer, RejectFacts, AppendAudit,
      AppendAuditUnacknowledged, Fail

Places(q) == {i \in DOMAIN audit : audit[i] = q}

\* An event that is appended is one more of its record.
LEMMA OneMore ==
  ASSUME audit \in Seq(Requests), NEW e \in Requests, audit' = Append(audit, e), NEW q
  PROVE  /\ Events(q) \in Nat
         /\ Events(q)' = Events(q) + IF e = q THEN 1 ELSE 0
<1> DEFINE n == Len(audit)
<1>1. /\ n \in Nat /\ DOMAIN audit = 1..n /\ DOMAIN audit' = 1..(n + 1)
      /\ audit'[n + 1] = e /\ \A i \in 1..n : audit'[i] = audit[i]
  OBVIOUS
<1>2. IsFiniteSet(Places(q)) /\ Cardinality(Places(q)) \in Nat
  <2>1. IsFiniteSet(1..n)
    BY <1>1, FS_Interval
  <2>2. Places(q) \subseteq 1..n
    BY <1>1 DEF Places
  <2> QED BY <2>1, <2>2, FS_Subset, FS_CardinalityType
<1>3. {i \in DOMAIN audit' : audit'[i] = q} = IF e = q THEN Places(q) \cup {n + 1} ELSE Places(q)
  BY <1>1 DEF Places
<1>4. n + 1 \notin Places(q)
  BY <1>1 DEF Places
<1>5. Cardinality(Places(q) \cup {n + 1}) = Cardinality(Places(q)) + 1
  BY <1>2, <1>4, FS_AddElement
<1>6. Events(q) = Cardinality(Places(q))
      /\ Events(q)' = Cardinality({i \in DOMAIN audit' : audit'[i] = q})
  BY DEF Events, Places
<1>7. CASE e = q
  BY <1>2, <1>3, <1>5, <1>6, <1>7
<1>8. CASE e # q
  <2>1. {i \in DOMAIN audit' : audit'[i] = q} = Places(q)
    BY <1>3, <1>8
  <2>2. Events(q)' = Events(q) /\ Events(q) \in Nat
    BY <1>2, <1>6, <2>1
  <2> QED BY <1>8, <2>2
<1> QED BY <1>7, <1>8

\* A record that has an event, is about to, or failed.
Known(x) == \/ Events(x) # 0
            \/ \E q \in Registrars : stage[q] = "audit" /\ request[q] = x
            \/ x \in failed

\* What one step does to the counts of IndexedIsAudited.
LEMMA CountStep ==
  ASSUME IInv, NEW r \in Registrars, Step(r)
  PROVE  /\ \A q \in Requests : Events(q)' = accepted'[q] + unheard'[q]
         /\ \A x : Events(x) # 0 => Events(x)' # 0
         /\ \/ UNCHANGED <<audit, accepted, unheard>>
            \/ stage[r] = "audit" /\ \A x : x = request[r] => Events(x)' # 0
<1>0. /\ stage \in [Registrars -> Stages] /\ audit \in Seq(Requests)
      /\ accepted \in [Requests -> Nat] /\ unheard \in [Requests -> Nat]
      /\ stage[r] # "idle" => request[r] \in Requests
      /\ \A q \in Requests : Events(q) = accepted[q] + unheard[q]
  BY DEF IInv, TypeOK, RequestsAreMade, IndexedIsAudited
<1>1. CASE UNCHANGED <<audit, accepted, unheard>>
  BY <1>0, <1>1 DEF Events
<1>2. ASSUME stage[r] = "audit", audit' = Append(audit, request[r]),
             \/ accepted' = [accepted EXCEPT ![request[r]] = @ + 1] /\ unheard' = unheard
             \/ accepted' = accepted /\ unheard' = [unheard EXCEPT ![request[r]] = @ + 1]
      PROVE  /\ \A q \in Requests : Events(q)' = accepted'[q] + unheard'[q]
             /\ \A x : Events(x) # 0 => Events(x)' # 0
             /\ \A x : x = request[r] => Events(x)' # 0
  <2>1. PICK e \in Requests : e = request[r]
    BY <1>0, <1>2
  <2>2. \A q : Events(q) \in Nat /\ Events(q)' = Events(q) + IF e = q THEN 1 ELSE 0
    BY <1>0, <1>2, <2>1, OneMore
  <2>3. ASSUME NEW q \in Requests PROVE Events(q)' = accepted'[q] + unheard'[q]
    <3>1. accepted'[q] + unheard'[q] = accepted[q] + unheard[q] + IF e = q THEN 1 ELSE 0
      <4>1. accepted[q] \in Nat /\ unheard[q] \in Nat
        BY <1>0
      <4>2. CASE accepted' = [accepted EXCEPT ![e] = @ + 1] /\ unheard' = unheard
        BY <1>0, <4>1, <4>2
      <4>3. CASE accepted' = accepted /\ unheard' = [unheard EXCEPT ![e] = @ + 1]
        BY <1>0, <4>1, <4>3
      <4> QED BY <1>2, <2>1, <4>2, <4>3
    <3>2. Events(q) = accepted[q] + unheard[q]
      BY <1>0
    <3> QED BY <2>2, <3>1, <3>2
  <2>4. \A x : Events(x) # 0 => Events(x)' # 0
    BY <2>2
  <2>5. \A x : x = e => Events(x)' # 0
    BY <2>2
  <2> QED BY <2>1, <2>3, <2>4, <2>5
<1>3. CASE AppendAudit(r)
  BY <1>2, <1>3 DEF AppendAudit, Answer, Audit!AppendEntry
<1>4. CASE AppendAuditUnacknowledged(r)
  BY <1>2, <1>4 DEF AppendAuditUnacknowledged, Answer, Audit!AppendEntry
<1>5. CASE StepIndex(r) \/ FailIndex(r)
  <2>1. stage[r] = "index" /\ (Index!Execute(r) \/ Index!Fail(r)) /\ FollowIndex(r) /\ audit' = audit
    BY <1>5 DEF StepIndex, FailIndex
  <2>2. UNCHANGED <<accepted, unheard>>
    BY <2>1 DEF FollowIndex, GoTo, answers, Answer
  <2> QED BY <1>1, <2>1, <2>2
<1>6. CASE \/ \E req \in Requests : Receive(r, req)
           \/ TruncateFacts(r) \/ WriteFacts(r) \/ PutPointer(r) \/ RejectFacts(r) \/ CallIndex(r)
           \/ Fail(r)
  <2>1. UNCHANGED <<audit, accepted, unheard>>
    BY <1>6 DEF Receive, TruncateFacts, WriteFacts, PutPointer, RejectFacts, CallIndex, Fail, GoTo,
                Answer, answers
  <2> QED BY <1>1, <2>1
<1> QED BY <1>3, <1>4, <1>5, <1>6 DEF Step, Proceed

\* A record that is known stays known: what a success takes off the failed has an event.
LEMMA KnownStep ==
  ASSUME IInv, NEW r \in Registrars, Step(r), NEW x, Known(x)
  PROVE  Known(x)'
<1>0. stage \in [Registrars -> Stages]
  BY DEF IInv, TypeOK
<1>1. CASE Events(x) # 0
  BY <1>1, CountStep DEF Known
<1>2. ASSUME NEW q \in Registrars \ {r}, stage[q] = "audit", request[q] = x
      PROVE  Known(x)'
  <2>1. stage'[q] = "audit" /\ request'[q] = x
    BY <1>2, RequestStep DEF OthersUnchanged
  <2> QED BY <2>1 DEF Known
<1>3. CASE AppendAudit(r) \/ AppendAuditUnacknowledged(r)
  <2>1. x = request[r] => Events(x)' # 0
    <3>1. ~ UNCHANGED <<audit, accepted, unheard>>
      BY <1>3 DEF AppendAudit, AppendAuditUnacknowledged, Audit!AppendEntry
    <3> QED BY <3>1, CountStep
  <2>2. CASE x = request[r]
    BY <2>1, <2>2 DEF Known
  <2>3. CASE x \in failed /\ x # request[r]
    <3>1. x \in failed'
      BY <1>3, <2>3 DEF AppendAudit, AppendAuditUnacknowledged, Answer
    <3> QED BY <3>1 DEF Known
  <2>4. Events(x) # 0 \/ x \in failed \/ x = request[r] \/ \E q \in Registrars \ {r} :
          stage[q] = "audit" /\ request[q] = x
    BY DEF Known
  <2> QED BY <1>1, <1>2, <2>2, <2>3, <2>4
<1>4. ASSUME ~(AppendAudit(r) \/ AppendAuditUnacknowledged(r)), x \in failed
      PROVE  Known(x)'
  <2>1. x \in failed'
    BY <1>4
    DEF Step, Proceed, Receive, TruncateFacts, WriteFacts, PutPointer, RejectFacts, CallIndex,
        StepIndex, FailIndex, FollowIndex, Fail, GoTo, Answer, answers
  <2> QED BY <2>1 DEF Known
<1>5. ASSUME ~(AppendAudit(r) \/ AppendAuditUnacknowledged(r)), stage[r] = "audit", request[r] = x
      PROVE  Known(x)'
  <2>1. Fail(r)
    BY <1>5
    DEF Step, Proceed, Receive, TruncateFacts, WriteFacts, PutPointer, RejectFacts, CallIndex,
        StepIndex, FailIndex
  <2>2. x \in failed'
    BY <1>5, <2>1 DEF Fail, Answer
  <2> QED BY <2>2 DEF Known
<1> QED BY <1>1, <1>2, <1>3, <1>4, <1>5 DEF Known

\* A row has an event, is about to, or a request failed over it with no success since.
LEMMA IndexedIsAuditedStep ==
  ASSUME IInv, NEW r \in Registrars, Step(r)
  PROVE  IndexedIsAudited'
<1>0. stage \in [Registrars -> Stages] /\ row \in [Agents -> Index!Rows \cup {NoRow}]
  BY DEF IInv, TypeOK, Index!TypeOK
<1>1. \A a \in Agents : \A x : row[a] # NoRow /\ x = row[a].rec => Known(x)'
  <2>1. \A a \in Agents : row[a] # NoRow => Known(row[a].rec)
    BY DEF IInv, IndexedIsAudited, Known
  <2> QED BY <2>1, KnownStep
<1>2. \A a \in Agents : \A x : row'[a] # NoRow /\ x = row'[a].rec => Known(x)'
  <2>1. CASE UNCHANGED row
    BY <1>1, <2>1
  <2>2. CASE StepIndex(r) \/ FailIndex(r)
    <3>1. stage[r] = "index" /\ (Index!Execute(r) \/ Index!Fail(r)) /\ FollowIndex(r)
      BY <2>2 DEF StepIndex, FailIndex
    <3>2. PICK x : x = request[r]
      OBVIOUS
    <3>3. CASE ~ UNCHANGED row
      <4>1. /\ row' = [row EXCEPT ![x.agent] = Index!Upserted(r)]
            /\ pc'[r] = "idle" /\ result'[r] \in {"ok", "error"} /\ put[r] = x
        BY <3>1, <3>2, <3>3, StatementStep
      <4>2. Known(x)'
        <5>1. CASE result'[r] = "ok"
          <6>1. stage'[r] = "audit" /\ request'[r] = x
            BY <1>0, <3>1, <3>2, <4>1, <5>1 DEF FollowIndex, GoTo
          <6> QED BY <6>1 DEF Known
        <5>2. CASE result'[r] = "error"
          <6>1. x \in failed'
            BY <3>1, <3>2, <4>1, <5>2 DEF FollowIndex, Answer
          <6> QED BY <6>1 DEF Known
        <5> QED BY <4>1, <5>1, <5>2
      <4>3. \A a \in Agents : row'[a] # NoRow => row'[a] = row[a] \/ row'[a].rec = x
        <5>1. Index!Upserted(r).rec = x
          BY <4>1 DEF Index!Upserted
        <5> QED BY <1>0, <4>1, <5>1
      <4> QED BY <1>1, <4>2, <4>3
    <3> QED BY <2>1, <3>3
  <2> QED
    BY <2>1, <2>2
    DEF Step, Proceed, Receive, TruncateFacts, WriteFacts, PutPointer, RejectFacts, CallIndex,
        AppendAudit, AppendAuditUnacknowledged, Fail, indexVars, Index!Begin
<1>3. \A q \in Requests : Events(q)' = accepted'[q] + unheard'[q]
  BY CountStep
<1>4. \A a \in Agents : \A x : row'[a] # NoRow /\ x = row'[a].rec /\ Events(x)' = 0 =>
        \/ \E q \in Registrars : stage'[q] = "audit" /\ request'[q] = x
        \/ x \in failed'
  BY <1>2 DEF Known
<1> QED BY <1>3, <1>4 DEF IndexedIsAudited, Events

\* A request is sent on to the log by the statement that found or made its record current.
LEMMA AcceptedWasCurrentStep ==
  ASSUME IInv, NEW r \in Registrars, Step(r)
  PROVE  AcceptedWasCurrent'
<1>0. stage \in [Registrars -> Stages] /\ held \in [Registrars -> BOOLEAN]
  BY DEF IInv, TypeOK
<1>1. ASSUME NEW q \in Registrars \ {r}, stage'[q] = "audit"
      PROVE  held'[q]
  <2>1. stage[q] = "audit" /\ held[q]
    BY <1>1, RequestStep DEF OthersUnchanged, IInv, AcceptedWasCurrent
  <2>2. CASE \E req \in Requests : Receive(r, req)
    BY <1>0, <2>1, <2>2 DEF Receive
  <2>3. CASE Witness
    BY <2>1, <2>3 DEF Witness
  <2> QED
    BY <2>1, <2>2, <2>3
    DEF Step, Proceed, TruncateFacts, WriteFacts, PutPointer, RejectFacts, CallIndex, StepIndex,
        FailIndex, FollowIndex, AppendAudit, AppendAuditUnacknowledged, Fail
<1>2. ASSUME stage'[r] = "audit"
      PROVE  held'[r]
  <2>1. CASE StepIndex(r) \/ FailIndex(r)
    <3>1. stage[r] = "index" /\ (Index!Execute(r) \/ Index!Fail(r)) /\ FollowIndex(r)
      BY <2>1 DEF StepIndex, FailIndex
    <3>2. pc'[r] = "idle" /\ result'[r] = "ok"
      BY <1>0, <1>2, <3>1 DEF FollowIndex, GoTo, Answer
    <3>3. put[r] = request[r] /\ Index!Visible'[put[r].agent] = put[r]
      BY <3>1, <3>2, StatementStep
    <3> QED BY <3>1, <3>3 DEF FollowIndex, Witness
  <2> QED
    BY <1>0, <1>2, <2>1
    DEF Step, Proceed, Receive, TruncateFacts, WriteFacts, PutPointer, RejectFacts, CallIndex,
        AppendAudit, AppendAuditUnacknowledged, Fail, GoTo, Answer
<1> QED BY <1>1, <1>2 DEF AcceptedWasCurrent

-----------------------------------------------------------------------------
(* The theorems.                                                              *)

LEMMA IInvInit == Init => IInv
<1> SUFFICES ASSUME Init PROVE IInv
  OBVIOUS
<1>1. Lean!IInv
  BY Lean!IInvInit, SameState, IndexAssumption
  DEF Init, Index!Records, Index!Rows, Index!Archived, Index!Times, Lean!Records, Lean!Rows,
      Lean!Archived, Lean!Times
<1>2. TypeOK
  <2>1. Index!TypeOK
    BY <1>1, SameState DEF Lean!IInv
  <2>2. Facts!FactsTypeOK
    BY DEF Init, Facts!FactsInit, Facts!FactsTypeOK, Facts!FileStates
  <2> QED
    BY <2>1, <2>2, IndexAssumption
    DEF Init, TypeOK, Audit!Init, Stages, Index!Results
<1>3. RequestsAreMade /\ IndexStage /\ StoredByStage /\ AcceptedWasCurrent
  BY DEF Init, Index!Init, RequestsAreMade, IndexStage, StoredByStage, AcceptedWasCurrent
<1>4. ArchivedIsStored /\ IndexedIsStored
  BY DEF Init, Index!Init, ArchivedIsStored, IndexedIsStored, Indexed
<1>5. IndexedIsAudited
  <2>1. \A q : {i \in DOMAIN audit : audit[i] = q} = {}
    BY DEF Init, Audit!Init
  <2>2. \A q : Events(q) = 0
    BY <2>1, FS_EmptySet DEF Events
  <2>3. \A q \in Requests : accepted[q] = 0 /\ unheard[q] = 0
    BY DEF Init
  <2>4. \A a \in Agents : row[a] = NoRow
    BY DEF Init, Index!Init
  <2> QED BY <2>2, <2>3, <2>4 DEF IndexedIsAudited
<1> QED BY <1>1, <1>2, <1>3, <1>4, <1>5 DEF IInv

LEMMA IInvStep == IInv /\ [Next]_vars => IInv'
<1> SUFFICES ASSUME IInv, [Next]_vars PROVE IInv'
  OBVIOUS
<1>1. Lean!IInv' /\ Index!TypeOK'
  BY IndexFollows, IndexInvStep, SameState DEF IInv, Lean!IInv
<1>2. ASSUME NEW r \in Registrars, Step(r)
      PROVE  IInv'
  <2>1. TypeOK'
    BY <1>1, <1>2, FactsStep, RequestStep, AnswerTypesStep DEF TypeOK
  <2>2. RequestsAreMade'
    BY <1>2, RequestStep DEF RequestsAreMade, OthersUnchanged, IInv
  <2>3. IndexStage'
    BY <1>2, RequestStep DEF IndexStage, OthersUnchanged, IInv
  <2> QED
    BY <1>1, <1>2, <2>1, <2>2, <2>3, StoredByStageStep, IndexedIsStoredStep, IndexedIsAuditedStep,
       AcceptedWasCurrentStep
    DEF IInv
<1>3. CASE UNCHANGED vars
  <2>1. Facts!FactsTypeOK' /\ TypeOK'
    BY <1>1, <1>3 DEF vars, factsVars, answers, IInv, TypeOK, Facts!FactsTypeOK
  <2>2. RequestsAreMade' /\ IndexStage' /\ StoredByStage' /\ AcceptedWasCurrent'
    BY <1>3 DEF vars, factsVars, indexVars, IInv, RequestsAreMade, IndexStage, StoredByStage,
                AcceptedWasCurrent, FactsStored, Facts!HasFile, Facts!HasPointer, Document
  <2>3. ArchivedIsStored' /\ IndexedIsStored'
    BY <1>3 DEF vars, factsVars, indexVars, IInv, ArchivedIsStored, IndexedIsStored, Indexed,
                FactsStored, Facts!HasFile, Facts!HasPointer
  <2>4. IndexedIsAudited'
    BY <1>3 DEF vars, indexVars, answers, IInv, IndexedIsAudited, Events
  <2> QED BY <1>1, <2>1, <2>2, <2>3, <2>4 DEF IInv
<1> QED BY <1>2, <1>3 DEF Next, Step

LEMMA IInvInvariant == Spec => []IInv
  BY IInvInit, IInvStep, PTL DEF Spec

\* The stores, the requests and the log are well typed in every behaviour.
THEOREM TypeCorrect == Spec => []TypeOK
<1>1. IInv => TypeOK
  BY DEF IInv
<1> QED BY <1>1, IInvInvariant, PTL

\* No record the index holds or ever held names facts that are missing or malformed,
\* wherever registrations failed.
THEOREM IndexedIsStoredAlways == Spec => []IndexedIsStored
<1>1. IInv => IndexedIsStored
  BY DEF IInv
<1> QED BY <1>1, IInvInvariant, PTL

\* The log has an event of its own for every registration a caller was told of, whatever
\* failed before; what is indexed without one is about to have it or failed since.
THEOREM IndexedIsAuditedAlways == Spec => []IndexedIsAudited
<1>1. IInv => IndexedIsAudited
  BY DEF IInv
<1> QED BY <1>1, IInvInvariant, PTL

\* The log names no record that the index refused or rolled back.
THEOREM AcceptedWasCurrentAlways == Spec => []AcceptedWasCurrent
<1>1. IInv => AcceptedWasCurrent
  BY DEF IInv
<1> QED BY <1>1, IInvInvariant, PTL

-----------------------------------------------------------------------------
(* The refinement: every step is a step of Publication or stutters.           *)

LEMMA PublicationStarts == Init => Stored!PublicationInit
<1>1. Init => Stored!FactsInit
  BY DEF Init, Facts!FactsInit, Stored!FactsInit
<1>2. Init => Stored!RegisterInit
  BY DEF Init, Index!Init, Stored!RegisterInit, Index!Visible, Index!EstablishedAgents,
         Index!Established
<1> QED BY <1>1, <1>2 DEF Stored!PublicationInit

\* The register of the theorems about the index is the one of Publication.
LEMMA SameRegister ==
  /\ Lean!Visible = Index!Visible /\ Lean!EstablishedAgents = Index!EstablishedAgents
  /\ Lean!Visible' = Index!Visible' /\ Lean!EstablishedAgents' = Index!EstablishedAgents'
BY DEF Lean!Visible, Index!Visible, Lean!EstablishedAgents, Index!EstablishedAgents,
       Lean!Established, Index!Established, Lean!Blind, Index!Blind, Lean!Key, Index!Key

LEMMA RegisterStep ==
  ASSUME Lean!IInv, [Lean!Next]_(Lean!vars)
  PROVE  [Stored!RegisterNext]_(Stored!registerVars)
<1>1. [Lean!Register!RegisterNext]_(Lean!Register!registerVars)
  BY Lean!RegisterStep, IndexAssumption
  DEF Index!Records, Index!Rows, Index!Archived, Index!Times, Lean!Records, Lean!Rows,
      Lean!Archived, Lean!Times
<1> QED
  BY <1>1, SameRegister
  DEF Lean!Register!RegisterNext, Stored!RegisterNext, Lean!Register!registerVars, Stored!registerVars,
      Lean!Register!Settle, Stored!Settle, Lean!Register!Replace, Stored!Replace,
      Lean!Register!Race, Stored!Race, Lean!Register!Advance, Stored!Advance,
      Lean!Register!Records, Stored!Records

LEMMA PublicationStep ==
  ASSUME IInv, [Next]_vars
  PROVE  [Stored!PublicationNext]_(Stored!publicationVars)
<1>1. [Stored!RegisterNext]_(Stored!registerVars) /\ IInv'
  BY RegisterStep, IndexFollows, IInvStep DEF IInv
<1>2. CASE UNCHANGED factsVars
  <2>0. UNCHANGED Stored!factsVars
    BY <1>2 DEF factsVars, Stored!factsVars
  <2>1. CASE UNCHANGED Stored!registerVars
    BY <2>0, <2>1 DEF Stored!publicationVars
  <2>2. ASSUME NEW a \in Agents, Stored!Settle(a)
        PROVE  Stored!PublicationNext
    BY <2>0, <2>2 DEF Stored!PublicationNext, Stored!EndFirst
  <2>3. ASSUME NEW x \in Stored!Records, Stored!Replace(x)
        PROVE  Stored!PublicationNext
    <3>1. x \in Index!Records /\ x.agent \in Agents
      BY DEF Stored!Records, Index!Records
    <3>2. Index!Visible'[x.agent] = x
      BY <2>3, <3>1 DEF Stored!Replace, Stored!Race, Stored!Advance, Index!Visible
    <3>3. row'[x.agent] # NoRow /\ row'[x.agent].rec = x
      BY <3>1, <3>2, IndexAssumption DEF Index!Visible
    <3>4. \A d : d = DocumentOf[x.body] => Facts!HasPointer(d)'
      BY <1>1, <3>1, <3>3 DEF IInv, IndexedIsStored, Indexed
    <3>5. Stored!HasPointer(DocumentOf[x.body])
      BY <1>2, <3>1, <3>4 DEF factsVars, Facts!HasPointer, Stored!HasPointer
    <3>6. Stored!Publish(x)
      BY <2>0, <2>3, <3>5 DEF Stored!Publish
    <3> QED BY <3>6 DEF Stored!PublicationNext
  <2> QED BY <1>1, <2>1, <2>2, <2>3 DEF Stored!RegisterNext
<1>3. ASSUME NEW r \in Registrars, TruncateFacts(r) \/ WriteFacts(r) \/ PutPointer(r)
      PROVE  Stored!PublicationNext
  <2>1. UNCHANGED Stored!registerVars
    BY <1>3 DEF TruncateFacts, WriteFacts, PutPointer, indexVars, Stored!registerVars,
                Index!Visible, Index!EstablishedAgents, Index!Established, Index!Blind, Index!Key
  <2>2. PICK d : d = Document(r)
    OBVIOUS
  <2>3. d \in Documents /\ (stage[r] \in {"write", "pointer"} => Stored!HasFile(d))
    BY <1>3, <2>2, BodiesAreDocuments
    DEF IInv, StoredByStage, TruncateFacts, WriteFacts, PutPointer, Facts!HasFile, Stored!HasFile
  <2>4. CASE TruncateFacts(r)
    BY <2>1, <2>2, <2>3, <2>4
    DEF TruncateFacts, Facts!Truncate, Stored!Truncate, Stored!TruncateFile, Stored!PublicationNext
  <2>5. CASE WriteFacts(r)
    BY <2>1, <2>2, <2>3, <2>5
    DEF WriteFacts, Facts!Write, Stored!Write, Stored!WriteFile, Stored!PublicationNext
  <2>6. CASE PutPointer(r)
    BY <2>1, <2>2, <2>3, <2>6
    DEF PutPointer, Facts!PutFactsPointer, Stored!PutFactsPointer, Stored!PutPointer,
        Stored!PublicationNext
  <2> QED BY <1>3, <2>4, <2>5, <2>6
<1> QED
  BY <1>2, <1>3
  DEF Next, Proceed, Receive, RejectFacts, CallIndex, StepIndex, FailIndex, AppendAudit,
      AppendAuditUnacknowledged, Fail, vars

\* To those who read the stores, registrations that interleave and fail anywhere first
\* store facts, then a pointer, then a record that names them.
THEOREM Implementation == Spec => ImplementsPublication
  BY IInvInvariant, PublicationStarts, PublicationStep, PTL
  DEF Spec, ImplementsPublication, Stored!PublicationSpec
=============================================================================
