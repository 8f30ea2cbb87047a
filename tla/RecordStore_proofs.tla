-------------------------- MODULE RecordStore_proofs --------------------------
(***************************************************************************)
(* The safety properties of RecordStore hold for any number of tenants,    *)
(* records, keys and concurrent requests.                                  *)
(***************************************************************************)
EXTENDS RecordStore, TLAPS

\* What storing one more document in a collection does to it.
LEMMA PutMap ==
  ASSUME NEW f, NEW S, NEW T, IsMap(f, S, T), NEW k \in S, NEW v \in T
  PROVE  /\ IsMap(Put(f, k, v), S, T)
         /\ DOMAIN Put(f, k, v) = DOMAIN f \cup {k}
         /\ Put(f, k, v)[k] = v
         /\ \A x \in DOMAIN f : x # k => Put(f, k, v)[x] = f[x]
  BY DEF IsMap, Put

\* A call is a create or an update, with the fields of its kind.
LEMMA CallFields ==
  ASSUME NEW c \in Calls
  PROVE  /\ c.op \in {"create", "update"}
         /\ c.op = "create" => /\ c.tenantId \in Tenants
                               /\ c.workflowId \in WorkflowIds
                               /\ c.key \in Keys \cup {NoKey}
         /\ c.op = "update" => /\ c.tenantId \in Tenants
                               /\ c.recordId \in RecordIds
                               /\ c.expectedVersion \in Nat
                               /\ c.state \in States \cup {NoState}
  BY DomainAssumption DEF CreateCalls, UpdateCalls

\* What an update that is not refused may rely on, and what a refusal can be.
LEMMA UpdateAllowed ==
  ASSUME NEW c, NEW wfs, NEW recs
  PROVE  /\ UpdateRefusal(c, wfs, recs) \in {"notFound", "conflict", "invalid", "none"}
         /\ UpdateRefusal(c, wfs, recs) = "none" =>
              /\ HasRecord(recs, c.recordId, c.tenantId)
              /\ UpToDate(c, recs[c.recordId])
              /\ Allows(c, wfs, recs[c.recordId])
  BY DEF UpdateRefusal

\* The document a create inserts.
LEMMA NewRecordFields ==
  ASSUME NEW c \in Calls, c.op = "create", NEW wf \in Workflows
  PROVE  /\ NewRecord(c, wf) \in Records
         /\ NewRecord(c, wf).tenantId = c.tenantId
         /\ NewRecord(c, wf).workflowId = c.workflowId
         /\ NewRecord(c, wf).idempotencyKey = c.key
         /\ NewRecord(c, wf).version = 1
         /\ Declares(wf, NewRecord(c, wf).state)
<1>1. Len(wf.states) \in Nat /\ Len(wf.states) > 0 /\ wf.states[1] \in States
  BY DEF Workflows
<1>2. NewRecord(c, wf) \in Records
  BY <1>1, CallFields DEF NewRecord, Records
<1>3. Declares(wf, wf.states[1])
  BY <1>1 DEF Declares
<1> QED
  BY <1>2, <1>3 DEF NewRecord

\* The document an update writes.
LEMMA UpdatedFields ==
  ASSUME NEW c \in Calls, c.op = "update", NEW rec \in Records
  PROVE  /\ Updated(rec, c) \in Records
         /\ Updated(rec, c).tenantId = rec.tenantId
         /\ Updated(rec, c).workflowId = rec.workflowId
         /\ Updated(rec, c).idempotencyKey = rec.idempotencyKey
         /\ Updated(rec, c).version = rec.version + 1
         /\ Updated(rec, c).state = IF c.state = NoState THEN rec.state ELSE c.state
<1> DEFINE s == IF c.state = NoState THEN rec.state ELSE c.state
<1>1. s \in States /\ rec.version + 1 \in Nat \ {0}
  BY CallFields DEF Records
<1>2. Updated(rec, c) = [rec EXCEPT !.state = s, !.version = rec.version + 1]
  BY DEF Updated
<1> HIDE DEF s
<1>3. /\ [rec EXCEPT !.state = s, !.version = rec.version + 1] \in Records
      /\ Updated(rec, c).state = s
  BY <1>1, <1>2 DEF Records
<1> QED
  BY <1>1, <1>2, <1>3 DEF Records, s

\* The events written with a record.
LEMMA EventFields ==
  ASSUME NEW r \in Requests, NEW id \in RecordIds, NEW rec \in Records,
         NEW type \in EventTypes
  PROVE  AuditOf(id, rec, type) \in AuditEvents /\ OutboxOf(r, id, rec, type) \in OutboxEvents
  BY DEF AuditOf, OutboxOf, AuditEvents, OutboxEvents, Records

\* The answers that carry a record and those that carry none.
LEMMA AnswerTypes ==
  ASSUME NEW status \in Statuses, NEW id \in RecordIds, NEW rec \in Records
  PROVE  /\ Answer(status) \in Replies /\ Answer(status).status = status
         /\ AnswerWith(status, id, rec) \in Replies
         /\ AnswerWith(status, id, rec).status = status
  BY DEF Answer, AnswerWith, Replies, Records

\* A request that can still take effect is known and has had none.
LEMMA UnfinishedMeans ==
  ASSUME NEW r \in Requests, NEW op, Unfinished(r, op)
  PROVE  /\ call[r].op = op
         /\ reply[r].status \in {"pending", "error"}
         /\ AnswersTellTheTruth => {e \in outbox : e.by = r} = {}
  BY DEF Unfinished, AnswersTellTheTruth

-----------------------------------------------------------------------------

\* TypeOK is not inductive alone: the record that Replay answers with is there
\* because idempotency entries name records.
Arrived == \A r \in Requests : reply[r].status = "none" <=> call[r] = NoCall

TypeInv == TypeOK /\ KeyNamesOneRecord /\ Arrived

\* An answer other than "none" leaves the calls as they are known.
LEMMA ArrivedStays ==
  ASSUME TypeOK, Arrived, UNCHANGED call, NEW r \in Requests, NEW answer \in Replies,
         reply[r].status # "none", answer.status # "none",
         reply' = [reply EXCEPT ![r] = answer]
  PROVE  reply' \in [Requests -> Replies] /\ Arrived'
  BY DEF TypeOK, Arrived

\* The collections start empty, and no request has arrived.
LEMMA TypeInit == Init => TypeInv
<1> SUFFICES ASSUME Init PROVE TypeInv
  OBVIOUS
<1>1. Answer("none") \in Replies /\ Answer("none").status = "none"
  BY DEF Answer, Replies, Statuses
<1>2. \A S, T : IsMap(EmptyMap, S, T)
  BY DEF IsMap, EmptyMap
<1>3. TypeOK
  BY <1>1, <1>2 DEF Init, TypeOK
<1>4. KeyNamesOneRecord
  BY DEF Init, KeyNamesOneRecord, EmptyMap
<1>5. Arrived
  BY <1>1 DEF Init, Arrived
<1> QED
  BY <1>3, <1>4, <1>5 DEF TypeInv

\* Every operation keeps the types, and the entries of the keys.
LEMMA TypeStep == TypeInv /\ [Next]_vars => TypeInv'
<1> SUFFICES ASSUME TypeInv, [Next]_vars PROVE TypeInv'
  OBVIOUS
<1> USE DEF TypeInv
<1>1. ASSUME NEW id \in WorkflowIds, NEW t \in Tenants, NEW states \in StateLists,
             CreateWorkflow(id, t, states)
      PROVE TypeInv'
  <2>1. [tenantId |-> t, states |-> states] \in Workflows
    BY <1>1, DomainAssumption DEF CreateWorkflow, Workflows
  <2>2. IsMap(workflows', WorkflowIds, Workflows)
    BY <1>1, <2>1, PutMap DEF CreateWorkflow, TypeOK
  <2> QED
    BY <1>1, <2>2 DEF CreateWorkflow, TypeOK, KeyNamesOneRecord, Arrived
<1>2. ASSUME NEW r \in Requests, NEW c \in Calls, Receive(r, c)
      PROVE TypeInv'
  <2>1. Answer("pending") \in Replies /\ Answer("pending").status = "pending"
    BY DEF Answer, Replies, Statuses
  <2>2. TypeOK' /\ KeyNamesOneRecord'
    BY <1>2, <2>1 DEF Receive, Respond, db, TypeOK, KeyNamesOneRecord
  <2>3. Arrived'
    BY <1>2, <2>1, DomainAssumption DEF Receive, Respond, TypeOK, Arrived
  <2> QED
    BY <2>2, <2>3
<1>3. ASSUME NEW r \in Requests, NEW id \in RecordIds, Create(r, id)
      PROVE TypeInv'
  <2> DEFINE c == call[r]
             wf == workflows[c.workflowId]
             rec == NewRecord(c, wf)
  <2>1. c \in Calls /\ c.op = "create" /\ wf \in Workflows
    <3>1. reply[r].status # "none" /\ c.op = "create" /\ c.workflowId \in DOMAIN workflows
      BY <1>3, UnfinishedMeans DEF Create, HasWorkflow
    <3> QED
      BY <3>1 DEF TypeOK, IsMap, Arrived
  <2>2. rec \in Records /\ rec.tenantId = c.tenantId /\ rec.idempotencyKey = c.key
    BY <2>1, NewRecordFields
  <2>3. records' = Put(records, id, rec) /\ id \notin DOMAIN records
    BY <1>3 DEF Create
  <2>4. /\ IsMap(records', RecordIds, Records)
        /\ DOMAIN records' = DOMAIN records \cup {id}
        /\ records'[id] = rec
        /\ \A d \in DOMAIN records : records'[d] = records[d]
    BY <2>2, <2>3 DEF TypeOK, IsMap, Put
  <2>5. /\ IsMap(idempotency', Slots, RecordIds)
        /\ \A s \in DOMAIN idempotency : s \in DOMAIN idempotency' /\ idempotency'[s] = idempotency[s]
        /\ \A s \in DOMAIN idempotency' \ DOMAIN idempotency :
             c.key # NoKey /\ s = Slot(c) /\ idempotency'[s] = id
        /\ c.key # NoKey => Slot(c) \in DOMAIN idempotency' /\ idempotency'[Slot(c)] = id
    <3>1. CASE c.key = NoKey
      BY <1>3, <3>1 DEF Create, TypeOK
    <3>2. CASE c.key # NoKey
      <4>1. Slot(c) \in Slots
        BY <2>1, <3>2, CallFields DEF Slot, Slots
      <4>2. idempotency' = Put(idempotency, Slot(c), id) /\ Slot(c) \notin DOMAIN idempotency
        BY <1>3, <3>2 DEF Create, KeyFree
      <4> QED
        BY <3>2, <4>1, <4>2 DEF TypeOK, IsMap, Put
    <3> QED BY <3>1, <3>2
  <2>6. audit' \subseteq AuditEvents /\ outbox' \subseteq OutboxEvents
    BY <1>3, <2>2, EventFields DEF Create, Journalled, TypeOK, EventTypes
  <2>7. reply' \in [Requests -> Replies] /\ Arrived'
    <3>1. PICK answer \in Replies : /\ answer.status # "none"
                                    /\ reply' = [reply EXCEPT ![r] = answer]
      BY <1>3, <2>2, AnswerTypes DEF Create, Respond, Statuses
    <3> QED
      BY <1>3, <3>1, UnfinishedMeans, ArrivedStays DEF Create
  <2>8. TypeOK'
    BY <1>3, <2>4, <2>5, <2>6, <2>7 DEF Create, TypeOK
  <2>9. KeyNamesOneRecord'
    <3>1. \A s \in DOMAIN idempotency' :
            /\ idempotency'[s] \in DOMAIN records'
            /\ records'[idempotency'[s]].tenantId = s[1]
            /\ records'[idempotency'[s]].idempotencyKey = s[2]
      BY <2>2, <2>4, <2>5 DEF KeyNamesOneRecord, Slot
    <3>2. ASSUME NEW d \in DOMAIN records',
                 records'[d].idempotencyKey # NoKey
          PROVE  LET s == <<records'[d].tenantId, records'[d].idempotencyKey>>
                 IN s \in DOMAIN idempotency' /\ idempotency'[s] = d
      <4>1. CASE d = id
        BY <2>2, <2>4, <2>5, <3>2, <4>1 DEF Slot
      <4>2. CASE d # id
        BY <2>4, <2>5, <3>2, <4>2 DEF KeyNamesOneRecord
      <4> QED BY <4>1, <4>2
    <3> QED BY <3>1, <3>2 DEF KeyNamesOneRecord
  <2> QED BY <2>7, <2>8, <2>9
<1>4. ASSUME NEW r \in Requests, Replay(r)
      PROVE TypeInv'
  <2> DEFINE slot == Slot(call[r])
  <2>1. idempotency[slot] \in DOMAIN records /\ idempotency[slot] \in RecordIds
    BY <1>4 DEF Replay, KeyNamesOneRecord, TypeOK, IsMap
  <2>2. records[idempotency[slot]] \in Records
    BY <2>1 DEF TypeOK, IsMap
  <2>3. reply' \in [Requests -> Replies] /\ Arrived'
    <3>1. PICK answer \in Replies : /\ answer.status # "none"
                                    /\ reply' = [reply EXCEPT ![r] = answer]
      BY <1>4, <2>1, <2>2, AnswerTypes DEF Replay, Respond, Statuses
    <3> QED
      BY <1>4, <3>1, ArrivedStays DEF Replay, Pending
  <2>4. UNCHANGED <<workflows, records, idempotency, audit, outbox, call>>
    BY <1>4 DEF Replay, db
  <2> QED
    BY <2>3, <2>4 DEF TypeOK, KeyNamesOneRecord
<1>5. ASSUME NEW r \in Requests, Update(r)
      PROVE TypeInv'
  <2> DEFINE c == call[r]
             id == c.recordId
             rec == Updated(records[id], c)
  <2>1. c \in Calls /\ c.op = "update" /\ HasRecord(records, id, c.tenantId)
    <3>1. reply[r].status # "none" /\ c.op = "update" /\ HasRecord(records, id, c.tenantId)
      BY <1>5, UnfinishedMeans, UpdateAllowed DEF Update
    <3> QED
      BY <3>1 DEF TypeOK, Arrived
  <2>2. id \in RecordIds /\ id \in DOMAIN records /\ records[id] \in Records
    BY <2>1, CallFields DEF HasRecord, TypeOK, IsMap
  <2>3. /\ rec \in Records
        /\ rec.tenantId = records[id].tenantId
        /\ rec.idempotencyKey = records[id].idempotencyKey
    BY <2>1, <2>2, UpdatedFields
  <2>4. /\ IsMap(records', RecordIds, Records)
        /\ DOMAIN records' = DOMAIN records
        /\ records'[id] = rec
        /\ \A d \in DOMAIN records : d # id => records'[d] = records[d]
    BY <1>5, <2>2, <2>3 DEF Update, TypeOK, IsMap, Put
  <2>5. audit' \subseteq AuditEvents /\ outbox' \subseteq OutboxEvents
    BY <1>5, <2>2, <2>3, EventFields DEF Update, Journalled, TypeOK, EventTypes
  <2>6. reply' \in [Requests -> Replies] /\ Arrived'
    <3>1. PICK answer \in Replies : /\ answer.status # "none"
                                    /\ reply' = [reply EXCEPT ![r] = answer]
      BY <1>5, <2>2, <2>3, AnswerTypes DEF Update, Respond, Statuses
    <3> QED
      BY <1>5, <3>1, UnfinishedMeans, ArrivedStays DEF Update
  <2>7. TypeOK'
    BY <1>5, <2>4, <2>5, <2>6 DEF Update, TypeOK
  <2>8. \A d \in DOMAIN records : /\ records'[d].tenantId = records[d].tenantId
                                  /\ records'[d].idempotencyKey = records[d].idempotencyKey
    BY <2>3, <2>4
  <2>9. idempotency' = idempotency
    BY <1>5 DEF Update
  <2>10. KeyNamesOneRecord'
    BY <2>4, <2>8, <2>9 DEF KeyNamesOneRecord
  <2> QED BY <2>6, <2>7, <2>10
<1>6. ASSUME NEW r \in Requests, RefuseCreate(r) \/ RefuseUpdate(r) \/ Fail(r)
      PROVE TypeInv'
  <2>1. PICK status \in Statuses \ {"none"} : reply' = [reply EXCEPT ![r] = Answer(status)]
    BY <1>6, UpdateAllowed DEF RefuseCreate, RefuseUpdate, Fail, Respond, Statuses
  <2>2. Answer(status) \in Replies /\ Answer(status).status # "none"
    BY DEF Answer, Replies
  <2>3. UNCHANGED <<workflows, records, idempotency, audit, outbox, call>>
    BY <1>6 DEF RefuseCreate, RefuseUpdate, Fail, db
  <2>4. reply' \in [Requests -> Replies] /\ Arrived'
    BY <1>6, <2>1, <2>2, <2>3, ArrivedStays DEF RefuseCreate, RefuseUpdate, Fail, Pending
  <2> QED
    BY <2>3, <2>4 DEF TypeOK, KeyNamesOneRecord
<1>7. CASE UNCHANGED vars
  BY <1>7 DEF vars, TypeOK, KeyNamesOneRecord, Arrived
<1> QED
  BY <1>1, <1>2, <1>3, <1>4, <1>5, <1>6, <1>7 DEF Next

\* Every reachable state has its type, so that no operation ever reads a document
\* that is not there.
THEOREM TypeCorrect == Spec => []TypeOK
<1>1. TypeInv => TypeOK
  BY DEF TypeInv
<1> QED
  BY <1>1, TypeInit, TypeStep, PTL DEF Spec

\* An idempotency key never names two records, however many requests race for it.
THEOREM KeysNameOneRecord == Spec => []KeyNamesOneRecord
<1>1. TypeInv => KeyNamesOneRecord
  BY DEF TypeInv
<1> QED
  BY <1>1, TypeInit, TypeStep, PTL DEF Spec

-----------------------------------------------------------------------------

\* The answers of creates with a key are tied to the idempotency entry of the key,
\* and a record that was created was created in version 1.
AnswersNameSlot ==
  \A r \in Requests : reply[r].status \in {"created", "replay"} =>
    /\ reply[r].status = "created" => reply[r].version = 1
    /\ call[r].key # NoKey => /\ Slot(call[r]) \in DOMAIN idempotency
                              /\ idempotency[Slot(call[r])] = reply[r].recordId

Inv ==
  /\ TypeInv
  /\ Journal
  /\ AnswersTellTheTruth
  /\ NoLostUpdate
  /\ AnswersNameSlot
  /\ StateDeclared

\* The fields of the two events.
LEMMA EventContents ==
  ASSUME NEW r, NEW id, NEW rec, NEW type
  PROVE  LET e == OutboxOf(r, id, rec, type) IN
         /\ e.aggregateId = id /\ e.tenantId = rec.tenantId /\ e.type = type
         /\ e.state = rec.state /\ e.version = rec.version /\ e.by = r
         /\ AuditOf(id, rec, type) =
              [tenantId |-> e.tenantId, recordId |-> e.aggregateId, type |-> e.type,
               state |-> e.state, version |-> e.version]
  BY DEF OutboxOf, AuditOf

\* Writing the next version of a record together with its events, as the effect of
\* a request that had none, keeps the journal and the truth of the answers.
LEMMA EffectStep ==
  ASSUME TypeOK, Journal, AnswersTellTheTruth,
         NEW r \in Requests, NEW id \in RecordIds, NEW rec \in Records,
         NEW type \in EventTypes, NEW answer \in Replies,
         {e \in outbox : e.by = r} = {},
         records' = Put(records, id, rec),
         Journalled(r, id, rec, type),
         id \in DOMAIN records => /\ rec.version = records[id].version + 1
                                  /\ rec.tenantId = records[id].tenantId
                                  /\ type = "record.updated",
         id \notin DOMAIN records => rec.version = 1 /\ type = "record.created",
         reply' = [reply EXCEPT ![r] = answer],
         \/ answer.status = "error"
         \/ /\ answer.status \in {"created", "updated"}
            /\ answer.recordId = id /\ answer.version = rec.version
  PROVE  Journal' /\ AnswersTellTheTruth'
<1> DEFINE new == OutboxOf(r, id, rec, type)
<1>1. /\ new.aggregateId = id /\ new.tenantId = rec.tenantId /\ new.type = type
      /\ new.state = rec.state /\ new.version = rec.version /\ new.by = r
      /\ AuditOf(id, rec, type) =
           [tenantId |-> new.tenantId, recordId |-> new.aggregateId, type |-> new.type,
            state |-> new.state, version |-> new.version]
  BY EventContents
<1>2. outbox' = outbox \cup {new} /\ audit' = audit \cup {AuditOf(id, rec, type)}
  BY DEF Journalled
<1> HIDE DEF new
<1>3. /\ DOMAIN records' = DOMAIN records \cup {id}
      /\ records'[id] = rec
      /\ \A d \in DOMAIN records : d # id => records'[d] = records[d]
  BY DEF Put
<1>4. /\ rec.version \in Nat \ {0}
      /\ \A d \in DOMAIN records : records[d].version \in Nat \ {0}
      /\ \A e \in outbox : e.version \in Nat \ {0}
  BY DEF TypeOK, IsMap, Records, OutboxEvents
<1>5. \A e \in outbox : e.aggregateId = id => id \in DOMAIN records /\ e.version < rec.version
  BY <1>4 DEF Journal
<1>6. Journal'
  <2>1. ASSUME NEW d \in DOMAIN records', NEW v \in 1..records'[d].version
        PROVE  \E e \in outbox' : e.aggregateId = d /\ e.version = v
    <3>1. CASE d = id /\ v = rec.version
      BY <1>1, <1>2, <3>1
    <3>2. CASE d = id /\ v # rec.version
      <4>1. id \in DOMAIN records /\ v \in 1..records[id].version
        BY <1>3, <1>4, <2>1, <3>2
      <4> QED
        BY <1>2, <3>2, <4>1 DEF Journal
    <3>3. CASE d # id
      <4>1. d \in DOMAIN records /\ v \in 1..records[d].version
        BY <1>3, <2>1, <3>3
      <4> QED
        BY <1>2, <4>1 DEF Journal
    <3> QED BY <3>1, <3>2, <3>3
  <2>2. ASSUME NEW e \in outbox', NEW f \in outbox',
               e.aggregateId = f.aggregateId, e.version = f.version
        PROVE  e = f
    <3>1. CASE e \in outbox /\ f \in outbox
      BY <2>2, <3>1 DEF Journal
    <3>2. CASE e = new /\ f \in outbox
      BY <1>1, <1>4, <1>5, <2>2, <3>2
    <3>3. CASE f = new /\ e \in outbox
      BY <1>1, <1>4, <1>5, <2>2, <3>3
    <3> QED BY <1>2, <3>1, <3>2, <3>3
  <2>3. ASSUME NEW e \in outbox'
        PROVE  /\ e.aggregateId \in DOMAIN records'
               /\ e.tenantId = records'[e.aggregateId].tenantId
               /\ e.version \in 1..records'[e.aggregateId].version
               /\ e.version = records'[e.aggregateId].version =>
                    e.state = records'[e.aggregateId].state
               /\ (e.type = "record.created") <=> (e.version = 1)
    <3>1. CASE e = new
      <4>1. (type = "record.created") <=> (rec.version = 1)
        BY <1>4
      <4> QED
        BY <1>1, <1>3, <1>4, <3>1, <4>1
    <3>2. CASE e \in outbox /\ e.aggregateId = id
      <4>1. /\ id \in DOMAIN records
            /\ e.tenantId = records[id].tenantId
            /\ e.version \in 1..records[id].version
            /\ (e.type = "record.created") <=> (e.version = 1)
        BY <3>2 DEF Journal
      <4> QED
        BY <1>3, <1>4, <3>2, <4>1
    <3>3. CASE e \in outbox /\ e.aggregateId # id
      <4>1. records'[e.aggregateId] = records[e.aggregateId] /\ e.aggregateId \in DOMAIN records'
        BY <1>3, <3>3 DEF Journal
      <4> QED
        BY <3>3, <4>1 DEF Journal
    <3> QED BY <1>2, <3>1, <3>2, <3>3
  <2>4. audit' = {[tenantId |-> e.tenantId, recordId |-> e.aggregateId, type |-> e.type,
                   state |-> e.state, version |-> e.version] : e \in outbox'}
    BY <1>1, <1>2 DEF Journal
  <2> QED BY <2>1, <2>2, <2>3, <2>4 DEF Journal
<1>7. AnswersTellTheTruth'
  <2> SUFFICES ASSUME NEW q \in Requests
               PROVE  LET effects == {e \in outbox' : e.by = q} IN
                      /\ \A e, f \in effects : e = f
                      /\ reply'[q].status \in {"created", "updated"} =>
                           \E e \in effects : /\ e.aggregateId = reply'[q].recordId
                                              /\ e.version = reply'[q].version
                      /\ reply'[q].status \notin {"created", "updated", "error"} =>
                           effects = {}
    BY DEF AnswersTellTheTruth
  <2>1. CASE q = r
    <3>1. {e \in outbox' : e.by = r} = {new}
      BY <1>1, <1>2
    <3>2. reply'[r] = answer
      BY DEF TypeOK
    <3> QED BY <1>1, <2>1, <3>1, <3>2
  <2>2. CASE q # r
    <3>1. {e \in outbox' : e.by = q} = {e \in outbox : e.by = q}
      BY <1>1, <1>2, <2>2
    <3>2. reply'[q] = reply[q]
      BY <2>2 DEF TypeOK
    <3> QED BY <3>1, <3>2 DEF AnswersTellTheTruth
  <2> QED BY <2>1, <2>2
<1> QED BY <1>6, <1>7

\* There is no event to tell of before the first request.
LEMMA InvInit == Init => Inv
<1> SUFFICES ASSUME Init PROVE Inv
  OBVIOUS
<1>1. Answer("none").status = "none"
  BY DEF Answer
<1>2. Journal /\ NoLostUpdate /\ StateDeclared
  BY DEF Init, Journal, NoLostUpdate, StateDeclared, EmptyMap
<1>3. AnswersTellTheTruth /\ AnswersNameSlot
  BY <1>1 DEF Init, AnswersTellTheTruth, AnswersNameSlot
<1> QED
  BY <1>2, <1>3, TypeInit DEF Inv

\* A step that changes no record and no event, and answers at most one pending
\* request, without claiming an effect, keeps what is said of answers and events.
LEMMA QuietStep ==
  ASSUME TypeOK, Journal, AnswersTellTheTruth, NoLostUpdate,
         UNCHANGED <<records, audit, outbox, call>>,
         NEW r \in Requests, NEW answer \in Replies,
         reply[r].status = "pending",
         answer.status \notin {"created", "updated"},
         reply' = [reply EXCEPT ![r] = answer]
  PROVE  Journal' /\ AnswersTellTheTruth' /\ NoLostUpdate'
<1>1. Journal' /\ NoLostUpdate'
  BY DEF Journal, NoLostUpdate
<1>2. reply'[r] = answer /\ \A q \in Requests : q # r => reply'[q] = reply[q]
  BY DEF TypeOK
<1>3. {e \in outbox : e.by = r} = {}
  BY DEF AnswersTellTheTruth
<1>4. AnswersTellTheTruth'
  BY <1>2, <1>3 DEF AnswersTellTheTruth
<1> QED BY <1>1, <1>4

\* Every operation keeps the journal, the answers and the states.
LEMMA InvStep == Inv /\ [Next]_vars => Inv'
<1> SUFFICES ASSUME Inv, [Next]_vars PROVE Inv'
  OBVIOUS
<1>0. TypeInv /\ TypeInv'
  BY TypeStep DEF Inv
<1>a. TypeOK /\ Arrived /\ KeyNamesOneRecord /\ Journal /\ AnswersTellTheTruth
      /\ NoLostUpdate /\ AnswersNameSlot /\ StateDeclared
  BY DEF Inv, TypeInv
<1>1. ASSUME NEW id \in WorkflowIds, NEW t \in Tenants, NEW states \in StateLists,
             CreateWorkflow(id, t, states)
      PROVE Inv'
  <2>1. UNCHANGED <<records, idempotency, audit, outbox, call, reply>>
    BY <1>1 DEF CreateWorkflow
  <2>2. Journal' /\ AnswersTellTheTruth' /\ NoLostUpdate' /\ AnswersNameSlot'
    BY <1>a, <2>1 DEF Journal, AnswersTellTheTruth, NoLostUpdate, AnswersNameSlot
  <2>3. \A w \in DOMAIN workflows : w \in DOMAIN workflows' /\ workflows'[w] = workflows[w]
    BY <1>1 DEF CreateWorkflow, Put
  <2>4. StateDeclared'
    BY <1>a, <2>1, <2>3 DEF StateDeclared, HasWorkflow, Declares
  <2> QED
    BY <1>0, <2>2, <2>4 DEF Inv
<1>2. ASSUME NEW r \in Requests, NEW c \in Calls, Receive(r, c)
      PROVE Inv'
  <2>1. UNCHANGED <<workflows, records, idempotency, audit, outbox>>
    BY <1>2 DEF Receive, db
  <2>2. /\ reply[r].status = "none" /\ reply'[r].status = "pending"
        /\ \A q \in Requests : q # r => reply'[q] = reply[q] /\ call'[q] = call[q]
    BY <1>2, <1>a DEF Receive, Respond, Answer, TypeOK
  <2>3. {e \in outbox : e.by = r} = {}
    BY <1>a, <2>2 DEF AnswersTellTheTruth
  <2>4. Journal' /\ StateDeclared'
    BY <1>a, <2>1 DEF Journal, StateDeclared, HasWorkflow, Declares
  <2>5. AnswersTellTheTruth'
    BY <1>a, <2>1, <2>2, <2>3 DEF AnswersTellTheTruth
  <2>6. \A e \in outbox : e.by \in Requests /\ e.by # r
    BY <1>a, <2>3 DEF TypeOK, OutboxEvents
  <2>7. NoLostUpdate'
    BY <1>a, <2>1, <2>2, <2>6 DEF NoLostUpdate
  <2>8. AnswersNameSlot'
    BY <1>a, <2>1, <2>2 DEF AnswersNameSlot
  <2> QED
    BY <1>0, <2>4, <2>5, <2>7, <2>8 DEF Inv
<1>3. ASSUME NEW r \in Requests, NEW id \in RecordIds, Create(r, id)
      PROVE Inv'
  <2> DEFINE c == call[r]
             wf == workflows[c.workflowId]
             rec == NewRecord(c, wf)
             new == OutboxOf(r, id, rec, "record.created")
  <2>1. /\ reply[r].status # "none" /\ c.op = "create"
        /\ {e \in outbox : e.by = r} = {}
        /\ HasWorkflow(workflows, c.workflowId, c.tenantId)
        /\ id \notin DOMAIN records
        /\ records' = Put(records, id, rec)
        /\ Journalled(r, id, rec, "record.created")
        /\ UNCHANGED <<workflows, call>>
    BY <1>3, <1>a, UnfinishedMeans DEF Create
  <2>2. c \in Calls /\ wf \in Workflows
    BY <1>a, <2>1 DEF TypeOK, IsMap, Arrived, HasWorkflow
  <2>3. /\ rec \in Records /\ rec.tenantId = c.tenantId /\ rec.version = 1
        /\ rec.workflowId = c.workflowId /\ Declares(wf, rec.state)
    BY <2>1, <2>2, NewRecordFields
  <2>4. PICK answer \in Replies :
          /\ reply' = [reply EXCEPT ![r] = answer]
          /\ \/ answer.status = "error"
             \/ answer = AnswerWith("created", id, rec)
    BY <1>3, <2>3, AnswerTypes DEF Create, Respond, Statuses
  <2>5. answer.status # "error" =>
          answer.status = "created" /\ answer.recordId = id /\ answer.version = 1
    BY <2>3, <2>4 DEF AnswerWith
  <2> HIDE DEF rec
  <2>6. Journal' /\ AnswersTellTheTruth'
    BY <1>a, <2>1, <2>3, <2>4, <2>5, EffectStep DEF EventTypes
  <2>7. new.by = r /\ new.tenantId = c.tenantId /\ new.type = "record.created"
    BY <2>3, EventContents
  <2>8. outbox' = outbox \cup {new}
    BY <2>1 DEF Journalled
  <2> HIDE DEF new
  <2>9. NoLostUpdate'
    <3> SUFFICES ASSUME NEW e \in outbox'
                 PROVE  /\ call'[e.by] # NoCall
                        /\ call'[e.by].tenantId = e.tenantId
                        /\ e.type = "record.updated" =>
                             /\ call'[e.by].op = "update"
                             /\ call'[e.by].recordId = e.aggregateId
                             /\ call'[e.by].expectedVersion + 1 = e.version
                             /\ call'[e.by].state \in {NoState, e.state}
      BY DEF NoLostUpdate
    <3>1. CASE e = new
      BY <2>1, <2>2, <2>7, <3>1, DomainAssumption
    <3>2. CASE e \in outbox
      BY <1>a, <2>1, <3>2 DEF NoLostUpdate
    <3> QED BY <2>8, <3>1, <3>2
  <2>10. AnswersNameSlot'
    <3>1. /\ \A s \in DOMAIN idempotency :
               s \in DOMAIN idempotency' /\ idempotency'[s] = idempotency[s]
          /\ c.key # NoKey => Slot(c) \in DOMAIN idempotency' /\ idempotency'[Slot(c)] = id
      BY <1>3 DEF Create, KeyFree, Put
    <3>2. reply'[r] = answer /\ \A q \in Requests : q # r => reply'[q] = reply[q]
      BY <1>a, <2>4 DEF TypeOK
    <3>3. answer.status \in {"error", "created"}
      BY <2>4, <2>5
    <3> QED
      BY <1>a, <2>1, <2>5, <3>1, <3>2, <3>3 DEF AnswersNameSlot
  <2>11. StateDeclared'
    <3>1. \A d \in DOMAIN records' : (d = id /\ records'[d] = rec)
                                     \/ (d \in DOMAIN records /\ records'[d] = records[d])
      BY <2>1 DEF Put
    <3>2. HasWorkflow(workflows, rec.workflowId, rec.tenantId)
          /\ Declares(workflows[rec.workflowId], rec.state)
      BY <2>1, <2>3
    <3> QED
      BY <1>a, <2>1, <3>1, <3>2 DEF StateDeclared, HasWorkflow, Declares
  <2> QED
    BY <1>0, <2>6, <2>9, <2>10, <2>11 DEF Inv
<1>4. ASSUME NEW r \in Requests, Replay(r)
      PROVE Inv'
  <2> DEFINE slot == Slot(call[r])
             answer == AnswerWith("replay", idempotency[slot], records[idempotency[slot]])
  <2>1. /\ reply[r].status = "pending" /\ slot \in DOMAIN idempotency
        /\ reply' = [reply EXCEPT ![r] = answer]
        /\ UNCHANGED <<workflows, records, idempotency, audit, outbox, call>>
    BY <1>4 DEF Replay, Pending, Respond, db
  <2>2. /\ answer \in Replies
        /\ answer.status = "replay" /\ answer.recordId = idempotency[slot]
    <3>1. idempotency[slot] \in RecordIds /\ records[idempotency[slot]] \in Records
      BY <1>a, <2>1 DEF KeyNamesOneRecord, TypeOK, IsMap
    <3> QED BY <3>1, AnswerTypes DEF AnswerWith, Statuses
  <2> HIDE DEF answer
  <2>3. Journal' /\ AnswersTellTheTruth' /\ NoLostUpdate'
    BY <1>a, <2>1, <2>2, QuietStep
  <2>4. reply'[r] = answer /\ \A q \in Requests : q # r => reply'[q] = reply[q]
    BY <1>a, <2>1 DEF TypeOK
  <2>5. AnswersNameSlot'
    BY <1>a, <2>1, <2>2, <2>4 DEF AnswersNameSlot
  <2>6. StateDeclared'
    BY <1>a, <2>1 DEF StateDeclared, HasWorkflow, Declares
  <2> QED
    BY <1>0, <2>3, <2>5, <2>6 DEF Inv
<1>5. ASSUME NEW r \in Requests, Update(r)
      PROVE Inv'
  <2> DEFINE c == call[r]
             id == c.recordId
             rec == Updated(records[id], c)
             new == OutboxOf(r, id, rec, "record.updated")
  <2>1. /\ reply[r].status # "none" /\ c.op = "update"
        /\ {e \in outbox : e.by = r} = {}
        /\ HasRecord(records, id, c.tenantId)
        /\ UpToDate(c, records[id])
        /\ Allows(c, workflows, records[id])
        /\ records' = Put(records, id, rec)
        /\ Journalled(r, id, rec, "record.updated")
        /\ UNCHANGED <<workflows, idempotency, call>>
    BY <1>5, <1>a, UnfinishedMeans, UpdateAllowed DEF Update
  <2>2. c \in Calls /\ id \in RecordIds /\ id \in DOMAIN records /\ records[id] \in Records
    <3>1. c \in Calls
      BY <1>a, <2>1 DEF TypeOK, Arrived
    <3> QED BY <1>a, <2>1, <3>1, CallFields DEF HasRecord, TypeOK, IsMap
  <2>3. /\ rec \in Records
        /\ rec.tenantId = records[id].tenantId /\ rec.workflowId = records[id].workflowId
        /\ rec.version = records[id].version + 1
        /\ rec.state = IF c.state = NoState THEN records[id].state ELSE c.state
    BY <2>1, <2>2, UpdatedFields
  <2>4. PICK answer \in Replies :
          /\ reply' = [reply EXCEPT ![r] = answer]
          /\ \/ answer.status = "error"
             \/ answer = AnswerWith("updated", id, rec)
    BY <1>5, <2>2, <2>3, AnswerTypes DEF Update, Respond, Statuses
  <2>5. answer.status # "error" =>
          answer.status = "updated" /\ answer.recordId = id /\ answer.version = rec.version
    BY <2>4 DEF AnswerWith
  <2> HIDE DEF rec
  <2>6. Journal' /\ AnswersTellTheTruth'
    BY <1>a, <2>1, <2>2, <2>3, <2>4, <2>5, EffectStep DEF EventTypes
  <2>7. /\ new.by = r /\ new.tenantId = c.tenantId /\ new.aggregateId = id
        /\ new.version = c.expectedVersion + 1 /\ c.state \in {NoState, new.state}
    BY <2>1, <2>3, EventContents DEF UpToDate, HasRecord
  <2>8. outbox' = outbox \cup {new}
    BY <2>1 DEF Journalled
  <2> HIDE DEF new
  <2>9. NoLostUpdate'
    <3> SUFFICES ASSUME NEW e \in outbox'
                 PROVE  /\ call'[e.by] # NoCall
                        /\ call'[e.by].tenantId = e.tenantId
                        /\ e.type = "record.updated" =>
                             /\ call'[e.by].op = "update"
                             /\ call'[e.by].recordId = e.aggregateId
                             /\ call'[e.by].expectedVersion + 1 = e.version
                             /\ call'[e.by].state \in {NoState, e.state}
      BY DEF NoLostUpdate
    <3>1. CASE e = new
      BY <2>1, <2>2, <2>7, <3>1, DomainAssumption
    <3>2. CASE e \in outbox
      BY <1>a, <2>1, <3>2 DEF NoLostUpdate
    <3> QED BY <2>8, <3>1, <3>2
  <2>10. AnswersNameSlot'
    <3>1. reply'[r] = answer /\ \A q \in Requests : q # r => reply'[q] = reply[q]
      BY <1>a, <2>4 DEF TypeOK
    <3>2. answer.status \in {"error", "updated"}
      BY <2>4, <2>5
    <3> QED
      BY <1>a, <2>1, <3>1, <3>2 DEF AnswersNameSlot
  <2>11. StateDeclared'
    <3>1. \A d \in DOMAIN records' : d \in DOMAIN records
            /\ records'[d] = IF d = id THEN rec ELSE records[d]
      BY <2>1, <2>2 DEF Put
    <3>2. HasWorkflow(workflows, rec.workflowId, rec.tenantId)
          /\ Declares(workflows[rec.workflowId], rec.state)
      BY <1>a, <2>1, <2>2, <2>3 DEF StateDeclared, Allows
    <3> QED
      BY <1>a, <2>1, <3>1, <3>2 DEF StateDeclared, HasWorkflow, Declares
  <2> QED
    BY <1>0, <2>6, <2>9, <2>10, <2>11 DEF Inv
<1>6. ASSUME NEW r \in Requests, RefuseCreate(r) \/ RefuseUpdate(r) \/ Fail(r)
      PROVE Inv'
  <2>1. PICK status \in {"notFound", "conflict", "invalid", "error"} :
          reply' = [reply EXCEPT ![r] = Answer(status)]
    BY <1>6, UpdateAllowed DEF RefuseCreate, RefuseUpdate, Fail, Respond
  <2>2. reply[r].status = "pending"
        /\ UNCHANGED <<workflows, records, idempotency, audit, outbox, call>>
    BY <1>6 DEF RefuseCreate, RefuseUpdate, Fail, Pending, db
  <2>3. Answer(status) \in Replies /\ Answer(status).status = status
    BY DEF Answer, Replies, Statuses
  <2>4. Journal' /\ AnswersTellTheTruth' /\ NoLostUpdate'
    BY <1>a, <2>1, <2>2, <2>3, QuietStep
  <2>5. reply'[r].status = status /\ \A q \in Requests : q # r => reply'[q] = reply[q]
    BY <1>a, <2>1, <2>3 DEF TypeOK
  <2>6. AnswersNameSlot' /\ StateDeclared'
    BY <1>a, <2>2, <2>5 DEF AnswersNameSlot, StateDeclared, HasWorkflow, Declares
  <2> QED
    BY <1>0, <2>4, <2>6 DEF Inv
<1>7. CASE UNCHANGED vars
  <2>1. Journal' /\ AnswersTellTheTruth' /\ NoLostUpdate'
    BY <1>7, <1>a DEF vars, Journal, AnswersTellTheTruth, NoLostUpdate
  <2>2. AnswersNameSlot' /\ StateDeclared'
    BY <1>7, <1>a DEF vars, AnswersNameSlot, StateDeclared, HasWorkflow, Declares
  <2> QED
    BY <1>0, <2>1, <2>2 DEF Inv
<1> QED
  BY <1>1, <1>2, <1>3, <1>4, <1>5, <1>6, <1>7 DEF Next

-----------------------------------------------------------------------------
(* What a caller of the store may conclude from its answers: HttpApi relies on it. *)

\* An answer that shows a record, or says that its version is another one, is about
\* a record of the caller's tenant; an answer "updated" names the version after the
\* one the caller had seen; and a record is created by creates only.
Told ==
  /\ \A r \in Requests :
       LET c == call[r] IN
       /\ reply[r].status \in {"created", "replay"} =>
            c.op = "create" /\ HasRecord(records, reply[r].recordId, c.tenantId)
       /\ reply[r].status = "updated" =>
            /\ c.op = "update" /\ HasRecord(records, c.recordId, c.tenantId)
            /\ reply[r].recordId = c.recordId
            /\ reply[r].version = c.expectedVersion + 1 /\ c.expectedVersion > 0
       /\ reply[r].status = "conflict" =>
            c.op = "update" /\ HasRecord(records, c.recordId, c.tenantId)
  /\ \A e \in outbox : e.type = "record.created" => call[e.by].op = "create"

\* Documents never leave their tenant, and a definite answer is the last.
Kept ==
  /\ \A id \in DOMAIN records :
       id \in DOMAIN records' /\ records'[id].tenantId = records[id].tenantId
  /\ \A id \in DOMAIN workflows :
       id \in DOMAIN workflows' /\ workflows'[id].tenantId = workflows[id].tenantId
  /\ \A r \in Requests :
       reply[r].status \notin {"none", "pending", "error"} => reply'[r] = reply[r]

\* Nothing is told before the first request.
LEMMA ToldInit == Init => Told
BY DEF Init, Told, Answer

\* Every step keeps the documents where they are and the definite answers as they
\* are.
LEMMA KeptStep == Inv /\ [Next]_vars => Kept
<1> SUFFICES ASSUME Inv, [Next]_vars PROVE Kept
  OBVIOUS
<1>a. TypeOK /\ Arrived
  BY DEF Inv, TypeInv
<1>1. ASSUME NEW id \in WorkflowIds, NEW t \in Tenants, NEW states \in StateLists,
             CreateWorkflow(id, t, states)
      PROVE Kept
  BY <1>1 DEF CreateWorkflow, Put, Kept
<1>2. ASSUME NEW r \in Requests, NEW c \in Calls, Receive(r, c)
      PROVE Kept
  BY <1>2, <1>a DEF Receive, Respond, db, Kept, TypeOK
<1>3. ASSUME NEW r \in Requests, NEW id \in RecordIds, Create(r, id)
      PROVE Kept
  <2>1. \A d \in DOMAIN records : d \in DOMAIN records' /\ records'[d] = records[d]
    BY <1>3 DEF Create, Put
  <2>2. reply[r].status \in {"pending", "error"} /\ UNCHANGED workflows
    BY <1>3, UnfinishedMeans DEF Create
  <2>3. \A q \in Requests : q # r => reply'[q] = reply[q]
    BY <1>3, <1>a DEF Create, Respond, TypeOK
  <2> QED
    BY <2>1, <2>2, <2>3 DEF Kept
<1>4. ASSUME NEW r \in Requests, Replay(r)
      PROVE Kept
  BY <1>4, <1>a DEF Replay, Pending, Respond, db, Kept, TypeOK
<1>5. ASSUME NEW r \in Requests, Update(r)
      PROVE Kept
  <2>1. \A d \in DOMAIN records :
          d \in DOMAIN records' /\ records'[d].tenantId = records[d].tenantId
    BY <1>5 DEF Update, Put, Updated
  <2>2. reply[r].status \in {"pending", "error"} /\ UNCHANGED workflows
    BY <1>5, UnfinishedMeans DEF Update
  <2>3. \A q \in Requests : q # r => reply'[q] = reply[q]
    BY <1>5, <1>a DEF Update, Respond, TypeOK
  <2> QED
    BY <2>1, <2>2, <2>3 DEF Kept
<1>6. ASSUME NEW r \in Requests, RefuseCreate(r) \/ RefuseUpdate(r) \/ Fail(r)
      PROVE Kept
  BY <1>6, <1>a DEF RefuseCreate, RefuseUpdate, Fail, Pending, Respond, db, Kept, TypeOK
<1>7. CASE UNCHANGED vars
  BY <1>7 DEF vars, Kept
<1> QED
  BY <1>1, <1>2, <1>3, <1>4, <1>5, <1>6, <1>7 DEF Next

\* A step that gives at most one request an answer, about its own call, and writes
\* at most one event, keeps what the other requests were told.
LEMMA ToldKept ==
  ASSUME Inv, Told, Kept, NEW r \in Requests,
         \A q \in Requests : q # r => reply'[q] = reply[q] /\ call'[q] = call[q],
         \A e \in outbox' : e \in outbox \/ (e.by = r /\ (e.type = "record.created" => call'[r].op = "create")),
         \A e \in outbox : e.by = r => call'[r] = call[r],
         LET c == call'[r] IN
           /\ reply'[r].status \in {"created", "replay"} =>
                c.op = "create" /\ HasRecord(records', reply'[r].recordId, c.tenantId)
           /\ reply'[r].status = "updated" =>
                /\ c.op = "update" /\ HasRecord(records', c.recordId, c.tenantId)
                /\ reply'[r].recordId = c.recordId
                /\ reply'[r].version = c.expectedVersion + 1 /\ c.expectedVersion > 0
           /\ reply'[r].status = "conflict" =>
                c.op = "update" /\ HasRecord(records', c.recordId, c.tenantId)
  PROVE  Told'
<1>1. \A id, t : HasRecord(records, id, t) => HasRecord(records', id, t)
  BY DEF Kept, HasRecord
<1>2. \A e \in outbox : e.by \in Requests
  BY DEF Inv, TypeInv, TypeOK, OutboxEvents
<1>3. \A e \in outbox' : e.type = "record.created" => call'[e.by].op = "create"
  BY <1>2 DEF Told
<1>4. ASSUME NEW q \in Requests, q # r
      PROVE  LET c == call'[q] IN
             /\ reply'[q].status \in {"created", "replay"} =>
                  c.op = "create" /\ HasRecord(records', reply'[q].recordId, c.tenantId)
             /\ reply'[q].status = "updated" =>
                  /\ c.op = "update" /\ HasRecord(records', c.recordId, c.tenantId)
                  /\ reply'[q].recordId = c.recordId
                  /\ reply'[q].version = c.expectedVersion + 1 /\ c.expectedVersion > 0
             /\ reply'[q].status = "conflict" =>
                  c.op = "update" /\ HasRecord(records', c.recordId, c.tenantId)
  BY <1>1, <1>4 DEF Told
<1> QED
  BY <1>3, <1>4 DEF Told

\* What the callers were told stays true.
LEMMA ToldStep == Inv /\ Told /\ [Next]_vars => Told'
<1> SUFFICES ASSUME Inv, Told, [Next]_vars PROVE Told'
  OBVIOUS
<1>a. TypeOK /\ Arrived /\ KeyNamesOneRecord /\ AnswersTellTheTruth /\ Kept
  BY KeptStep DEF Inv, TypeInv
<1>1. ASSUME NEW id \in WorkflowIds, NEW t \in Tenants, NEW states \in StateLists,
             CreateWorkflow(id, t, states)
      PROVE Told'
  BY <1>1 DEF CreateWorkflow, Told
<1>2. ASSUME NEW r \in Requests, NEW c \in Calls, Receive(r, c)
      PROVE Told'
  <2>1. /\ reply'[r].status = "pending" /\ UNCHANGED outbox
        /\ \A q \in Requests : q # r => reply'[q] = reply[q] /\ call'[q] = call[q]
    BY <1>2, <1>a DEF Receive, Respond, Answer, db, TypeOK
  <2>2. {e \in outbox : e.by = r} = {}
    BY <1>2, <1>a DEF Receive, AnswersTellTheTruth
  <2> QED
    BY <1>a, <2>1, <2>2, ToldKept
<1>3. ASSUME NEW r \in Requests, NEW id \in RecordIds, Create(r, id)
      PROVE Told'
  <2> DEFINE c == call[r]
             rec == NewRecord(c, workflows[c.workflowId])
             new == OutboxOf(r, id, rec, "record.created")
  <2>1. /\ c.op = "create" /\ UNCHANGED call
        /\ records' = Put(records, id, rec) /\ outbox' = outbox \cup {new}
    BY <1>3, UnfinishedMeans DEF Create, Journalled
  <2>2. rec.tenantId = c.tenantId
    BY DEF NewRecord
  <2>3. HasRecord(records', id, c.tenantId)
    BY <2>1, <2>2 DEF HasRecord, Put
  <2>4. new.by = r
    BY EventContents
  <2>5. /\ \A q \in Requests : q # r => reply'[q] = reply[q]
        /\ \/ reply'[r] = AnswerWith("created", id, rec)
           \/ reply'[r] = Answer("error")
    BY <1>3, <1>a DEF Create, Respond, TypeOK
  <2>6. /\ AnswerWith("created", id, rec).status = "created"
        /\ AnswerWith("created", id, rec).recordId = id
        /\ Answer("error").status = "error"
    BY DEF AnswerWith, Answer
  <2> HIDE DEF rec, new
  <2> QED
    BY <1>a, <2>1, <2>3, <2>4, <2>5, <2>6, ToldKept
<1>4. ASSUME NEW r \in Requests, Replay(r)
      PROVE Told'
  <2> DEFINE c == call[r]
             slot == Slot(c)
             id == idempotency[slot]
  <2>1. /\ c.op = "create" /\ slot \in DOMAIN idempotency
        /\ UNCHANGED <<records, outbox, call>>
        /\ reply'[r] = AnswerWith("replay", id, records[id])
        /\ \A q \in Requests : q # r => reply'[q] = reply[q]
    BY <1>4, <1>a DEF Replay, Pending, Respond, db, TypeOK
  <2>2. HasRecord(records', id, c.tenantId)
    BY <1>a, <2>1 DEF KeyNamesOneRecord, HasRecord, Slot
  <2>3. reply'[r].status = "replay" /\ reply'[r].recordId = id
    BY <2>1 DEF AnswerWith
  <2> HIDE DEF slot, id
  <2> QED
    BY <1>a, <2>1, <2>2, <2>3, ToldKept
<1>5. ASSUME NEW r \in Requests, Update(r)
      PROVE Told'
  <2> DEFINE c == call[r]
             id == c.recordId
             rec == Updated(records[id], c)
             new == OutboxOf(r, id, rec, "record.updated")
  <2>1. /\ c.op = "update" /\ UNCHANGED call /\ c \in Calls
        /\ HasRecord(records, id, c.tenantId) /\ records[id].version = c.expectedVersion
        /\ records' = Put(records, id, rec) /\ outbox' = outbox \cup {new}
    <3>1. reply[r].status # "none" /\ c.op = "update"
      BY <1>5, UnfinishedMeans DEF Update
    <3> QED
      BY <1>5, <1>a, <3>1, UpdateAllowed DEF Update, Journalled, UpToDate, TypeOK, Arrived
  <2>2. records[id] \in Records
    BY <1>a, <2>1 DEF HasRecord, TypeOK, IsMap
  <2>3. rec.tenantId = records[id].tenantId /\ rec.version = c.expectedVersion + 1
    BY <2>1, <2>2, UpdatedFields
  <2>4. c.expectedVersion > 0
    BY <2>1, <2>2 DEF Records
  <2>5. HasRecord(records', id, c.tenantId)
    BY <2>1, <2>3 DEF HasRecord, Put
  <2>6. new.by = r /\ new.type = "record.updated"
    BY EventContents
  <2>7. /\ \A q \in Requests : q # r => reply'[q] = reply[q]
        /\ \/ reply'[r] = AnswerWith("updated", id, rec)
           \/ reply'[r] = Answer("error")
    BY <1>5, <1>a DEF Update, Respond, TypeOK
  <2>8. /\ AnswerWith("updated", id, rec).status = "updated"
        /\ AnswerWith("updated", id, rec).recordId = id
        /\ AnswerWith("updated", id, rec).version = rec.version
        /\ Answer("error").status = "error"
    BY DEF AnswerWith, Answer
  <2> HIDE DEF rec, new
  <2> QED
    BY <1>a, <2>1, <2>3, <2>4, <2>5, <2>6, <2>7, <2>8, ToldKept
<1>6. ASSUME NEW r \in Requests, RefuseCreate(r) \/ RefuseUpdate(r) \/ Fail(r)
      PROVE Told'
  <2>1. /\ UNCHANGED <<records, outbox, call>>
        /\ \A q \in Requests : q # r => reply'[q] = reply[q]
    BY <1>6, <1>a DEF RefuseCreate, RefuseUpdate, Fail, Pending, Respond, db, TypeOK
  <2>2. /\ reply'[r].status \in {"notFound", "conflict", "invalid", "error"}
        /\ reply'[r].status = "conflict" =>
             call[r].op = "update" /\ HasRecord(records, call[r].recordId, call[r].tenantId)
    <3>1. \A status : Answer(status).status = status
      BY DEF Answer
    <3>2. PICK status : reply' = [reply EXCEPT ![r] = Answer(status)]
            /\ \/ status \in {"error", "invalid"}
               \/ /\ status = UpdateRefusal(call[r], workflows, records)
                  /\ status # "none" /\ call[r].op = "update"
      BY <1>6 DEF RefuseCreate, RefuseUpdate, Fail, Pending, Respond
    <3>3. reply'[r].status = status
      BY <1>a, <3>1, <3>2 DEF TypeOK
    <3>4. UpdateRefusal(call[r], workflows, records) = "conflict" =>
            HasRecord(records, call[r].recordId, call[r].tenantId)
      BY DEF UpdateRefusal
    <3> QED
      BY <3>2, <3>3, <3>4, UpdateAllowed
  <2> QED
    BY <1>a, <2>1, <2>2, ToldKept
<1>7. CASE UNCHANGED vars
  BY <1>7 DEF vars, Told
<1> QED
  BY <1>1, <1>2, <1>3, <1>4, <1>5, <1>6, <1>7 DEF Next

-----------------------------------------------------------------------------

\* Every version of every record is announced once, by the request that made it,
\* and the audit trail agrees with the outbox.
THEOREM JournalComplete == Spec => []Journal
<1>1. Inv => Journal
  BY DEF Inv
<1> QED
  BY <1>1, InvInit, InvStep, PTL DEF Spec

\* A request takes effect at most once, and its answer says truly whether it did.
THEOREM AnswersTrue == Spec => []AnswersTellTheTruth
<1>1. Inv => AnswersTellTheTruth
  BY DEF Inv
<1> QED
  BY <1>1, InvInit, InvStep, PTL DEF Spec

\* Of the callers that have seen one version of a record, only one updates it.
THEOREM UpdatesAreNotLost == Spec => []NoLostUpdate
<1>1. Inv => NoLostUpdate
  BY DEF Inv
<1> QED
  BY <1>1, InvInit, InvStep, PTL DEF Spec

\* A record is always in a state that its workflow declares.
THEOREM StatesAreDeclared == Spec => []StateDeclared
<1>1. Inv => StateDeclared
  BY DEF Inv
<1> QED
  BY <1>1, InvInit, InvStep, PTL DEF Spec

\* Creates with one key are all told of one record, and only one of them that it
\* was created: two created answers would be two events of its first version.
LEMMA RetriesMustAgree == Inv => RetriesAgree
<1> SUFFICES ASSUME Inv, NEW p \in Requests, NEW q \in Requests,
                    reply[p].status \in {"created", "replay"},
                    reply[q].status \in {"created", "replay"},
                    call[p].key # NoKey, Slot(call[p]) = Slot(call[q])
             PROVE  /\ reply[p].recordId = reply[q].recordId
                    /\ p # q => "replay" \in {reply[p].status, reply[q].status}
  BY DEF RetriesAgree
<1>1. call[q].key # NoKey
  BY DEF Slot
<1>2. reply[p].recordId = reply[q].recordId
  BY <1>1 DEF Inv, AnswersNameSlot
<1>3. ASSUME reply[p].status = "created", reply[q].status = "created"
      PROVE  p = q
  <2>1. reply[p].version = 1 /\ reply[q].version = 1
    BY <1>3 DEF Inv, AnswersNameSlot
  <2>2. PICK e \in outbox : e.by = p /\ e.aggregateId = reply[p].recordId /\ e.version = 1
    BY <1>3, <2>1 DEF Inv, AnswersTellTheTruth
  <2>3. PICK f \in outbox : f.by = q /\ f.aggregateId = reply[q].recordId /\ f.version = 1
    BY <1>3, <2>1 DEF Inv, AnswersTellTheTruth
  <2>4. e = f
    BY <1>2, <2>2, <2>3 DEF Inv, Journal
  <2> QED
    BY <2>2, <2>3, <2>4
<1> QED
  BY <1>2, <1>3

\* Clients that send one key are told of one record, created for at most one of them.
THEOREM RetriesAlwaysAgree == Spec => []RetriesAgree
BY RetriesMustAgree, InvInit, InvStep, PTL DEF Spec

\* What the contract says of the documents and of the answers.
Promises ==
  /\ Journal
  /\ KeyNamesOneRecord
  /\ AnswersTellTheTruth
  /\ NoLostUpdate
  /\ RetriesAgree
  /\ StateDeclared

\* The contract keeps its promises, and with it every store that implements it.
THEOREM PromisesKept == Spec => []Promises
<1>1. Inv => Promises
  BY RetriesMustAgree DEF Inv, TypeInv, Promises
<1> QED
  BY <1>1, InvInit, InvStep, PTL DEF Spec
=============================================================================
