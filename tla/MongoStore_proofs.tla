--------------------------- MODULE MongoStore_proofs ---------------------------
(***************************************************************************)
(* The concurrent transactions of MongoStore implement the atomic store of *)
(* RecordStore, for any number of tenants, records, keys and concurrent    *)
(* requests, with faults of the database and without.                      *)
(*                                                                         *)
(* The proof turns on Isolated: from its write to its commit a transaction *)
(* may rely on what it has read.  A commit is then the one step at which   *)
(* the request takes effect.                                               *)
(***************************************************************************)
EXTENDS MongoStore, TLAPS

StoreProofs == INSTANCE RecordStore_proofs

-----------------------------------------------------------------------------
(* The store that MongoStore implements is that of RecordStore_proofs. *)

\* The assumptions of the store hold of the constants of MongoStore.
LEMMA StoreAssumed ==
  /\ NoKey \notin Keys
  /\ NoState \notin States
  /\ NoRecord \notin RecordIds
  /\ StateLists \subseteq Seq(States)
  /\ Calls \subseteq StoreProofs!CreateCalls \cup StoreProofs!UpdateCalls
  /\ NoCall \notin Calls
  /\ Faults \in BOOLEAN
BY DomainAssumption, FaultsAssumption
DEF CreateCalls, UpdateCalls, StoreProofs!CreateCalls, StoreProofs!UpdateCalls

\* The same documents and answers, however they are reached.
LEMMA SameDocuments ==
  /\ Store!EmptyMap = EmptyMap /\ StoreProofs!EmptyMap = EmptyMap
  /\ \A f, k, v : Store!Put(f, k, v) = Put(f, k, v) /\ StoreProofs!Put(f, k, v) = Put(f, k, v)
  /\ \A c : Store!Slot(c) = Slot(c) /\ StoreProofs!Slot(c) = Slot(c)
  /\ \A c, wf : /\ Store!NewRecord(c, wf) = NewRecord(c, wf)
                /\ StoreProofs!NewRecord(c, wf) = NewRecord(c, wf)
  /\ \A c, rec : /\ Store!Updated(rec, c) = Updated(rec, c)
                 /\ StoreProofs!Updated(rec, c) = Updated(rec, c)
  /\ \A status : /\ Store!Answer(status) = Answer(status)
                 /\ StoreProofs!Answer(status) = Answer(status)
  /\ \A status, id, rec :
       /\ Store!AnswerWith(status, id, rec) = AnswerWith(status, id, rec)
       /\ StoreProofs!AnswerWith(status, id, rec) = AnswerWith(status, id, rec)
<1>1. \A f, k, v : Store!Put(f, k, v) = Put(f, k, v) /\ StoreProofs!Put(f, k, v) = Put(f, k, v)
  BY DEF Put, Store!Put, StoreProofs!Put
<1>2. /\ \A c : Store!Slot(c) = Slot(c) /\ StoreProofs!Slot(c) = Slot(c)
      /\ \A c, wf : /\ Store!NewRecord(c, wf) = NewRecord(c, wf)
                    /\ StoreProofs!NewRecord(c, wf) = NewRecord(c, wf)
      /\ \A c, rec : /\ Store!Updated(rec, c) = Updated(rec, c)
                     /\ StoreProofs!Updated(rec, c) = Updated(rec, c)
  BY DEF Slot, Store!Slot, StoreProofs!Slot, NewRecord, Store!NewRecord,
         StoreProofs!NewRecord, Updated, Store!Updated, StoreProofs!Updated
<1>3. /\ Store!EmptyMap = EmptyMap /\ StoreProofs!EmptyMap = EmptyMap
      /\ \A status : /\ Store!Answer(status) = Answer(status)
                     /\ StoreProofs!Answer(status) = Answer(status)
      /\ \A status, id, rec :
           /\ Store!AnswerWith(status, id, rec) = AnswerWith(status, id, rec)
           /\ StoreProofs!AnswerWith(status, id, rec) = AnswerWith(status, id, rec)
  BY DEF EmptyMap, Store!EmptyMap, StoreProofs!EmptyMap, Answer, Store!Answer,
         StoreProofs!Answer, AnswerWith, Store!AnswerWith, StoreProofs!AnswerWith
<1> QED
  BY <1>1, <1>2, <1>3

\* The same questions.
LEMMA SameQuestions ==
  /\ \A wfs, id, t : /\ Store!HasWorkflow(wfs, id, t) <=> HasWorkflow(wfs, id, t)
                     /\ StoreProofs!HasWorkflow(wfs, id, t) <=> HasWorkflow(wfs, id, t)
  /\ \A c, wfs, recs :
       /\ Store!UpdateRefusal(c, wfs, recs) = UpdateRefusal(c, wfs, recs)
       /\ StoreProofs!UpdateRefusal(c, wfs, recs) = UpdateRefusal(c, wfs, recs)
<1>1. /\ \A wfs, id, t : /\ Store!HasWorkflow(wfs, id, t) <=> HasWorkflow(wfs, id, t)
                         /\ StoreProofs!HasWorkflow(wfs, id, t) <=> HasWorkflow(wfs, id, t)
      /\ \A recs, id, t : /\ Store!HasRecord(recs, id, t) <=> HasRecord(recs, id, t)
                          /\ StoreProofs!HasRecord(recs, id, t) <=> HasRecord(recs, id, t)
      /\ \A wf, s : /\ Store!Declares(wf, s) <=> Declares(wf, s)
                    /\ StoreProofs!Declares(wf, s) <=> Declares(wf, s)
      /\ \A c, rec : /\ Store!UpToDate(c, rec) <=> UpToDate(c, rec)
                     /\ StoreProofs!UpToDate(c, rec) <=> UpToDate(c, rec)
  BY DEF HasWorkflow, Store!HasWorkflow, StoreProofs!HasWorkflow, HasRecord,
         Store!HasRecord, StoreProofs!HasRecord, Declares, Store!Declares,
         StoreProofs!Declares, UpToDate, Store!UpToDate, StoreProofs!UpToDate
<1>2. \A c, wfs, rec : /\ Store!Allows(c, wfs, rec) <=> Allows(c, wfs, rec)
                       /\ StoreProofs!Allows(c, wfs, rec) <=> Allows(c, wfs, rec)
  BY <1>1 DEF Allows, Store!Allows, StoreProofs!Allows
<1>3. \A c, wfs, recs : Store!UpdateRefusal(c, wfs, recs) = UpdateRefusal(c, wfs, recs)
  BY <1>1, <1>2 DEF UpdateRefusal, Store!UpdateRefusal
<1>4. \A c, wfs, recs : StoreProofs!UpdateRefusal(c, wfs, recs) = UpdateRefusal(c, wfs, recs)
  BY <1>1, <1>2 DEF UpdateRefusal, StoreProofs!UpdateRefusal
<1> QED
  BY <1>1, <1>3, <1>4

\* The same steps.
LEMMA SameSteps ==
  /\ Store!Init => StoreProofs!Init
  /\ [Store!Next]_(Store!vars) => [StoreProofs!Next]_(StoreProofs!vars)
<1>1. \A r, op : /\ Store!Pending(r, op) <=> StoreProofs!Pending(r, op)
                 /\ Store!Unfinished(r, op) <=> StoreProofs!Unfinished(r, op)
  BY DEF Store!Pending, StoreProofs!Pending, Store!Unfinished, StoreProofs!Unfinished
<1>2. \A r, answer : Store!Respond(r, answer) <=> StoreProofs!Respond(r, answer)
  BY DEF Store!Respond, StoreProofs!Respond
<1>3. \A r, id, rec, type :
        Store!Journalled(r, id, rec, type) <=> StoreProofs!Journalled(r, id, rec, type)
  BY DEF Store!Journalled, StoreProofs!Journalled, Store!AuditOf, StoreProofs!AuditOf,
         Store!OutboxOf, StoreProofs!OutboxOf
<1>4. \A c : Store!KeyFree(c) <=> StoreProofs!KeyFree(c)
  BY SameDocuments DEF Store!KeyFree, StoreProofs!KeyFree
<1>5. Store!Init => StoreProofs!Init
  BY SameDocuments DEF Store!Init, StoreProofs!Init
<1>6. \A id, t, states : Store!CreateWorkflow(id, t, states) => StoreProofs!CreateWorkflow(id, t, states)
  BY SameDocuments DEF Store!CreateWorkflow, StoreProofs!CreateWorkflow
<1>7. \A r, c : Store!Receive(r, c) => StoreProofs!Receive(r, c)
  BY SameDocuments, <1>2 DEF Store!Receive, StoreProofs!Receive, Store!db, StoreProofs!db
<1>8. \A r, id : Store!Create(r, id) => StoreProofs!Create(r, id)
  BY SameDocuments, SameQuestions, <1>1, <1>2, <1>3, <1>4 DEF Store!Create, StoreProofs!Create
<1>9. \A r : Store!Replay(r) => StoreProofs!Replay(r)
  BY SameDocuments, <1>1, <1>2 DEF Store!Replay, StoreProofs!Replay, Store!db, StoreProofs!db
<1>10. \A r : Store!Update(r) => StoreProofs!Update(r)
  BY SameDocuments, SameQuestions, <1>1, <1>2, <1>3 DEF Store!Update, StoreProofs!Update
<1>11. \A r : /\ Store!RefuseCreate(r) => StoreProofs!RefuseCreate(r)
              /\ Store!RefuseUpdate(r) => StoreProofs!RefuseUpdate(r)
  BY SameDocuments, SameQuestions, <1>1, <1>2
  DEF Store!RefuseCreate, StoreProofs!RefuseCreate, Store!RefuseUpdate,
      StoreProofs!RefuseUpdate, Store!db, StoreProofs!db
<1>12. \A r : Store!Fail(r) => StoreProofs!Fail(r)
  BY SameDocuments, <1>2 DEF Store!Fail, StoreProofs!Fail, Store!db, StoreProofs!db
<1>13. Store!Next => StoreProofs!Next
  BY <1>6, <1>7, <1>8, <1>9, <1>10, <1>11, <1>12 DEF Store!Next, StoreProofs!Next
<1>14. UNCHANGED Store!vars => UNCHANGED StoreProofs!vars
  BY DEF Store!vars, StoreProofs!vars
<1> QED
  BY <1>5, <1>13, <1>14

\* The same types.
LEMMA SameTypes ==
  StoreProofs!TypeOK =>
    /\ Store!TypeOK
    /\ IsMap(workflows, WorkflowIds, Workflows)
    /\ IsMap(records, RecordIds, Records)
    /\ IsMap(idempotency, Slots, RecordIds)
    /\ reply \in [Requests -> Replies]
<1>1. /\ Store!Workflows = Workflows /\ StoreProofs!Workflows = Workflows
      /\ Store!Records = Records /\ StoreProofs!Records = Records
      /\ Store!Slots = Slots /\ StoreProofs!Slots = Slots
      /\ Store!Replies = Replies /\ StoreProofs!Replies = Replies
      /\ Store!AuditEvents = StoreProofs!AuditEvents
      /\ Store!OutboxEvents = StoreProofs!OutboxEvents
  BY DEF Workflows, Store!Workflows, StoreProofs!Workflows, Records, Store!Records,
         StoreProofs!Records, Slots, Store!Slots, StoreProofs!Slots,
         Replies, Store!Replies, StoreProofs!Replies,
         Store!AuditEvents, StoreProofs!AuditEvents,
         Store!OutboxEvents, StoreProofs!OutboxEvents,
         Store!EventTypes, StoreProofs!EventTypes,
         Statuses, Store!Statuses, StoreProofs!Statuses
<1>2. \A f, S, T : /\ Store!IsMap(f, S, T) <=> IsMap(f, S, T)
                   /\ StoreProofs!IsMap(f, S, T) <=> IsMap(f, S, T)
  BY DEF IsMap, Store!IsMap, StoreProofs!IsMap
<1> QED
  BY <1>1, <1>2 DEF Store!TypeOK, StoreProofs!TypeOK

-----------------------------------------------------------------------------
(* The inductive invariant. *)

\* Where a request is agrees with what its caller has been told, and a request whose
\* commit nobody waits for any more has had no effect yet.
AtStep(r) ==
  /\ (pc[r] = "idle") <=> (reply[r].status = "none")
  /\ pc[r] \notin {"idle", "late", "done"} => reply[r].status = "pending"
  /\ pc[r] = "late" => /\ Faults /\ reply[r] = Answer("error")
                       /\ \A e \in outbox : e.by # r
  /\ pc[r] \in {"lookup", "replay", "recheck"} => call[r].op = "create"
  /\ pc[r] = "replay" => /\ Slot(call[r]) \in DOMAIN idempotency
                         /\ idempotency[Slot(call[r])] = hit[r]

\* What the callback has read from its snapshot and let through, and what it is about
\* to commit because of it.
Accepted(r) ==
  /\ DOMAIN txn[r].records \subseteq DOMAIN records
  /\ call[r].op = "create" =>
       HasWorkflow(workflows, call[r].workflowId, call[r].tenantId)
  /\ call[r].op = "update" =>
       UpdateRefusal(call[r], workflows, txn[r].records) = "none"
  /\ \A w \in txn[r].writes :
       /\ call[r].op = "create" => w.rec = NewRecord(call[r], workflows[call[r].workflowId])
       /\ call[r].op = "update" => UpdateRefusal(call[r], workflows, records) = "none"

\* The inductive invariant.  Isolated is not inductive alone: that a record is as the
\* snapshot showed it follows from what the callback let through.
IInv ==
  /\ StoreProofs!Inv
  /\ TypeOK
  /\ Isolated
  /\ \A r \in Requests : AtStep(r)
  /\ \A r \in DOMAIN txn : Accepted(r)

-----------------------------------------------------------------------------
(* The collections and what is read from them. *)

\* What the maps are after a key was put and after one was dropped.
LEMMA PutDrop ==
  ASSUME NEW f, NEW k, NEW v
  PROVE  /\ DOMAIN Put(f, k, v) = DOMAIN f \cup {k}
         /\ Put(f, k, v)[k] = v
         /\ \A x \in DOMAIN f : x # k => Put(f, k, v)[x] = f[x]
         /\ Put(f, k, v) = [x \in DOMAIN Put(f, k, v) |-> Put(f, k, v)[x]]
         /\ DOMAIN Drop(f, k) = DOMAIN f \ {k}
         /\ \A x \in DOMAIN f : x # k => Drop(f, k)[x] = f[x]
         /\ Drop(f, k) = [x \in DOMAIN Drop(f, k) |-> Drop(f, k)[x]]
BY DEF Put, Drop

\* A call is a create or an update, with the fields of its kind.
LEMMA CallFields ==
  ASSUME NEW c \in Calls
  PROVE  /\ c.op \in {"create", "update"}
         /\ c.op = "create" => /\ c.tenantId \in Tenants
                               /\ c.workflowId \in WorkflowIds
                               /\ c.key \in Keys \cup {NoKey}
         /\ c.op = "update" => /\ c.recordId \in RecordIds
                               /\ c.state \in States \cup {NoState}
BY DomainAssumption DEF CreateCalls, UpdateCalls

\* The document that a create inserts.
LEMMA NewRecordType ==
  ASSUME NEW c \in Calls, c.op = "create", NEW wf \in Workflows
  PROVE  NewRecord(c, wf) \in Records
<1>1. wf.states[1] \in States
  BY DEF Workflows
<1> QED
  BY <1>1, CallFields DEF NewRecord, Records

\* The document that an update writes.
LEMMA UpdatedType ==
  ASSUME NEW c \in Calls, c.op = "update", NEW rec \in Records
  PROVE  Updated(rec, c) \in Records
<1> DEFINE s == IF c.state = NoState THEN rec.state ELSE c.state
<1>1. s \in States /\ rec.version + 1 \in Nat \ {0}
  BY CallFields DEF Records
<1>2. Updated(rec, c) = [rec EXCEPT !.state = s, !.version = rec.version + 1]
  BY DEF Updated
<1> HIDE DEF s
<1> QED
  BY <1>1, <1>2 DEF Records

\* An update that is not refused stays so while its record and the workflows that
\* are there stay as they are.
LEMMA NotRefusedStays ==
  ASSUME NEW c, NEW wfs, NEW recs, NEW wfs2, NEW recs2,
         UpdateRefusal(c, wfs, recs) = "none",
         \A id \in DOMAIN wfs : id \in DOMAIN wfs2 /\ wfs2[id] = wfs[id],
         c.recordId \in DOMAIN recs2, recs2[c.recordId] = recs[c.recordId]
  PROVE  UpdateRefusal(c, wfs2, recs2) = "none"
<1>1. /\ HasRecord(recs, c.recordId, c.tenantId)
      /\ UpToDate(c, recs[c.recordId])
      /\ Allows(c, wfs, recs[c.recordId])
  BY DEF UpdateRefusal
<1>2. HasRecord(recs2, c.recordId, c.tenantId) /\ UpToDate(c, recs2[c.recordId])
  BY <1>1 DEF HasRecord, UpToDate
<1>3. Allows(c, wfs2, recs2[c.recordId])
  BY <1>1 DEF Allows, HasWorkflow, Declares
<1> QED
  BY <1>2, <1>3 DEF UpdateRefusal

\* Why an update can be refused, and that one which is not has its record.
LEMMA Refusals ==
  ASSUME NEW c, NEW wfs, NEW recs
  PROVE  /\ UpdateRefusal(c, wfs, recs) \in {"notFound", "conflict", "invalid", "none"}
         /\ UpdateRefusal(c, wfs, recs) = "none" => c.recordId \in DOMAIN recs
BY DEF UpdateRefusal, HasRecord

\* What the steps use of the invariants of the store.
LEMMA StoreFacts ==
  ASSUME StoreProofs!Inv
  PROVE  /\ Store!TypeOK
         /\ call \in [Requests -> Calls \cup {NoCall}]
         /\ \A r \in Requests : reply[r].status # "none" => call[r] \in Calls
         /\ \A r \in Requests :
              reply[r].status = "pending" => \A e \in outbox : e.by # r
         /\ IsMap(workflows, WorkflowIds, Workflows)
         /\ IsMap(records, RecordIds, Records)
         /\ IsMap(idempotency, Slots, RecordIds)
         /\ reply \in [Requests -> Replies]
<1>1. StoreProofs!TypeOK /\ StoreProofs!Arrived /\ StoreProofs!AnswersTellTheTruth
  BY DEF StoreProofs!Inv, StoreProofs!TypeInv
<1>2. \A r \in Requests : reply[r].status = "pending" => \A e \in outbox : e.by # r
  BY <1>1 DEF StoreProofs!AnswersTellTheTruth
<1>3. call \in [Requests -> Calls \cup {NoCall}]
      /\ \A r \in Requests : reply[r].status # "none" => call[r] \in Calls
  BY <1>1 DEF StoreProofs!TypeOK, StoreProofs!Arrived
<1> QED
  BY <1>1, <1>2, <1>3, SameTypes

-----------------------------------------------------------------------------
(* The state of the requests. *)

\* The type of a transaction, at the step its request is at.
IsTxn(t, step) ==
  /\ t = [records |-> t.records, idempotency |-> t.idempotency, writes |-> t.writes]
  /\ IsMap(t.records, RecordIds, Records)
  /\ IsMap(t.idempotency, Slots, RecordIds)
  /\ t.writes \subseteq Writes
  /\ (step = "write") <=> (t.writes = {})

StepTypes ==
  /\ pc \in [Requests -> Steps]
  /\ hit = [r \in DOMAIN hit |-> hit[r]]
  /\ DOMAIN hit = {r \in Requests : pc[r] = "replay"}
  /\ \A r \in DOMAIN hit : hit[r] \in RecordIds
  /\ txn = [r \in DOMAIN txn |-> txn[r]]
  /\ DOMAIN txn = {r \in Requests : pc[r] \in {"write", "commit", "late"}}
  /\ \A r \in DOMAIN txn : IsTxn(txn[r], pc[r])

\* TypeOK says the same of the requests, one at a time.
LEMMA TypesByRequest == TypeOK <=> Store!TypeOK /\ StepTypes
<1>1. TypeOK => Store!TypeOK /\ StepTypes
  <2> SUFFICES ASSUME TypeOK PROVE Store!TypeOK /\ StepTypes
    OBVIOUS
  <2>1. \A r \in DOMAIN txn :
          txn[r] \in [records: {txn[q].records : q \in DOMAIN txn},
                      idempotency: {txn[q].idempotency : q \in DOMAIN txn},
                      writes: SUBSET Writes]
    BY DEF TypeOK, IsMap
  <2>2. \A r \in DOMAIN txn : IsTxn(txn[r], pc[r])
    BY <2>1 DEF TypeOK, IsTxn
  <2> QED
    BY <2>2 DEF TypeOK, IsMap, StepTypes
<1>2. Store!TypeOK /\ StepTypes => TypeOK
  <2> SUFFICES ASSUME Store!TypeOK, StepTypes PROVE TypeOK
    OBVIOUS
  <2>1. \A r \in DOMAIN txn :
          txn[r] \in [records: {txn[q].records : q \in DOMAIN txn},
                      idempotency: {txn[q].idempotency : q \in DOMAIN txn},
                      writes: SUBSET Writes]
    <3> DEFINE snapshots == {txn[q].records : q \in DOMAIN txn}
               entries == {txn[q].idempotency : q \in DOMAIN txn}
    <3>1. TAKE r \in DOMAIN txn
    <3>2. txn[r].records \in snapshots /\ txn[r].idempotency \in entries
      OBVIOUS
    <3>3. /\ txn[r] = [records |-> txn[r].records, idempotency |-> txn[r].idempotency,
                       writes |-> txn[r].writes]
          /\ txn[r].writes \in SUBSET Writes
      BY DEF StepTypes, IsTxn
    <3> HIDE DEF snapshots, entries
    <3>4. txn[r] \in [records: snapshots, idempotency: entries, writes: SUBSET Writes]
      BY <3>2, <3>3
    <3> QED
      BY <3>4 DEF snapshots, entries
  <2>2. IsMap(hit, Requests, RecordIds)
    BY DEF StepTypes, IsMap
  <2>3. IsMap(txn, Requests, [records: {txn[r].records : r \in DOMAIN txn},
                              idempotency: {txn[r].idempotency : r \in DOMAIN txn},
                              writes: SUBSET Writes])
    BY <2>1 DEF StepTypes, IsMap
  <2>4. \A r \in DOMAIN txn :
          /\ IsMap(txn[r].records, RecordIds, Records)
          /\ IsMap(txn[r].idempotency, Slots, RecordIds)
          /\ (pc[r] = "write") <=> (txn[r].writes = {})
    BY DEF StepTypes, IsTxn
  <2> QED
    BY <2>2, <2>3, <2>4 DEF TypeOK, StepTypes
<1> QED
  BY <1>1, <1>2

\* A request goes to a step, and takes its entries in the maps with it.
Moves(r, step) ==
  /\ step \in Steps
  /\ Goto(r, step)
  /\ hit' = [q \in DOMAIN hit' |-> hit'[q]]
  /\ DOMAIN hit' = IF step = "replay" THEN DOMAIN hit \cup {r} ELSE DOMAIN hit \ {r}
  /\ \A q \in DOMAIN hit : q # r => hit'[q] = hit[q]
  /\ step = "replay" => hit'[r] \in RecordIds
  /\ txn' = [q \in DOMAIN txn' |-> txn'[q]]
  /\ DOMAIN txn' = IF step \in {"write", "commit", "late"}
                   THEN DOMAIN txn \cup {r} ELSE DOMAIN txn \ {r}
  /\ \A q \in DOMAIN txn : q # r => txn'[q] = txn[q]
  /\ r \in DOMAIN txn' => IsTxn(txn'[r], step)

\* Such a step keeps the types.
LEMMA StepTypesKept ==
  ASSUME StepTypes, NEW r \in Requests, NEW step, Moves(r, step)
  PROVE  /\ StepTypes'
         /\ pc'[r] = step
         /\ \A q \in Requests : q # r => pc'[q] = pc[q]
<1>1. /\ pc' \in [Requests -> Steps] /\ pc'[r] = step
      /\ \A q \in Requests : q # r => pc'[q] = pc[q]
  BY DEF StepTypes, Moves, Goto
<1>2. DOMAIN hit' = {q \in Requests : pc'[q] = "replay"}
  BY <1>1 DEF StepTypes, Moves
<1>3. DOMAIN txn' = {q \in Requests : pc'[q] \in {"write", "commit", "late"}}
  BY <1>1 DEF StepTypes, Moves
<1>4. \A q \in DOMAIN hit' : hit'[q] \in RecordIds
  BY DEF StepTypes, Moves
<1>5. \A q \in DOMAIN txn' : IsTxn(txn'[q], pc'[q])
  BY <1>1 DEF StepTypes, Moves
<1>6. StepTypes'
  BY <1>1, <1>2, <1>3, <1>4, <1>5 DEF StepTypes, IsTxn, Moves
<1> QED
  BY <1>1, <1>6

-----------------------------------------------------------------------------
(* The steps. *)

\* The body of Isolated, for one transaction.
Alone(r) ==
  \A w \in txn[r].writes :
    /\ \A q \in DOMAIN txn \ {r} : \A v \in txn[q].writes :
         /\ v.id # w.id
         /\ call[r].op = "create" /\ call[q].op = "create" =>
              call[r].key = NoKey \/ Slot(call[r]) # Slot(call[q])
    /\ call[r].op = "create" =>
         w.id \notin DOMAIN records /\ Slot(call[r]) \notin DOMAIN idempotency
    /\ call[r].op = "update" =>
         /\ w.id = call[r].recordId
         /\ w.id \in DOMAIN records
         /\ w.rec = Updated(records[w.id], call[r])

\* Isolated, one transaction at a time.
LEMMA IsolatedByRequest == Isolated <=> \A r \in DOMAIN txn : Alone(r)
BY DEF Isolated, Alone

\* What is known of a request stays true while others take their steps: documents are
\* added, and only those nobody else has staged are replaced.
LEMMA OthersKeep ==
  ASSUME NEW q \in Requests, AtStep(q), q \in DOMAIN txn => Accepted(q),
         pc'[q] = pc[q], call'[q] = call[q], reply'[q] = reply[q],
         pc[q] = "replay" => hit'[q] = hit[q],
         q \in DOMAIN txn => txn'[q] = txn[q],
         \A id \in DOMAIN workflows : id \in DOMAIN workflows' /\ workflows'[id] = workflows[id],
         \A s \in DOMAIN idempotency :
           s \in DOMAIN idempotency' /\ idempotency'[s] = idempotency[s],
         DOMAIN records \subseteq DOMAIN records',
         \A e \in outbox' : e \in outbox \/ e.by # q,
         q \in DOMAIN txn => \A w \in txn[q].writes : call[q].op = "update" =>
           records'[call[q].recordId] = records[call[q].recordId]
  PROVE  AtStep(q)' /\ (q \in DOMAIN txn => Accepted(q)')
<1>1. AtStep(q)'
  BY DEF AtStep
<1>2. ASSUME q \in DOMAIN txn PROVE Accepted(q)'
  <2>1. DOMAIN txn'[q].records \subseteq DOMAIN records'
    BY <1>2 DEF Accepted
  <2>2. call[q].op = "create" =>
          /\ HasWorkflow(workflows', call[q].workflowId, call[q].tenantId)
          /\ workflows'[call[q].workflowId] = workflows[call[q].workflowId]
    BY <1>2 DEF Accepted, HasWorkflow
  <2>3. call[q].op = "update" =>
          UpdateRefusal(call[q], workflows', txn[q].records) = "none"
    <3>1. call[q].op = "update" => call[q].recordId \in DOMAIN txn[q].records
      BY <1>2, Refusals DEF Accepted
    <3> QED
      BY <1>2, <3>1, NotRefusedStays DEF Accepted
  <2>4. ASSUME NEW w \in txn[q].writes, call[q].op = "update"
        PROVE  UpdateRefusal(call[q], workflows', records') = "none"
    <3>1. UpdateRefusal(call[q], workflows, records) = "none"
      BY <1>2, <2>4 DEF Accepted
    <3>2. call[q].recordId \in DOMAIN records'
      BY <3>1, Refusals
    <3> QED
      BY <1>2, <2>4, <3>1, <3>2, NotRefusedStays
  <2>5. \A w \in txn[q].writes : call[q].op = "create" =>
          w.rec = NewRecord(call[q], workflows[call[q].workflowId])
    BY <1>2 DEF Accepted
  <2> QED
    BY <1>2, <2>1, <2>2, <2>3, <2>4, <2>5 DEF Accepted
<1> QED
  BY <1>1, <1>2

\* A step of a request that leaves the database alone: what is known of the others
\* stays true.
LEMMA LocalStep ==
  ASSUME IInv, StepTypes', NEW r \in Requests, UNCHANGED db,
         \A q \in Requests : q # r =>
           /\ pc'[q] = pc[q] /\ call'[q] = call[q] /\ reply'[q] = reply[q]
           /\ q \in DOMAIN hit => hit'[q] = hit[q]
           /\ q \in DOMAIN txn => txn'[q] = txn[q],
         AtStep(r)',
         r \in DOMAIN txn' => Alone(r)' /\ Accepted(r)'
  PROVE  /\ Isolated' /\ (\A q \in Requests : AtStep(q)')
         /\ \A q \in DOMAIN txn' : Accepted(q)'
<1>1. /\ \A q \in Requests : q \in DOMAIN txn <=> pc[q] \in {"write", "commit", "late"}
      /\ \A q \in Requests : q \in DOMAIN txn' <=> pc'[q] \in {"write", "commit", "late"}
      /\ \A q \in Requests : pc[q] = "replay" => q \in DOMAIN hit
      /\ DOMAIN txn \subseteq Requests /\ DOMAIN txn' \subseteq Requests
  BY TypesByRequest DEF IInv, StepTypes
<1>2. \A q \in Requests : q # r => AtStep(q)' /\ (q \in DOMAIN txn => Accepted(q)')
  BY <1>1, OthersKeep DEF IInv, db
<1>3. \A q \in Requests : q # r => (q \in DOMAIN txn' <=> q \in DOMAIN txn)
  BY <1>1
<1>4. \A q \in DOMAIN txn' : Accepted(q)'
  BY <1>1, <1>2, <1>3
<1>5. ASSUME NEW q \in DOMAIN txn', q # r PROVE Alone(q)'
  <2>1. q \in DOMAIN txn /\ Alone(q) /\ txn'[q] = txn[q] /\ call'[q] = call[q]
    BY <1>1, <1>3, <1>5, IsolatedByRequest DEF IInv
  <2>2. ASSUME NEW w \in txn[q].writes, NEW p \in DOMAIN txn' \ {q}, NEW v \in txn'[p].writes
        PROVE  /\ v.id # w.id
               /\ call[q].op = "create" /\ call'[p].op = "create" =>
                    call[q].key = NoKey \/ Slot(call[q]) # Slot(call'[p])
    <3>1. CASE p = r
      <4>1. /\ w.id # v.id
            /\ call'[r].op = "create" /\ call'[q].op = "create" =>
                 call'[r].key = NoKey \/ Slot(call'[r]) # Slot(call'[q])
        BY <1>5, <2>1, <2>2, <3>1 DEF Alone
      <4>2. call'[r].key = NoKey /\ Slot(call'[r]) = Slot(call'[q]) => call[q].key = NoKey
        BY <2>1 DEF Slot
      <4> QED
        BY <2>1, <3>1, <4>1, <4>2
    <3>2. CASE p # r
      BY <1>1, <1>3, <2>1, <2>2, <3>2 DEF Alone
    <3> QED
      BY <3>1, <3>2
  <2>3. UNCHANGED <<records, idempotency>>
    BY DEF db
  <2> QED
    BY <2>1, <2>2, <2>3 DEF Alone
<1>6. \A q \in DOMAIN txn' : Alone(q)'
  BY <1>5
<1>7. Isolated'
  BY <1>6 DEF Isolated, Alone
<1> QED
  BY <1>2, <1>4, <1>7

\* The invariant of the store is kept by the steps that the store allows.
LEMMA StoreStep ==
  ASSUME StoreProofs!Inv, [Store!Next]_(Store!vars)
  PROVE  StoreProofs!Inv'
BY StoreAssumed, SameSteps, StoreProofs!InvStep

\* The types of the store after a step.
LEMMA StoreTypes == StoreProofs!Inv' => Store!TypeOK'
<1>1. StoreProofs!Inv => Store!TypeOK
  BY StoreFacts
<1> QED
  BY <1>1, PTL

\* The types after a step.
LEMMA TypesAfter == Store!TypeOK' /\ StepTypes' => TypeOK'
<1>1. Store!TypeOK /\ StepTypes => TypeOK
  BY TypesByRequest
<1> QED
  BY <1>1, PTL

\* A step of a request that leaves the database alone, and that the store allows, keeps
\* the invariant if it does so for that request.
LEMMA LocalMove ==
  ASSUME IInv, NEW r \in Requests, NEW step, Moves(r, step), UNCHANGED <<db, call>>,
         \A q \in Requests : q # r => reply'[q] = reply[q],
         [Store!Next]_(Store!vars),
         AtStep(r)',
         r \in DOMAIN txn' => Alone(r)' /\ Accepted(r)'
  PROVE  IInv'
<1>1. StepTypes' /\ \A q \in Requests : q # r => pc'[q] = pc[q]
  BY TypesByRequest, StepTypesKept DEF IInv
<1>2. StoreProofs!Inv' /\ TypeOK'
  BY <1>1, StoreStep, StoreTypes, TypesAfter DEF IInv
<1>3. /\ Isolated' /\ (\A q \in Requests : AtStep(q)')
      /\ \A q \in DOMAIN txn' : Accepted(q)'
  BY <1>1, LocalStep DEF Moves
<1> QED
  BY <1>2, <1>3 DEF IInv

\* What is known of a request at work.
LEMMA AtWork ==
  ASSUME IInv, NEW r \in Requests
  PROVE  /\ StepTypes /\ StoreProofs!Inv /\ AtStep(r)
         /\ pc[r] \in Steps
         /\ r \in DOMAIN hit <=> pc[r] = "replay"
         /\ r \in DOMAIN txn <=> pc[r] \in {"write", "commit", "late"}
         /\ r \in DOMAIN txn => IsTxn(txn[r], pc[r]) /\ Alone(r) /\ Accepted(r)
         /\ pc[r] # "idle" => call[r] \in Calls
         /\ hit = [q \in DOMAIN hit |-> hit[q]] /\ txn = [q \in DOMAIN txn |-> txn[q]]
<1>1. StepTypes /\ AtStep(r)
  BY TypesByRequest DEF IInv
<1>2. pc[r] # "idle" => call[r] \in Calls
  BY <1>1, StoreFacts DEF IInv, AtStep
<1> QED
  BY <1>1, <1>2, IsolatedByRequest DEF IInv, StepTypes

\* A request without a transaction after the step has nothing to be alone with.
LEMMA MoveWithout ==
  ASSUME IInv, NEW r \in Requests, NEW step, Moves(r, step), UNCHANGED <<db, call>>,
         \A q \in Requests : q # r => reply'[q] = reply[q],
         [Store!Next]_(Store!vars), AtStep(r)',
         step \notin {"write", "commit", "late"}
  PROVE  IInv'
<1>1. r \notin DOMAIN txn'
  BY DEF Moves
<1> QED
  BY <1>1, LocalMove

\* A step that gives no answer is none of the store's.
LEMMA Silent == UNCHANGED <<db, call, reply>> => UNCHANGED Store!vars
BY DEF db, Store!vars

\* An answer of a request that is asked for nothing else any more.
LEMMA Answered ==
  ASSUME IInv, NEW r \in Requests, NEW answer, Return(r, answer), pc[r] # "idle",
         answer.status \notin {"none", "pending"}
  PROVE  /\ Goto(r, "done") /\ Store!Respond(r, answer)
         /\ reply'[r] = answer
         /\ \A q \in Requests : q # r => reply'[q] = reply[q]
         /\ AtStep(r)'
<1>1. /\ Goto(r, "done") /\ Store!Respond(r, answer) /\ pc'[r] = "done"
      /\ reply'[r] = answer
      /\ \A q \in Requests : q # r => reply'[q] = reply[q]
  BY AtWork, StoreFacts DEF Return, Store!Respond, StepTypes, Goto
<1> QED
  BY <1>1 DEF AtStep

\* A step that takes the request's entries out of the maps.
LEMMA MovesOut ==
  ASSUME StepTypes, NEW r \in Requests,
         NEW step \in Steps \ {"replay", "write", "commit", "late"}, Goto(r, step),
         hit' = Drop(hit, r) \/ (r \notin DOMAIN hit /\ hit' = hit),
         txn' = Drop(txn, r) \/ (r \notin DOMAIN txn /\ txn' = txn)
  PROVE  Moves(r, step)
<1>1. /\ hit' = [q \in DOMAIN hit' |-> hit'[q]] /\ DOMAIN hit' = DOMAIN hit \ {r}
      /\ \A q \in DOMAIN hit : q # r => hit'[q] = hit[q]
  BY DEF Drop, StepTypes
<1>2. /\ txn' = [q \in DOMAIN txn' |-> txn'[q]] /\ DOMAIN txn' = DOMAIN txn \ {r}
      /\ \A q \in DOMAIN txn : q # r => txn'[q] = txn[q]
  BY DEF Drop, StepTypes
<1> QED
  BY <1>1, <1>2 DEF Moves

\* A step that gives the request a transaction, or another one.
LEMMA MovesWith ==
  ASSUME StepTypes, NEW r \in Requests, NEW step \in {"write", "commit", "late"},
         Goto(r, step), r \notin DOMAIN hit, hit' = hit,
         NEW t, IsTxn(t, step), txn' = Put(txn, r, t)
  PROVE  Moves(r, step) /\ txn'[r] = t
<1>1. /\ hit' = [q \in DOMAIN hit' |-> hit'[q]] /\ DOMAIN hit' = DOMAIN hit \ {r}
      /\ \A q \in DOMAIN hit : q # r => hit'[q] = hit[q]
  BY DEF StepTypes
<1>2. /\ txn' = [q \in DOMAIN txn' |-> txn'[q]] /\ DOMAIN txn' = DOMAIN txn \cup {r}
      /\ txn'[r] = t /\ \A q \in DOMAIN txn : q # r => txn'[q] = txn[q]
  BY DEF Put
<1>3. step \in Steps
  BY DEF Steps
<1> QED
  BY <1>1, <1>2, <1>3 DEF Moves

-----------------------------------------------------------------------------
(* findReplay. *)

\* The entry that is found stays what it is.
LEMMA FindReplayKeeps ==
  ASSUME IInv, NEW r \in Requests, FindReplay(r)
  PROVE  IInv' /\ [Store!Next]_(Store!vars)
<1>1. /\ pc[r] \in {"lookup", "recheck"} /\ Slot(call[r]) \in DOMAIN idempotency
      /\ hit' = Put(hit, r, idempotency[Slot(call[r])]) /\ Goto(r, "replay")
      /\ UNCHANGED <<db, call, reply, txn>>
  BY DEF FindReplay
<1>2. idempotency[Slot(call[r])] \in RecordIds
  BY <1>1, AtWork, StoreFacts DEF IsMap
<1>3. Moves(r, "replay")
  <2>1. /\ hit' = [q \in DOMAIN hit' |-> hit'[q]] /\ DOMAIN hit' = DOMAIN hit \cup {r}
        /\ hit'[r] \in RecordIds /\ \A q \in DOMAIN hit : q # r => hit'[q] = hit[q]
    BY <1>1, <1>2 DEF Put
  <2>2. /\ r \notin DOMAIN txn /\ DOMAIN txn' = DOMAIN txn \ {r}
        /\ txn' = [q \in DOMAIN txn' |-> txn'[q]]
    BY <1>1, AtWork
  <2> QED
    BY <1>1, <2>1, <2>2 DEF Moves, Steps
<1>4. AtStep(r)'
  <2>1. pc'[r] = "replay" /\ hit'[r] = idempotency[Slot(call[r])]
    BY <1>1, AtWork DEF Goto, StepTypes, Put
  <2> QED
    BY <1>1, <2>1, AtWork DEF AtStep, db
<1>5. UNCHANGED Store!vars
  BY <1>1, Silent
<1> QED
  BY <1>1, <1>3, <1>4, <1>5, MoveWithout

\* No entry: the create begins, or the duplicate key is reported.
LEMMA FindNoReplayKeeps ==
  ASSUME IInv, NEW r \in Requests, FindNoReplay(r)
  PROVE  IInv' /\ [Store!Next]_(Store!vars)
<1>1. pc[r] \in {"lookup", "recheck"} /\ UNCHANGED <<db, call, hit, txn>>
  BY DEF FindNoReplay
<1>2. r \notin DOMAIN hit /\ r \notin DOMAIN txn /\ reply[r].status = "pending"
  BY <1>1, AtWork DEF AtStep
<1>3. CASE Goto(r, "begin") /\ UNCHANGED reply
  <2>1. Moves(r, "begin")
    BY <1>1, <1>2, <1>3, AtWork, MovesOut DEF Steps
  <2>2. AtStep(r)'
    <3>1. pc'[r] = "begin"
      BY <1>3, AtWork DEF Goto, StepTypes
    <3> QED
      BY <1>2, <1>3, <3>1 DEF AtStep
  <2> QED
    BY <1>1, <1>3, <2>1, <2>2, Silent, MoveWithout
<1>4. CASE Faults /\ Return(r, Answer("error"))
  <2>1. /\ Goto(r, "done") /\ Store!Respond(r, Answer("error")) /\ AtStep(r)'
        /\ \A q \in Requests : q # r => reply'[q] = reply[q]
    BY <1>1, <1>4, Answered DEF Answer
  <2>2. Moves(r, "done")
    BY <1>1, <1>2, <2>1, AtWork, MovesOut DEF Steps
  <2>3. Store!Fail(r)
    BY <1>1, <1>2, <1>4, <2>1, SameDocuments DEF Store!Fail, Store!db, db
  <2>4. Store!Next
    BY <2>3 DEF Store!Next
  <2> QED
    BY <1>1, <2>1, <2>2, <2>4, MoveWithout
<1> QED
  BY <1>3, <1>4 DEF FindNoReplay

-----------------------------------------------------------------------------
(* The other steps that leave the database alone. *)

\* The method returns an answer that the store allows.
LEMMA Ends ==
  ASSUME IInv, NEW r \in Requests, NEW answer, Return(r, answer), pc[r] # "idle",
         answer.status \notin {"none", "pending"}, UNCHANGED <<db, call>>,
         hit' = Drop(hit, r) \/ (r \notin DOMAIN hit /\ hit' = hit),
         txn' = Drop(txn, r) \/ (r \notin DOMAIN txn /\ txn' = txn),
         [Store!Next]_(Store!vars)
  PROVE  IInv'
<1>1. /\ Goto(r, "done") /\ AtStep(r)'
      /\ \A q \in Requests : q # r => reply'[q] = reply[q]
  BY Answered
<1>2. Moves(r, "done")
  BY <1>1, AtWork, MovesOut DEF Steps
<1> QED
  BY <1>1, <1>2, MoveWithout

\* A pending request may fail, and the reason may be the workflow.
LEMMA Fails ==
  ASSUME NEW r \in Requests, NEW status \in {"error", "invalid"}, Faults,
         reply[r].status = "pending", Store!Respond(r, Answer(status)),
         UNCHANGED <<db, call>>
  PROVE  Store!Next
<1>1. Store!Fail(r)
  BY SameDocuments DEF Store!Fail, Store!db, db
<1> QED
  BY <1>1 DEF Store!Next

\* The record that the key names is returned as it is now.
LEMMA ReturnReplayKeeps ==
  ASSUME IInv, NEW r \in Requests, ReturnReplay(r)
  PROVE  IInv' /\ [Store!Next]_(Store!vars)
<1> DEFINE slot == Slot(call[r])
           answer == AnswerWith("replay", hit[r], records[hit[r]])
<1>1. /\ pc[r] = "replay" /\ Return(r, answer) /\ hit' = Drop(hit, r)
      /\ UNCHANGED <<db, call, txn>>
  BY DEF ReturnReplay, At
<1>2. /\ reply[r].status = "pending" /\ call[r].op = "create"
      /\ slot \in DOMAIN idempotency /\ idempotency[slot] = hit[r]
      /\ r \notin DOMAIN txn
  BY <1>1, AtWork DEF AtStep
<1>3. Store!Replay(r)
  BY <1>1, <1>2, SameDocuments DEF Return, Store!Replay, Store!Pending, Store!db, db
<1>4. Store!Next
  BY <1>3 DEF Store!Next
<1>5. answer.status = "replay"
  BY DEF AnswerWith
<1> HIDE DEF answer
<1> QED
  BY <1>1, <1>2, <1>4, <1>5, Ends

\* The callback runs again, or CreateRecord looks for a replay: the transaction has left
\* no trace.
LEMMA Restarts ==
  ASSUME IInv, NEW r \in Requests, NEW step \in {"begin", "recheck"},
         pc[r] \in {"write", "commit"}, step = "recheck" => call[r].op = "create",
         Goto(r, step), Close(r), UNCHANGED <<db, call, reply, hit>>
  PROVE  IInv' /\ [Store!Next]_(Store!vars)
<1>1. r \notin DOMAIN hit /\ reply[r].status = "pending" /\ txn' = Drop(txn, r)
  BY AtWork DEF AtStep, Close
<1>2. Moves(r, step)
  BY <1>1, AtWork, MovesOut DEF Steps
<1>3. AtStep(r)'
  <2>1. pc'[r] = step
    BY AtWork DEF Goto, StepTypes
  <2> QED
    BY <1>1, <2>1 DEF AtStep
<1> QED
  BY <1>2, <1>3, Silent, MoveWithout

\* A snapshot is taken: it is the database as it is now.
LEMMA Opens ==
  ASSUME IInv, NEW r \in Requests, pc[r] = "begin", Open(r), Goto(r, "write"),
         UNCHANGED <<db, call, reply, hit>>,
         call[r].op = "create" => HasWorkflow(workflows, call[r].workflowId, call[r].tenantId),
         call[r].op = "update" => UpdateRefusal(call[r], workflows, records) = "none"
  PROVE  IInv' /\ [Store!Next]_(Store!vars)
<1> DEFINE t == [records |-> records, idempotency |-> idempotency, writes |-> {}]
<1>1. IsTxn(t, "write")
  BY AtWork, StoreFacts DEF IsTxn
<1>2. txn' = Put(txn, r, t)
  BY DEF Open
<1>3. t.records = records /\ t.writes = {}
  OBVIOUS
<1> HIDE DEF t
<1>4. r \notin DOMAIN hit /\ reply[r].status = "pending"
  BY AtWork DEF AtStep
<1>5. Moves(r, "write") /\ txn'[r] = t
  BY <1>1, <1>2, <1>4, AtWork, MovesWith
<1>6. AtStep(r)'
  <2>1. pc'[r] = "write"
    BY AtWork DEF Goto, StepTypes
  <2> QED
    BY <1>4, <2>1 DEF AtStep
<1>7. Alone(r)' /\ Accepted(r)'
  BY <1>3, <1>5 DEF Alone, Accepted, db
<1> QED
  BY <1>5, <1>6, <1>7, Silent, LocalMove

\* CreateRecord's callback begins.
LEMMA BeginCreateKeeps ==
  ASSUME IInv, NEW r \in Requests, BeginCreate(r)
  PROVE  IInv' /\ [Store!Next]_(Store!vars)
<1>1. pc[r] = "begin" /\ call[r].op = "create" /\ UNCHANGED <<db, call, hit>>
  BY DEF BeginCreate, At
<1>2. r \notin DOMAIN hit /\ r \notin DOMAIN txn /\ reply[r].status = "pending"
  BY <1>1, AtWork DEF AtStep
<1>3. CASE /\ HasWorkflow(workflows, call[r].workflowId, call[r].tenantId)
           /\ Open(r) /\ Goto(r, "write") /\ UNCHANGED reply
  BY <1>1, <1>3, Opens
<1>4. CASE /\ ~HasWorkflow(workflows, call[r].workflowId, call[r].tenantId)
           /\ Return(r, Answer("invalid")) /\ UNCHANGED txn
  <2>1. Store!RefuseCreate(r)
    BY <1>1, <1>2, <1>4, SameDocuments, SameQuestions
    DEF Return, Store!RefuseCreate, Store!Pending, Store!db, db
  <2>2. Store!Next
    BY <2>1 DEF Store!Next
  <2>3. Answer("invalid").status = "invalid"
    BY DEF Answer
  <2> QED
    BY <1>1, <1>2, <1>4, <2>2, <2>3, Ends
<1> QED
  BY <1>3, <1>4 DEF BeginCreate

\* UpdateRecord's callback begins.
LEMMA BeginUpdateKeeps ==
  ASSUME IInv, NEW r \in Requests, BeginUpdate(r)
  PROVE  IInv' /\ [Store!Next]_(Store!vars)
<1> DEFINE why == UpdateRefusal(call[r], workflows, records)
<1>1. pc[r] = "begin" /\ call[r].op = "update" /\ UNCHANGED <<db, call, hit>>
  BY DEF BeginUpdate, At
<1>2. r \notin DOMAIN hit /\ r \notin DOMAIN txn /\ reply[r].status = "pending"
  BY <1>1, AtWork DEF AtStep
<1>3. CASE why = "none" /\ Open(r) /\ Goto(r, "write") /\ UNCHANGED reply
  BY <1>1, <1>3, Opens
<1>4. CASE why # "none" /\ Return(r, Answer(why)) /\ UNCHANGED txn
  <2>1. Store!RefuseUpdate(r)
    BY <1>1, <1>2, <1>4, SameDocuments, SameQuestions
    DEF Return, Store!RefuseUpdate, Store!Pending, Store!db, db
  <2>2. Store!Next
    BY <2>1 DEF Store!Next
  <2>3. Answer(why).status \in {"notFound", "conflict", "invalid"}
    BY <1>4, Refusals DEF Answer
  <2> QED
    BY <1>1, <1>2, <1>4, <2>2, <2>3, Ends
<1> QED
  BY <1>3, <1>4 DEF BeginUpdate

\* The caller is told of an error and the commit is left to itself.
LEMMA GiveUpKeeps ==
  ASSUME IInv, NEW r \in Requests, GiveUp(r)
  PROVE  IInv' /\ [Store!Next]_(Store!vars)
<1>1. /\ Faults /\ pc[r] = "commit" /\ Store!Respond(r, Answer("error"))
      /\ Goto(r, "late") /\ UNCHANGED <<db, call, hit, txn>>
  BY DEF GiveUp, At
<1>2. /\ r \in DOMAIN txn /\ IsTxn(txn[r], "late") /\ r \notin DOMAIN hit
      /\ reply[r].status = "pending" /\ Alone(r) /\ Accepted(r)
      /\ txn = [q \in DOMAIN txn |-> txn[q]]
  BY <1>1, AtWork DEF AtStep, IsTxn
<1>3. txn' = Put(txn, r, txn[r])
  BY <1>1, <1>2 DEF Put
<1>4. Moves(r, "late")
  BY <1>1, <1>2, <1>3, AtWork, MovesWith
<1>5. /\ reply'[r] = Answer("error") /\ pc'[r] = "late"
      /\ \A q \in Requests : q # r => reply'[q] = reply[q]
  BY <1>1, AtWork, StoreFacts DEF Store!Respond, Goto, StepTypes
<1>6. \A e \in outbox : e.by # r
  BY <1>2, StoreFacts DEF IInv
<1>7. AtStep(r)'
  BY <1>1, <1>5, <1>6 DEF AtStep, Answer, db
<1>8. Alone(r)' /\ Accepted(r)'
  BY <1>1, <1>2 DEF Alone, Accepted, db
<1>9. Store!Next
  BY <1>1, <1>2, Fails
<1> QED
  BY <1>1, <1>4, <1>5, <1>7, <1>8, <1>9, LocalMove

\* The request fails; one whose commit nobody waits for any more was told so before.
LEMMA FailKeeps ==
  ASSUME IInv, NEW r \in Requests, Fail(r)
  PROVE  IInv' /\ [Store!Next]_(Store!vars)
<1>1. /\ Faults /\ pc[r] \notin {"idle", "done"}
      /\ hit' = Drop(hit, r) /\ txn' = Drop(txn, r) /\ UNCHANGED <<db, call>>
  BY DEF Fail, Close
<1>2. PICK status \in {"error", "invalid"} :
        Return(r, Answer(status)) /\ (pc[r] = "late" => status = "error")
  BY DEF Fail, At
<1>3. Answer(status).status = status
  BY DEF Answer
<1>4. [Store!Next]_(Store!vars)
  <2>1. CASE pc[r] = "late"
    <3>1. reply' = reply
      BY <1>2, <2>1, AtWork, StoreFacts DEF AtStep, Return, Store!Respond
    <3> QED
      BY <1>1, <3>1, Silent
  <2>2. CASE pc[r] # "late"
    BY <1>1, <1>2, <2>2, AtWork, Fails DEF AtStep, Return
  <2> QED
    BY <2>1, <2>2
<1> QED
  BY <1>1, <1>2, <1>3, <1>4, Ends

-----------------------------------------------------------------------------
(* The writes: from here to its commit the transaction is alone. *)

\* What is staged is all the transaction is about to commit.
LEMMA Stages ==
  ASSUME IInv, NEW r \in Requests, pc[r] = "write", NEW id \in RecordIds, NEW rec \in Records,
         Stage(r, id, rec), Goto(r, "commit"), UNCHANGED <<db, call, reply, hit>>
  PROVE  /\ Moves(r, "commit") /\ AtStep(r)'
         /\ txn'[r].records = txn[r].records
         /\ txn'[r].writes = {[id |-> id, rec |-> rec]}
         /\ \A q \in DOMAIN txn \ {r} : txn'[q] = txn[q]
         /\ DOMAIN txn' \ {r} = DOMAIN txn \ {r}
<1> DEFINE w == [id |-> id, rec |-> rec]
           t == [txn[r] EXCEPT !.writes = {w}]
<1>1. /\ r \in DOMAIN txn /\ IsTxn(txn[r], "write") /\ r \notin DOMAIN hit
      /\ reply[r].status = "pending" /\ txn = [q \in DOMAIN txn |-> txn[q]]
  BY AtWork DEF AtStep
<1>2. w \in Writes
  BY DEF Writes
<1>3. txn' = [txn EXCEPT ![r] = t]
  BY DEF Stage
<1>4. /\ t = [records |-> txn[r].records, idempotency |-> txn[r].idempotency, writes |-> {w}]
      /\ t.records = txn[r].records /\ t.writes = {w} /\ t.idempotency = txn[r].idempotency
  BY <1>1 DEF IsTxn
<1> HIDE DEF t, w
<1>5. IsTxn(t, "commit")
  BY <1>1, <1>2, <1>4 DEF IsTxn
<1>6. txn' = Put(txn, r, t)
  BY <1>1, <1>3 DEF Put
<1>7. Moves(r, "commit") /\ txn'[r] = t
  BY <1>1, <1>5, <1>6, AtWork, MovesWith
<1>8. AtStep(r)'
  <2>1. pc'[r] = "commit"
    BY AtWork DEF Goto, StepTypes
  <2> QED
    BY <1>1, <2>1 DEF AtStep
<1> QED
  BY <1>3, <1>4, <1>7, <1>8, <1>1 DEF w

\* The new record has an id of its own, and its key no entry, in the database or in
\* another transaction.
LEMMA WriteCreateKeeps ==
  ASSUME IInv, NEW r \in Requests, NEW id \in RecordIds, WriteCreate(r, id)
  PROVE  IInv' /\ [Store!Next]_(Store!vars)
<1> DEFINE c == call[r]
           rec == NewRecord(c, workflows[c.workflowId])
           w == [id |-> id, rec |-> rec]
<1>1. /\ pc[r] = "write" /\ c.op = "create" /\ FreshId(id)
      /\ c.key # NoKey => /\ Slot(c) \notin DOMAIN txn[r].idempotency
                          /\ ~SlotContended(r, Slot(c))
      /\ Stage(r, id, rec) /\ Goto(r, "commit") /\ UNCHANGED <<db, call, reply, hit>>
  BY DEF WriteCreate, At
<1>2. r \in DOMAIN txn /\ Accepted(r) /\ c \in Calls
  BY <1>1, AtWork
<1>3. HasWorkflow(workflows, c.workflowId, c.tenantId) /\ workflows[c.workflowId] \in Workflows
  BY <1>1, <1>2, StoreFacts DEF IInv, Accepted, HasWorkflow, IsMap
<1>4. rec \in Records
  BY <1>1, <1>2, <1>3, NewRecordType
<1>5. w.id = id /\ w.rec = rec
  OBVIOUS
<1> HIDE DEF rec
<1>6. /\ Moves(r, "commit") /\ AtStep(r)' /\ txn'[r].records = txn[r].records
      /\ txn'[r].writes = {w}
      /\ \A q \in DOMAIN txn \ {r} : txn'[q] = txn[q]
      /\ DOMAIN txn' \ {r} = DOMAIN txn \ {r}
  BY <1>1, <1>4, Stages
<1> HIDE DEF w
<1>7. Alone(r)'
  <2>1. ASSUME NEW q \in DOMAIN txn \ {r}, NEW v \in txn[q].writes
        PROVE  /\ v.id # id
               /\ call[q].op = "create" => c.key = NoKey \/ Slot(c) # Slot(call[q])
    BY <1>1, <2>1 DEF FreshId, SlotContended
  <2>2. id \notin DOMAIN records
    BY <1>1 DEF FreshId
  <2>3. Slot(c) \notin DOMAIN idempotency
    <3>1. CASE c.key = NoKey
      BY <3>1, StoreFacts, DomainAssumption DEF IInv, IsMap, Slots, Slot
    <3>2. CASE c.key # NoKey
      BY <1>1, <3>2 DEF SlotContended
    <3> QED
      BY <3>1, <3>2
  <2> QED
    BY <1>1, <1>5, <1>6, <2>1, <2>2, <2>3 DEF Alone, db
<1>8. Accepted(r)'
  BY <1>1, <1>2, <1>3, <1>5, <1>6 DEF Accepted, db, rec
<1> QED
  BY <1>1, <1>6, <1>7, <1>8, Silent, LocalMove

\* The record is still what the snapshot shows, and nobody else has staged it.
LEMMA WriteUpdateKeeps ==
  ASSUME IInv, NEW r \in Requests, WriteUpdate(r)
  PROVE  IInv' /\ [Store!Next]_(Store!vars)
<1> DEFINE c == call[r]
           id == c.recordId
           rec == Updated(txn[r].records[id], c)
           w == [id |-> id, rec |-> rec]
<1>1. /\ pc[r] = "write" /\ c.op = "update" /\ ~RecordContended(r, id)
      /\ Stage(r, id, rec) /\ Goto(r, "commit") /\ UNCHANGED <<db, call, reply, hit>>
  BY DEF WriteUpdate, At
<1>2. r \in DOMAIN txn /\ Accepted(r) /\ c \in Calls /\ IsTxn(txn[r], "write")
  BY <1>1, AtWork
<1>3. id \in DOMAIN txn[r].records /\ id \in DOMAIN records
      /\ UpdateRefusal(c, workflows, txn[r].records) = "none"
  BY <1>1, <1>2, Refusals DEF Accepted
<1>4. records[id] = txn[r].records[id] /\ id \in RecordIds /\ records[id] \in Records
  BY <1>1, <1>3, StoreFacts DEF RecordContended, IInv, IsMap
<1>5. rec \in Records /\ rec = Updated(records[id], c)
  BY <1>1, <1>2, <1>4, UpdatedType
<1>6. UpdateRefusal(c, workflows, records) = "none"
  BY <1>3, <1>4, NotRefusedStays
<1>7. w.id = id /\ w.rec = rec
  OBVIOUS
<1> HIDE DEF rec
<1>8. /\ Moves(r, "commit") /\ AtStep(r)' /\ txn'[r].records = txn[r].records
      /\ txn'[r].writes = {w}
      /\ \A q \in DOMAIN txn \ {r} : txn'[q] = txn[q]
      /\ DOMAIN txn' \ {r} = DOMAIN txn \ {r}
  BY <1>1, <1>4, <1>5, Stages
<1> HIDE DEF w
<1>9. Alone(r)'
  <2>1. \A q \in DOMAIN txn \ {r} : \A v \in txn[q].writes : v.id # id
    BY <1>1 DEF RecordContended
  <2> QED
    BY <1>1, <1>3, <1>5, <1>7, <1>8, <2>1 DEF Alone, db
<1>10. Accepted(r)'
  BY <1>1, <1>2, <1>3, <1>6, <1>8 DEF Accepted, db
<1> QED
  BY <1>1, <1>8, <1>9, <1>10, Silent, LocalMove

-----------------------------------------------------------------------------
(* The steps that change the database, and the arrival of a request. *)

\* A commit is the step at which the request takes effect.
LEMMA CommitIsEffect ==
  ASSUME IInv, NEW r \in Requests, Commit(r), NEW w \in txn[r].writes,
         records' = Put(records, w.id, w.rec),
         idempotency' = IF call[r].op = "create" /\ call[r].key # NoKey
                        THEN Put(idempotency, Slot(call[r]), w.id) ELSE idempotency,
         Store!Journalled(r, w.id, w.rec,
           IF call[r].op = "create" THEN "record.created" ELSE "record.updated"),
         \/ pc[r] = "commit" /\ Return(r, AnswerWith(
              IF call[r].op = "create" THEN "created" ELSE "updated", w.id, w.rec))
         \/ Faults /\ Return(r, Answer("error"))
  PROVE  Store!Next
<1> DEFINE c == call[r]
<1>1. pc[r] \in {"commit", "late"} /\ UNCHANGED <<workflows, call>>
  BY DEF Commit
<1>2. r \in DOMAIN txn /\ Alone(r) /\ Accepted(r) /\ c \in Calls /\ w \in Writes
  BY <1>1, AtWork DEF IsTxn
<1>3. Store!Unfinished(r, c.op) /\ (pc[r] = "commit" => Store!Pending(r, c.op))
  BY <1>1, AtWork DEF AtStep, Store!Unfinished, Store!Pending, Answer
<1>4. CASE c.op = "create"
  <2>1. /\ w.id \notin DOMAIN records /\ Slot(c) \notin DOMAIN idempotency
        /\ HasWorkflow(workflows, c.workflowId, c.tenantId)
        /\ w.rec = NewRecord(c, workflows[c.workflowId]) /\ w.id \in RecordIds
    BY <1>2, <1>4 DEF Alone, Accepted, Writes
  <2>2. Store!Create(r, w.id)
    BY <1>1, <1>3, <1>4, <2>1, SameDocuments, SameQuestions
    DEF Store!Create, Store!KeyFree, Return
  <2> QED
    BY <2>1, <2>2 DEF Store!Next
<1>5. CASE c.op = "update"
  <2>1. /\ w.id = c.recordId /\ w.rec = Updated(records[c.recordId], c)
        /\ UpdateRefusal(c, workflows, records) = "none"
    BY <1>2, <1>5 DEF Alone, Accepted
  <2>2. Store!Update(r)
    BY <1>1, <1>3, <1>5, <2>1, SameDocuments, SameQuestions
    DEF Store!Update, Return
  <2> QED
    BY <2>2 DEF Store!Next
<1> QED
  BY <1>2, <1>4, <1>5, CallFields

\* The commit replaces nothing that another transaction relies on.
LEMMA CommitKeeps ==
  ASSUME IInv, NEW r \in Requests, Commit(r)
  PROVE  IInv' /\ [Store!Next]_(Store!vars)
<1> DEFINE c == call[r]
<1>1. /\ pc[r] \in {"commit", "late"} /\ UNCHANGED <<workflows, call, hit>>
      /\ txn' = Drop(txn, r)
  BY DEF Commit, Close
<1>2. PICK w \in txn[r].writes :
        /\ records' = Put(records, w.id, w.rec)
        /\ idempotency' = IF c.op = "create" /\ c.key # NoKey
                          THEN Put(idempotency, Slot(c), w.id) ELSE idempotency
        /\ Store!Journalled(r, w.id, w.rec,
             IF c.op = "create" THEN "record.created" ELSE "record.updated")
        /\ \/ pc[r] = "commit" /\ Return(r, AnswerWith(
                IF c.op = "create" THEN "created" ELSE "updated", w.id, w.rec))
           \/ Faults /\ Return(r, Answer("error"))
  BY DEF Commit, At
<1>3. Store!Next
  BY <1>2, CommitIsEffect
<1>4. /\ r \in DOMAIN txn /\ r \notin DOMAIN hit /\ Alone(r) /\ c \in Calls
      /\ StepTypes
  BY <1>1, AtWork
<1>5. PICK answer : Return(r, answer) /\ answer.status \notin {"none", "pending"}
  BY <1>2 DEF Answer, AnswerWith
<1>6. /\ Goto(r, "done") /\ AtStep(r)'
      /\ \A q \in Requests : q # r => reply'[q] = reply[q]
  BY <1>1, <1>5, Answered
<1>7. Moves(r, "done")
  BY <1>1, <1>4, <1>6, MovesOut DEF Steps
<1>8. StepTypes' /\ \A q \in Requests : q # r => pc'[q] = pc[q]
  BY <1>4, <1>7, StepTypesKept
<1>9. StoreProofs!Inv' /\ TypeOK'
  BY <1>3, <1>8, StoreStep, StoreTypes, TypesAfter DEF IInv
<1>10. /\ DOMAIN txn' = DOMAIN txn \ {r} /\ DOMAIN txn \subseteq Requests
       /\ \A q \in DOMAIN txn \ {r} : txn'[q] = txn[q]
  BY <1>1, <1>4 DEF Drop, StepTypes
<1>11. /\ DOMAIN records' = DOMAIN records \cup {w.id}
       /\ \A id \in DOMAIN records : id # w.id => records'[id] = records[id]
  BY <1>2 DEF Put
<1>12. /\ \A s \in DOMAIN idempotency :
            s \in DOMAIN idempotency' /\ idempotency'[s] = idempotency[s]
       /\ \A s \in DOMAIN idempotency' \ DOMAIN idempotency :
            c.op = "create" /\ c.key # NoKey /\ s = Slot(c)
  BY <1>2, <1>4 DEF Alone, Put
<1>13. \A e \in outbox' : e \in outbox \/ e.by = r
  BY <1>2 DEF Store!Journalled, Store!OutboxOf
<1>14. \A q \in DOMAIN txn \ {r} : /\ Alone(q) /\ Accepted(q)
                                   /\ \A v \in txn[q].writes : v.id # w.id
  BY <1>4, IsolatedByRequest DEF IInv, Alone
<1>15. ASSUME NEW q \in Requests, q # r
       PROVE  AtStep(q)' /\ (q \in DOMAIN txn => Accepted(q)')
  <2>1. q \in DOMAIN txn => \A v \in txn[q].writes : call[q].op = "update" =>
          records'[call[q].recordId] = records[call[q].recordId]
    <3>1. q \in DOMAIN txn => \A v \in txn[q].writes : call[q].op = "update" =>
            call[q].recordId \in DOMAIN records /\ call[q].recordId # w.id
      BY <1>14, <1>15 DEF Alone
    <3> QED
      BY <1>11, <3>1
  <2>2. AtStep(q) /\ (q \in DOMAIN txn => Accepted(q))
    BY DEF IInv
  <2>3. DOMAIN records \subseteq DOMAIN records'
    BY <1>11
  <2>4. \A e \in outbox' : e \in outbox \/ e.by # q
    BY <1>13, <1>15
  <2> QED
    BY <1>1, <1>6, <1>8, <1>10, <1>12, <1>15, <2>1, <2>2, <2>3, <2>4, OthersKeep
<1>16. ASSUME NEW q \in DOMAIN txn' PROVE Alone(q)'
  <2>1. /\ q \in DOMAIN txn \ {r} /\ Alone(q) /\ txn'[q] = txn[q]
        /\ \A v \in txn[q].writes : v.id # w.id
    BY <1>10, <1>14, <1>16
  <2>2. ASSUME NEW v \in txn[q].writes, call[q].op = "create"
        PROVE  v.id \notin DOMAIN records' /\ Slot(call[q]) \notin DOMAIN idempotency'
    <3>1. v.id \notin DOMAIN records /\ Slot(call[q]) \notin DOMAIN idempotency
      BY <2>1, <2>2 DEF Alone
    <3>2. c.op = "create" /\ c.key # NoKey => Slot(call[q]) # Slot(c)
      BY <1>4, <2>1, <2>2 DEF Alone
    <3> QED
      BY <1>11, <1>12, <2>1, <3>1, <3>2
  <2>3. ASSUME NEW v \in txn[q].writes, call[q].op = "update"
        PROVE  /\ v.id = call[q].recordId /\ v.id \in DOMAIN records'
               /\ v.rec = Updated(records'[v.id], call[q])
    BY <1>11, <2>1, <2>3 DEF Alone
  <2>4. ASSUME NEW v \in txn[q].writes, NEW p \in DOMAIN txn' \ {q}, NEW u \in txn'[p].writes
        PROVE  /\ u.id # v.id
               /\ call[q].op = "create" /\ call[p].op = "create" =>
                    call[q].key = NoKey \/ Slot(call[q]) # Slot(call[p])
    BY <1>10, <2>1, <2>4 DEF Alone
  <2> QED
    BY <1>1, <2>1, <2>2, <2>3, <2>4 DEF Alone
<1>17. Isolated'
  BY <1>16 DEF Isolated, Alone
<1>18. \A q \in DOMAIN txn' : Accepted(q)'
  BY <1>10, <1>15
<1>19. \A q \in Requests : AtStep(q)'
  BY <1>6, <1>15
<1> QED
  BY <1>3, <1>9, <1>17, <1>18, <1>19 DEF IInv

\* A request arrives.
LEMMA ReceiveKeeps ==
  ASSUME IInv, NEW r \in Requests, NEW c \in Calls, Receive(r, c)
  PROVE  IInv' /\ [Store!Next]_(Store!vars)
<1> DEFINE step == IF c.op = "create" /\ c.key # NoKey THEN "lookup" ELSE "begin"
<1>1. /\ Store!Receive(r, c) /\ Goto(r, step) /\ UNCHANGED <<hit, txn>>
  BY DEF Receive
<1>2. step \in {"lookup", "begin"} /\ (step = "lookup" => c.op = "create")
  OBVIOUS
<1> HIDE DEF step
<1>3. Store!Next
  BY <1>1 DEF Store!Next
<1>4. /\ reply[r].status = "none" /\ UNCHANGED db
      /\ call' = [call EXCEPT ![r] = c] /\ reply' = [reply EXCEPT ![r] = Answer("pending")]
  BY <1>1, SameDocuments DEF Store!Receive, Store!Respond, Store!db, db
<1>5. /\ call'[r] = c /\ reply'[r] = Answer("pending")
      /\ \A q \in Requests : q # r => call'[q] = call[q] /\ reply'[q] = reply[q]
  BY <1>4, StoreFacts DEF IInv
<1>6. pc[r] = "idle" /\ r \notin DOMAIN hit /\ r \notin DOMAIN txn /\ StepTypes
  BY <1>4, AtWork DEF AtStep
<1>7. Moves(r, step)
  BY <1>1, <1>2, <1>6, MovesOut DEF Steps
<1>8. StepTypes' /\ pc'[r] = step /\ \A q \in Requests : q # r => pc'[q] = pc[q]
  BY <1>6, <1>7, StepTypesKept
<1>9. AtStep(r)'
  BY <1>2, <1>5, <1>8 DEF AtStep, Answer
<1>10. StoreProofs!Inv' /\ TypeOK'
  BY <1>3, <1>8, StoreStep, StoreTypes, TypesAfter DEF IInv
<1>11. /\ Isolated' /\ (\A q \in Requests : AtStep(q)')
       /\ \A q \in DOMAIN txn' : Accepted(q)'
  BY <1>1, <1>4, <1>5, <1>6, <1>8, <1>9, LocalStep
<1> QED
  BY <1>3, <1>10, <1>11 DEF IInv

\* A workflow more takes nothing from anyone.
LEMMA CreateWorkflowKeeps ==
  ASSUME IInv, NEW id \in WorkflowIds, NEW t \in Tenants, NEW states \in StateLists,
         CreateWorkflow(id, t, states)
  PROVE  IInv' /\ [Store!Next]_(Store!vars)
<1>1. Store!CreateWorkflow(id, t, states) /\ UNCHANGED <<pc, hit, txn>>
  BY DEF CreateWorkflow
<1>2. Store!Next
  BY <1>1 DEF Store!Next
<1>3. /\ UNCHANGED <<records, idempotency, audit, outbox, call, reply>>
      /\ \A i \in DOMAIN workflows : i \in DOMAIN workflows' /\ workflows'[i] = workflows[i]
  BY <1>1 DEF Store!CreateWorkflow, Store!Put
<1>4. StepTypes'
  BY <1>1, TypesByRequest DEF IInv, StepTypes, IsTxn
<1>5. StoreProofs!Inv' /\ TypeOK'
  BY <1>2, <1>4, StoreStep, StoreTypes, TypesAfter DEF IInv
<1>6. Isolated'
  BY <1>1, <1>3 DEF IInv, Isolated
<1>7. \A q \in Requests : AtStep(q)' /\ (q \in DOMAIN txn => Accepted(q)')
  BY <1>1, <1>3, OthersKeep DEF IInv
<1>8. DOMAIN txn \subseteq Requests
  BY TypesByRequest DEF IInv, StepTypes
<1> QED
  BY <1>1, <1>2, <1>5, <1>6, <1>7, <1>8 DEF IInv

-----------------------------------------------------------------------------
(* The theorems. *)

\* No request has arrived.
LEMMA InitHolds == Init => IInv /\ Store!Init
<1> SUFFICES ASSUME Init PROVE IInv /\ Store!Init
  OBVIOUS
<1>1. Store!Init /\ StoreProofs!Inv
  BY SameSteps, StoreAssumed, StoreProofs!InvInit DEF Init
<1>2. DOMAIN hit = {} /\ DOMAIN txn = {} /\ pc = [r \in Requests |-> "idle"]
      /\ hit = [r \in DOMAIN hit |-> hit[r]] /\ txn = [r \in DOMAIN txn |-> txn[r]]
  BY DEF Init, EmptyMap
<1>3. TypeOK
  BY <1>1, <1>2, StoreFacts, TypesByRequest DEF StepTypes, Steps
<1>4. \A r \in Requests : AtStep(r)
  BY <1>1, <1>2, SameDocuments DEF Store!Init, AtStep, Answer
<1> QED
  BY <1>1, <1>2, <1>3, <1>4 DEF IInv, Isolated

\* Every step keeps the invariant, and is a step of the store or none of its.
LEMMA NextKeeps == IInv /\ [Next]_vars => IInv' /\ [Store!Next]_(Store!vars)
<1> SUFFICES ASSUME IInv, [Next]_vars PROVE IInv' /\ [Store!Next]_(Store!vars)
  OBVIOUS
<1>1. ASSUME NEW id \in WorkflowIds, NEW t \in Tenants, NEW states \in StateLists,
             CreateWorkflow(id, t, states)
      PROVE IInv' /\ [Store!Next]_(Store!vars)
  BY <1>1, CreateWorkflowKeeps
<1>2. ASSUME NEW r \in Requests, NEW c \in Calls, Receive(r, c)
      PROVE IInv' /\ [Store!Next]_(Store!vars)
  BY <1>2, ReceiveKeeps
<1>3. ASSUME NEW r \in Requests, Serve(r)
      PROVE IInv' /\ [Store!Next]_(Store!vars)
  <2>1. CASE FindReplay(r) \/ FindNoReplay(r) \/ ReturnReplay(r)
    BY <2>1, FindReplayKeeps, FindNoReplayKeeps, ReturnReplayKeeps
  <2>2. CASE BeginCreate(r) \/ BeginUpdate(r)
    BY <2>2, BeginCreateKeeps, BeginUpdateKeeps
  <2>3. CASE WriteUpdate(r) \/ \E id \in RecordIds : WriteCreate(r, id)
    BY <2>3, WriteUpdateKeeps, WriteCreateKeeps
  <2>4. CASE DuplicateKey(r)
    BY <2>4, Restarts DEF DuplicateKey, At
  <2>5. CASE WriteConflict(r)
    BY <2>5, Restarts DEF WriteConflict, At
  <2>6. CASE Commit(r)
    BY <2>6, CommitKeeps
  <2> QED
    BY <1>3, <2>1, <2>2, <2>3, <2>4, <2>5, <2>6 DEF Serve
<1>4. ASSUME NEW r \in Requests, GiveUp(r) \/ Transient(r) \/ Fail(r)
      PROVE IInv' /\ [Store!Next]_(Store!vars)
  BY <1>4, GiveUpKeeps, FailKeeps, Restarts DEF Transient
<1>5. CASE UNCHANGED vars
  <2>1. UNCHANGED Store!vars /\ UNCHANGED <<db, call, reply, pc, hit, txn>>
    BY <1>5 DEF vars, db, Store!vars
  <2>2. StoreProofs!Inv'
    BY <2>1, StoreStep DEF IInv
  <2>3. StepTypes'
    BY <2>1, TypesByRequest DEF IInv, StepTypes, IsTxn
  <2>4. TypeOK'
    BY <2>2, <2>3, StoreTypes, TypesAfter
  <2>5. Isolated'
    BY <2>1 DEF db, IInv, Isolated
  <2>6. /\ \A r \in Requests : AtStep(r)'
        /\ \A r \in DOMAIN txn : Accepted(r)'
    BY <2>1 DEF db, IInv, AtStep, Accepted
  <2> QED
    BY <2>1, <2>2, <2>4, <2>5, <2>6 DEF IInv
<1> QED
  BY <1>1, <1>2, <1>3, <1>4, <1>5 DEF Next

\* The invariant holds always.
LEMMA Invariance == Spec => []IInv
BY InitHolds, NextKeeps, PTL DEF Spec

\* Every reachable state has its type: a step never reads what is not there.
THEOREM TypeCorrect == Spec => []TypeOK
<1>1. IInv => TypeOK
  BY DEF IInv
<1> QED
  BY <1>1, Invariance, PTL

\* From its write to its commit a transaction is alone, however many run.
THEOREM AlwaysIsolated == Spec => []Isolated
<1>1. IInv => Isolated
  BY DEF IInv
<1> QED
  BY <1>1, Invariance, PTL

\* The concurrent transactions implement the atomic store: every step of a request
\* is one operation of the store, or nothing that its callers could tell.
THEOREM ImplementsAtomicStore == Spec => ImplementsRecordStore
BY InitHolds, NextKeeps, Invariance, PTL DEF Spec, ImplementsRecordStore, Store!Spec

\* So the promises of the store hold of the database, with all its transactions,
\* retries and late commits: its documents tell one history, keys name one record,
\* answers are true and no update is lost.
THEOREM PromisesKept == Spec => []StoreProofs!Promises
<1>1. Spec => StoreProofs!Spec
  BY ImplementsAtomicStore, SameSteps, PTL DEF ImplementsRecordStore, Store!Spec, StoreProofs!Spec
<1>2. StoreProofs!Spec => []StoreProofs!Promises
  BY StoreAssumed, StoreProofs!PromisesKept
<1> QED
  BY <1>1, <1>2, PTL
=============================================================================
