---------------------------- MODULE HttpApi_proofs ----------------------------
(***************************************************************************)
(* The HTTP API shows nobody anything of another tenant, changes nothing   *)
(* without a token that allows it, and tells the truth about changes and   *)
(* refusals, for any number of tenants, tokens and concurrent requests.    *)
(*                                                                         *)
(* The database's part of it is what RecordStore_proofs shows of every     *)
(* RecordStore; the part of the API is that a request, once let through,   *)
(* keeps the token and the call it was let through with.                   *)
(***************************************************************************)
EXTENDS HttpApi, TLAPS

StoreProofs == INSTANCE RecordStore_proofs

-----------------------------------------------------------------------------
(* The store below the API is that of RecordStore_proofs. *)

\* The assumptions of the store hold of the API's constants.
LEMMA StoreAssumed ==
  /\ NoKey \notin Keys
  /\ NoState \notin States
  /\ NoRecord \notin RecordIds
  /\ StateLists \subseteq Seq(States)
  /\ Calls \subseteq StoreProofs!CreateCalls \cup StoreProofs!UpdateCalls
  /\ NoCall \notin Calls
  /\ Faults \in BOOLEAN
BY DomainAssumption, ApiAssumption
DEF CreateCalls, UpdateCalls, StoreProofs!CreateCalls, StoreProofs!UpdateCalls

\* The same documents, answers and questions.
LEMMA SameDocuments ==
  /\ Store!EmptyMap = StoreProofs!EmptyMap
  /\ \A f, k, v : Store!Put(f, k, v) = StoreProofs!Put(f, k, v)
  /\ \A c : Store!Slot(c) = StoreProofs!Slot(c)
  /\ \A c, wf : Store!NewRecord(c, wf) = StoreProofs!NewRecord(c, wf)
  /\ \A c, rec : Store!Updated(rec, c) = StoreProofs!Updated(rec, c)
  /\ \A status : Store!Answer(status) = StoreProofs!Answer(status)
  /\ \A status, id, rec : Store!AnswerWith(status, id, rec) = StoreProofs!AnswerWith(status, id, rec)
  /\ \A wfs, id, t : Store!HasWorkflow(wfs, id, t) <=> StoreProofs!HasWorkflow(wfs, id, t)
  /\ \A c, wfs, recs : Store!UpdateRefusal(c, wfs, recs) = StoreProofs!UpdateRefusal(c, wfs, recs)
<1>1. \A f, k, v : Store!Put(f, k, v) = StoreProofs!Put(f, k, v)
  BY DEF Store!Put, StoreProofs!Put
<1>2. /\ \A c : Store!Slot(c) = StoreProofs!Slot(c)
      /\ \A c, wf : Store!NewRecord(c, wf) = StoreProofs!NewRecord(c, wf)
      /\ \A c, rec : Store!Updated(rec, c) = StoreProofs!Updated(rec, c)
  BY DEF Store!Slot, StoreProofs!Slot, Store!NewRecord, StoreProofs!NewRecord,
         Store!Updated, StoreProofs!Updated
<1>3. /\ Store!EmptyMap = StoreProofs!EmptyMap
      /\ \A status : Store!Answer(status) = StoreProofs!Answer(status)
      /\ \A status, id, rec :
           Store!AnswerWith(status, id, rec) = StoreProofs!AnswerWith(status, id, rec)
  BY DEF Store!EmptyMap, StoreProofs!EmptyMap, Store!Answer, StoreProofs!Answer,
         Store!AnswerWith, StoreProofs!AnswerWith
<1>4. /\ \A wfs, id, t : Store!HasWorkflow(wfs, id, t) <=> StoreProofs!HasWorkflow(wfs, id, t)
      /\ \A recs, id, t : Store!HasRecord(recs, id, t) <=> StoreProofs!HasRecord(recs, id, t)
      /\ \A wf, s : Store!Declares(wf, s) <=> StoreProofs!Declares(wf, s)
      /\ \A c, rec : Store!UpToDate(c, rec) <=> StoreProofs!UpToDate(c, rec)
  BY DEF Store!HasWorkflow, StoreProofs!HasWorkflow, Store!HasRecord, StoreProofs!HasRecord,
         Store!Declares, StoreProofs!Declares, Store!UpToDate, StoreProofs!UpToDate
<1>5. \A c, wfs, rec : Store!Allows(c, wfs, rec) <=> StoreProofs!Allows(c, wfs, rec)
  BY <1>4 DEF Store!Allows, StoreProofs!Allows
<1>6. \A c, wfs, recs : Store!UpdateRefusal(c, wfs, recs) = StoreProofs!UpdateRefusal(c, wfs, recs)
  BY <1>4, <1>5 DEF Store!UpdateRefusal, StoreProofs!UpdateRefusal
<1> QED
  BY <1>1, <1>2, <1>3, <1>4, <1>6

\* The same operations.
LEMMA SameOperations ==
  /\ Store!Init => StoreProofs!Init
  /\ \A id, t, states : Store!CreateWorkflow(id, t, states) => StoreProofs!CreateWorkflow(id, t, states)
  /\ \A r, c : Store!Receive(r, c) => StoreProofs!Receive(r, c)
  /\ \A r, id : Store!Create(r, id) => StoreProofs!Create(r, id)
  /\ \A r : Store!Replay(r) => StoreProofs!Replay(r)
  /\ \A r : Store!Update(r) => StoreProofs!Update(r)
  /\ \A r : Store!RefuseCreate(r) => StoreProofs!RefuseCreate(r)
  /\ \A r : Store!RefuseUpdate(r) => StoreProofs!RefuseUpdate(r)
  /\ \A r : Store!Fail(r) => StoreProofs!Fail(r)
<1>1. \A r, op : /\ Store!Pending(r, op) <=> StoreProofs!Pending(r, op)
                 /\ Store!Unfinished(r, op) <=> StoreProofs!Unfinished(r, op)
  BY DEF Store!Pending, StoreProofs!Pending, Store!Unfinished, StoreProofs!Unfinished
<1>2. \A r, answer : Store!Respond(r, answer) <=> StoreProofs!Respond(r, answer)
  BY DEF Store!Respond, StoreProofs!Respond
<1>3. \A r, id, rec, type :
        Store!Journalled(r, id, rec, type) <=> StoreProofs!Journalled(r, id, rec, type)
  BY DEF Store!Journalled, StoreProofs!Journalled, Store!AuditOf, StoreProofs!AuditOf,
         Store!OutboxOf, StoreProofs!OutboxOf
<1>4. \A c : Store!KeyFree(c) <=> StoreProofs!KeyFree(c)
  BY SameDocuments DEF Store!KeyFree, StoreProofs!KeyFree
<1>5. Store!Init => StoreProofs!Init
  BY SameDocuments DEF Store!Init, StoreProofs!Init
<1>6. \A id, t, states : Store!CreateWorkflow(id, t, states) => StoreProofs!CreateWorkflow(id, t, states)
  BY SameDocuments DEF Store!CreateWorkflow, StoreProofs!CreateWorkflow
<1>7. \A r, c : Store!Receive(r, c) => StoreProofs!Receive(r, c)
  BY SameDocuments, <1>2 DEF Store!Receive, StoreProofs!Receive, Store!db, StoreProofs!db
<1>8. \A r, id : Store!Create(r, id) => StoreProofs!Create(r, id)
  BY SameDocuments, <1>1, <1>2, <1>3, <1>4 DEF Store!Create, StoreProofs!Create
<1>9. \A r : Store!Replay(r) => StoreProofs!Replay(r)
  BY SameDocuments, <1>1, <1>2 DEF Store!Replay, StoreProofs!Replay, Store!db, StoreProofs!db
<1>10. \A r : Store!Update(r) => StoreProofs!Update(r)
  BY SameDocuments, <1>1, <1>2, <1>3 DEF Store!Update, StoreProofs!Update
<1>11. \A r : Store!RefuseCreate(r) => StoreProofs!RefuseCreate(r)
  BY SameDocuments, <1>1, <1>2
  DEF Store!RefuseCreate, StoreProofs!RefuseCreate, Store!db, StoreProofs!db
<1>12. \A r : Store!RefuseUpdate(r) => StoreProofs!RefuseUpdate(r)
  BY SameDocuments, <1>1, <1>2
  DEF Store!RefuseUpdate, StoreProofs!RefuseUpdate, Store!db, StoreProofs!db
<1>13. \A r : Store!Fail(r) => StoreProofs!Fail(r)
  BY SameDocuments, <1>2 DEF Store!Fail, StoreProofs!Fail, Store!db, StoreProofs!db
<1> QED
  BY <1>5, <1>6, <1>7, <1>8, <1>9, <1>10, <1>11, <1>12, <1>13

\* The same types.
LEMMA SameTypes == Store!TypeOK <=> StoreProofs!TypeOK
<1>1. /\ Store!Workflows = StoreProofs!Workflows
      /\ Store!Records = StoreProofs!Records
      /\ Store!Slots = StoreProofs!Slots
      /\ Store!AuditEvents = StoreProofs!AuditEvents
      /\ Store!OutboxEvents = StoreProofs!OutboxEvents
      /\ Store!Replies = StoreProofs!Replies
  BY DEF Store!Workflows, StoreProofs!Workflows, Store!Records, StoreProofs!Records,
         Store!Slots, StoreProofs!Slots, Store!AuditEvents, StoreProofs!AuditEvents,
         Store!OutboxEvents, StoreProofs!OutboxEvents, Store!Replies, StoreProofs!Replies,
         Store!EventTypes, StoreProofs!EventTypes, Store!Statuses, StoreProofs!Statuses
<1>2. \A f, S, T : Store!IsMap(f, S, T) <=> StoreProofs!IsMap(f, S, T)
  BY DEF Store!IsMap, StoreProofs!IsMap
<1> QED
  BY <1>1, <1>2 DEF Store!TypeOK, StoreProofs!TypeOK

-----------------------------------------------------------------------------
(* The inductive invariant. *)

StoreInv == StoreProofs!Inv /\ StoreProofs!Told

\* What was checked when the request was let through, which stays true of it.
Admitted(q) ==
  /\ q \in HttpRequests
  /\ q.token \in issued
  /\ Permitted(q)
  /\ q.body # BadBody

\* A document of a tenant.
Own(id, t) ==
  IF id \in WorkflowIds THEN HasWorkflow(workflows, id, t) ELSE HasRecord(records, id, t)

\* A response, or code 0 for none yet, tells what the store answered, and shows
\* documents of the token's tenant.
Truthful(r, resp) ==
  LET q == http[r]
      t == http[r].token.tenantId
  IN /\ resp.code = 0 => Admitted(q)
     /\ resp.code \in {400, 401, 403} => call[r] = NoCall
     /\ resp.code = 404 => call[r] = NoCall \/ reply[r].status = "notFound"
     /\ resp.code = 409 => q.route = "updateRecord" /\ reply[r].status = "conflict"
     /\ resp.code # 0 => \A id \in resp.docs : Own(id, t)
     /\ resp.code \in {200, 201} /\ q.route = "getRecord" =>
          HasRecord(records, q.body.recordId, t)
     /\ resp.code \in {200, 201} /\ q.route = "updateRecord" =>
          reply[r].status = "updated" /\ resp.etag = reply[r].version

\* A request calls the store once at most, with what it was let through with.
Progress(r) ==
  /\ http[r] = NoRequest => call[r] = NoCall
  /\ http[r] # NoRequest => Truthful(r, response[r])
  /\ call[r] # NoCall => /\ http[r].route \in {"createRecord", "updateRecord"}
                         /\ call[r] = CallOf(http[r]) /\ Admitted(http[r])

IInv ==
  /\ StoreInv
  /\ TypeOK
  /\ \A r \in Requests : Progress(r)

-----------------------------------------------------------------------------
(* The steps of the store. *)

\* The store's invariants are kept by every step of the store.
LEMMA StoreStep ==
  ASSUME StoreInv, [StoreProofs!Next]_(StoreProofs!vars)
  PROVE  StoreInv' /\ StoreProofs!Kept
BY StoreAssumed, StoreProofs!InvStep, StoreProofs!ToldStep, StoreProofs!KeptStep DEF StoreInv

\* A step that leaves the store alone.
LEMMA StoreIdle ==
  ASSUME StoreInv, UNCHANGED storeVars
  PROVE  StoreInv' /\ StoreProofs!Kept
<1>1. UNCHANGED StoreProofs!vars
  BY DEF storeVars, StoreProofs!vars
<1> QED
  BY <1>1, StoreStep

\* What the API uses of the store's invariants.
LEMMA StoreFacts ==
  ASSUME StoreInv
  PROVE  /\ call \in [Requests -> Calls \cup {NoCall}]
         /\ \A r \in Requests :
              /\ reply[r].status = "none" <=> call[r] = NoCall
              /\ reply[r].recordId \in RecordIds \cup {NoRecord} /\ reply[r].version \in Nat
         /\ DOMAIN workflows \subseteq WorkflowIds /\ DOMAIN records \subseteq RecordIds
         /\ \A e \in audit : HasRecord(records, e.recordId, e.tenantId)
         /\ Store!TypeOK
<1>1. StoreProofs!TypeOK /\ StoreProofs!Arrived /\ StoreProofs!Journal
  BY DEF StoreInv, StoreProofs!Inv, StoreProofs!TypeInv
<1>2. reply \in [Requests -> StoreProofs!Replies]
  BY <1>1 DEF StoreProofs!TypeOK
<1>3. \A r \in Requests : reply[r].recordId \in RecordIds \cup {NoRecord} /\ reply[r].version \in Nat
  BY <1>2 DEF StoreProofs!Replies
<1>4. \A e \in audit : HasRecord(records, e.recordId, e.tenantId)
  BY <1>1 DEF StoreProofs!Journal, HasRecord
<1> QED
  BY <1>1, <1>3, <1>4, SameTypes DEF StoreProofs!TypeOK, StoreProofs!Arrived, StoreProofs!IsMap

\* What the answers of the store mean.
LEMMA AnswerFacts ==
  ASSUME StoreInv, NEW r \in Requests
  PROVE  /\ reply[r].status \in {"created", "replay"} =>
              call[r].op = "create" /\ HasRecord(records, reply[r].recordId, call[r].tenantId)
         /\ reply[r].status = "updated" =>
              /\ call[r].op = "update" /\ HasRecord(records, call[r].recordId, call[r].tenantId)
              /\ reply[r].recordId = call[r].recordId
              /\ reply[r].version = call[r].expectedVersion + 1 /\ call[r].expectedVersion > 0
              /\ \E e \in outbox : /\ e.by = r
                                   /\ e.aggregateId = reply[r].recordId
                                   /\ e.version = reply[r].version
         /\ reply[r].status = "conflict" =>
              call[r].op = "update" /\ HasRecord(records, call[r].recordId, call[r].tenantId)
         /\ reply[r].status \notin {"created", "updated", "error"} =>
              \A e \in outbox : e.by # r
<1>1. StoreProofs!Told /\ StoreProofs!AnswersTellTheTruth
  BY DEF StoreInv, StoreProofs!Inv
<1>2. \A recs, id, t : HasRecord(recs, id, t) <=> StoreProofs!HasRecord(recs, id, t)
  BY DEF HasRecord, StoreProofs!HasRecord
<1> QED
  BY <1>1, <1>2 DEF StoreProofs!Told, StoreProofs!AnswersTellTheTruth

\* What the outbox events show of the calls.
LEMMA EventFacts ==
  ASSUME StoreInv, NEW e \in outbox
  PROVE  /\ e.by \in Requests /\ call[e.by] # NoCall /\ call[e.by].tenantId = e.tenantId
         /\ call[e.by].op = IF e.type = "record.created" THEN "create" ELSE "update"
         /\ \A f \in outbox : e.aggregateId = f.aggregateId /\ e.version = f.version => e = f
<1>1. /\ StoreProofs!TypeOK /\ StoreProofs!NoLostUpdate /\ StoreProofs!Journal
      /\ StoreProofs!Told
  BY DEF StoreInv, StoreProofs!Inv, StoreProofs!TypeInv
<1>2. e \in StoreProofs!OutboxEvents
  BY <1>1 DEF StoreProofs!TypeOK
<1>3. e.by \in Requests /\ e.type \in {"record.created", "record.updated"}
  BY <1>2 DEF StoreProofs!OutboxEvents, StoreProofs!EventTypes
<1> QED
  BY <1>1, <1>3 DEF StoreProofs!NoLostUpdate, StoreProofs!Journal, StoreProofs!Told

\* What is known of a request stays so while it waits.
LEMMA ProgressKept ==
  ASSUME StoreInv, StoreProofs!Kept, NEW r \in Requests, Progress(r), issued \subseteq issued',
         http'[r] = http[r], response'[r] = response[r], call'[r] = call[r]
  PROVE  Progress(r)'
<1>1. \A id, t : /\ HasRecord(records, id, t) => HasRecord(records', id, t)
                 /\ HasWorkflow(workflows, id, t) => HasWorkflow(workflows', id, t)
  BY DEF StoreProofs!Kept, HasRecord, HasWorkflow
<1>2. \A id, t : Own(id, t) => Own(id, t)'
  BY <1>1 DEF Own
<1>3. \A q : Admitted(q) => Admitted(q)'
  BY DEF Admitted, Permitted
<1>4. reply[r].status \in {"notFound", "conflict", "updated"} => reply'[r] = reply[r]
  BY DEF StoreProofs!Kept
<1> QED
  BY <1>1, <1>2, <1>3, <1>4 DEF Progress, Truthful, CallOf, TenantOf, Expected

-----------------------------------------------------------------------------
(* The steps of the API. *)

\* The store starts empty, and no request has arrived.
LEMMA InitHolds == Init => IInv
<1> SUFFICES ASSUME Init PROVE IInv
  OBVIOUS
<1>1. StoreInv
  BY SameOperations, StoreAssumed, StoreProofs!InvInit, StoreProofs!ToldInit DEF Init, StoreInv
<1>2. \A r \in Requests : http[r] = NoRequest /\ response[r] = Plain(0) /\ call[r] = NoCall
  BY DEF Init, Store!Init
<1>3. Plain(0) \in Responses /\ Plain(0).code = 0
  BY DEF Plain, Responses
<1>4. TypeOK
  BY <1>1, <1>2, <1>3, StoreFacts, ApiAssumption DEF Init, TypeOK
<1>5. \A r \in Requests : Progress(r)
  BY <1>2, <1>3 DEF Progress
<1> QED
  BY <1>1, <1>4, <1>5 DEF IInv

\* What a request that is let through shows and asks for.
LEMMA AdmittedFields ==
  ASSUME issued \subseteq Tokens, NEW q, Admitted(q)
  PROVE  /\ q \in HttpRequests /\ q # NoRequest
         /\ q.token # NoToken /\ q.token \in Tokens
         /\ TenantOf(q) = q.token.tenantId /\ TenantOf(q) \in Tenants
         /\ q.route \in DOMAIN Allowed /\ q.body \in Bodies[q.route]
         /\ q.token.role \in Allowed[q.route]
         /\ q.route \in {"createRecord", "updateRecord"} => CallOf(q) \in Calls
<1>1. q \in HttpRequests /\ q.token # NoToken /\ q.token \in Tokens /\ q.body # BadBody
  BY ApiAssumption DEF Admitted, Permitted
<1>2. q.token.tenantId \in Tenants
  BY <1>1, ApiAssumption
<1>3. q.route \in DOMAIN Allowed /\ q.body \in Bodies[q.route] /\ q.token.role \in Allowed[q.route]
  BY <1>1, ApiAssumption DEF Admitted, Permitted
<1>4. q.route = "createRecord" => CallOf(q) \in Calls
  BY <1>1, CallsAssumption DEF CallOf, TenantOf
<1>5. ASSUME q.route = "updateRecord" PROVE CallOf(q) \in Calls
  <2>1. q.body.expectedVersion \in Nat
    BY <1>3, <1>5 DEF Bodies
  <2>2. Expected(q.body) \in {q.body.ifMatch, q.body.expectedVersion} \cap Nat
    BY <2>1 DEF Expected
  <2> QED
    BY <1>1, <1>5, <2>2, CallsAssumption DEF CallOf, TenantOf
<1> QED
  BY <1>1, <1>2, <1>3, <1>4, <1>5, ApiAssumption DEF Admitted, Permitted, TenantOf

\* The types of the store after a step.
LEMMA StoreTypes == StoreInv' => Store!TypeOK'
<1>1. StoreInv => Store!TypeOK
  BY StoreFacts
<1> QED
  BY <1>1, PTL

\* A request is answered, and with the truth.
LEMMA AnswerKeeps ==
  ASSUME IInv, StoreInv', StoreProofs!Kept, UNCHANGED <<call, now, issued, http>>,
         NEW r \in Requests, http[r] # NoRequest, NEW resp \in Responses,
         Respond(r, resp), Truthful(r, resp)'
  PROVE  IInv'
<1>1. response' \in [Requests -> Responses] /\ response'[r] = resp
      /\ \A s \in Requests : s # r => response'[s] = response[s]
  BY DEF IInv, TypeOK, Respond
<1>2. TypeOK'
  BY <1>1, StoreTypes DEF IInv, TypeOK
<1>3. Progress(r)'
  <2>1. http'[r] # NoRequest => Truthful(r, response[r])'
    BY <1>1 DEF Truthful
  <2>2. Progress(r) /\ \A q : Admitted(q) => Admitted(q)'
    BY DEF IInv, Admitted, Permitted
  <2> QED
    BY <2>1, <2>2 DEF Progress, CallOf, TenantOf, Expected
<1>4. \A s \in Requests : s # r => Progress(s)'
  BY <1>1, ProgressKept DEF IInv
<1> QED
  BY <1>2, <1>3, <1>4 DEF IInv

\* The same when the store is left alone: the truth need not be looked up again.
LEMMA QuietAnswerKeeps ==
  ASSUME IInv, UNCHANGED <<storeVars, now, issued, http>>,
         NEW r \in Requests, http[r] # NoRequest, NEW resp \in Responses,
         Respond(r, resp), Truthful(r, resp)
  PROVE  IInv'
<1>1. StoreInv' /\ StoreProofs!Kept
  BY StoreIdle DEF IInv
<1>2. Truthful(r, resp)'
  BY DEF storeVars, Truthful, Own, Admitted, Permitted
<1> QED
  BY <1>1, <1>2, AnswerKeeps DEF storeVars

\* A plain refusal is a response, and shows nothing.
LEMMA PlainFields ==
  ASSUME NEW code \in Codes
  PROVE  Plain(code) \in Responses /\ Plain(code).code = code /\ Plain(code).docs = {}
BY DEF Plain, Responses, Codes

\* A step of the store that does not concern the requests themselves.
LEMMA StoreStepKeeps ==
  ASSUME IInv, [StoreProofs!Next]_(StoreProofs!vars),
         UNCHANGED <<call, http, response>>,
         issued \subseteq issued', issued' \subseteq Tokens, now' \in 0..MaxTime
  PROVE  IInv'
<1>1. StoreInv' /\ StoreProofs!Kept
  BY StoreStep DEF IInv
<1>2. TypeOK'
  BY <1>1, StoreTypes DEF IInv, TypeOK
<1>3. \A r \in Requests : Progress(r)'
  BY <1>1, ProgressKept DEF IInv
<1> QED
  BY <1>1, <1>2, <1>3 DEF IInv

\* A request that is refused has not called the store, and one that is let through
\* calls it with what it brings.
LEMMA ArriveKeeps ==
  ASSUME IInv, NEW r \in Requests, NEW q \in HttpRequests, Arrive(r, q)
  PROVE  IInv'
<1>1. /\ TypeOK /\ StoreInv /\ http[r] = NoRequest /\ call[r] = NoCall
      /\ response[r].code = 0 /\ response[r] \in Responses
      /\ UNCHANGED <<now, issued>>
      /\ q # NoRequest
  BY ApiAssumption DEF IInv, TypeOK, Progress, Arrive
<1>2. /\ http' \in [Requests -> HttpRequests \cup {NoRequest}] /\ http'[r] = q
      /\ \A s \in Requests : s # r => http'[s] = http[s]
  BY <1>1 DEF Arrive, TypeOK
<1>3. CASE Refusal(q) # 0
  <2>1. Respond(r, Plain(Refusal(q))) /\ UNCHANGED storeVars
    BY <1>3 DEF Arrive
  <2>2. StoreInv' /\ StoreProofs!Kept
    BY <1>1, <2>1, StoreIdle
  <2>3. Refusal(q) \in {400, 401, 403}
    BY <1>3 DEF Refusal
  <2>4. /\ Plain(Refusal(q)) \in Responses /\ Plain(Refusal(q)).code \in {400, 401, 403}
        /\ Plain(Refusal(q)).docs = {}
    BY <2>3, PlainFields DEF Codes
  <2>5. /\ response' \in [Requests -> Responses] /\ response'[r] = Plain(Refusal(q))
        /\ \A s \in Requests : s # r => response'[s] = response[s]
    BY <1>1, <2>1, <2>4 DEF Respond, TypeOK
  <2>6. TypeOK'
    BY <1>1, <1>2, <2>2, <2>5, StoreTypes DEF TypeOK
  <2>7. Progress(r)'
    BY <1>1, <1>2, <2>1, <2>4, <2>5 DEF Progress, Truthful, storeVars
  <2>8. \A s \in Requests : s # r => Progress(s)'
    BY <1>1, <1>2, <2>1, <2>2, <2>5, ProgressKept DEF IInv, storeVars
  <2> QED
    BY <2>2, <2>6, <2>7, <2>8 DEF IInv
<1>4. CASE Refusal(q) = 0
  <2>1. Admitted(q) /\ Admitted(q)'
    BY <1>1, <1>4 DEF Refusal, Authenticated, Valid, Admitted, Permitted
  <2>2. UNCHANGED response
    BY <1>4 DEF Arrive
  <2>3. CASE q.route \in {"createRecord", "updateRecord"}
    <3>1. Store!Receive(r, CallOf(q)) /\ CallOf(q) \in Calls
      BY <1>1, <1>4, <2>1, <2>3, AdmittedFields DEF Arrive, TypeOK
    <3>2. [StoreProofs!Next]_(StoreProofs!vars)
      BY <3>1, SameOperations DEF StoreProofs!Next
    <3>3. StoreInv' /\ StoreProofs!Kept
      BY <1>1, <3>2, StoreStep
    <3>4. call'[r] = CallOf(q) /\ \A s \in Requests : s # r => call'[s] = call[s]
      BY <1>1, <3>1, StoreFacts DEF Store!Receive
    <3>5. TypeOK'
      BY <1>1, <1>2, <2>2, <3>3, StoreTypes DEF TypeOK
    <3>6. Progress(r)'
      BY <1>1, <1>2, <2>1, <2>2, <2>3, <3>4 DEF Progress, Truthful, CallOf, TenantOf, Expected
    <3>7. \A s \in Requests : s # r => Progress(s)'
      BY <1>1, <1>2, <2>2, <3>3, <3>4, ProgressKept DEF IInv
    <3> QED
      BY <3>3, <3>5, <3>6, <3>7 DEF IInv
  <2>4. CASE q.route \notin {"createRecord", "updateRecord"}
    <3>1. UNCHANGED storeVars
      BY <1>4, <2>4 DEF Arrive
    <3>2. StoreInv' /\ StoreProofs!Kept
      BY <1>1, <3>1, StoreIdle
    <3>3. TypeOK'
      BY <1>1, <1>2, <2>2, <3>2, StoreTypes DEF TypeOK
    <3>4. Progress(r)'
      BY <1>1, <1>2, <2>1, <2>2, <3>1 DEF Progress, Truthful, storeVars
    <3>5. \A s \in Requests : s # r => Progress(s)'
      BY <1>1, <1>2, <2>2, <3>1, <3>2, ProgressKept DEF IInv, storeVars
    <3> QED
      BY <3>2, <3>3, <3>4, <3>5 DEF IInv
  <2> QED
    BY <2>3, <2>4
<1> QED
  BY <1>3, <1>4

\* The store serves a call, and says nothing to the client yet.
LEMMA ServeKeeps ==
  ASSUME IInv, NEW r \in Requests, Serve(r)
  PROVE  IInv'
<1>1. StoreProofs!Next
  BY SameOperations DEF Serve, StoreProofs!Next
<1>2. UNCHANGED call
  BY DEF Serve, Store!Create, Store!Replay, Store!Update, Store!RefuseCreate,
         Store!RefuseUpdate, Store!Fail
<1> QED
  BY <1>1, <1>2, StoreStepKeeps DEF Serve, IInv, TypeOK

\* What a handler knows of its request.
LEMMA HandlingFields ==
  ASSUME IInv, NEW r \in Requests, NEW route, Handling(r, route)
  PROVE  /\ http[r] # NoRequest /\ http[r].route = route
         /\ Admitted(http[r]) /\ issued \subseteq Tokens
         /\ call[r] # NoCall =>
              call[r] = CallOf(http[r]) /\ call[r].tenantId = http[r].token.tenantId
         /\ route \notin {"createRecord", "updateRecord"} => call[r] = NoCall
<1>1. Progress(r) /\ TypeOK
  BY DEF IInv
<1> QED
  BY <1>1 DEF Handling, Progress, Truthful, TypeOK, CallOf, TenantOf

\* The answer to a create shows the record of the caller's tenant that the store named.
LEMMA RecordCreatedKeeps ==
  ASSUME IInv, NEW r \in Requests, RecordCreated(r)
  PROVE  IInv'
<1>1. /\ http[r] # NoRequest /\ http[r].route = "createRecord" /\ StoreInv
      /\ UNCHANGED <<storeVars, now, issued, http>>
      /\ call[r] # NoCall => call[r].tenantId = http[r].token.tenantId
  BY HandlingFields DEF RecordCreated, IInv
<1>2. CASE reply[r].status \in {"created", "replay"}
  <2> DEFINE resp == [code |-> 201, docs |-> {reply[r].recordId},
                      replay |-> reply[r].status = "replay", etag |-> 0]
  <2>1. HasRecord(records, reply[r].recordId, http[r].token.tenantId)
    BY <1>1, <1>2, AnswerFacts, StoreFacts
  <2>2. reply[r].recordId \in RecordIds /\ reply[r].recordId \notin WorkflowIds
    BY <1>1, <2>1, StoreFacts, ApiAssumption DEF HasRecord
  <2>3. /\ resp \in Responses /\ resp.code = 201
        /\ \A id \in resp.docs : Own(id, http[r].token.tenantId)
    BY <2>1, <2>2 DEF Responses, Codes, Own
  <2>4. Respond(r, resp)
    BY <1>2 DEF RecordCreated
  <2> HIDE DEF resp
  <2>5. Truthful(r, resp)
    BY <1>1, <2>3 DEF Truthful
  <2> QED
    BY <1>1, <2>3, <2>4, <2>5, QuietAnswerKeeps
<1>3. CASE reply[r].status \notin {"created", "replay"}
  <2>1. Respond(r, Plain(422))
    BY <1>3 DEF RecordCreated
  <2>2. Plain(422) \in Responses /\ Plain(422).code = 422 /\ Plain(422).docs = {}
    BY PlainFields DEF Codes
  <2>3. Truthful(r, Plain(422))
    BY <2>2 DEF Truthful
  <2> QED
    BY <1>1, <2>1, <2>2, <2>3, QuietAnswerKeeps
<1> QED
  BY <1>2, <1>3

\* The answer to an update tells what became of the record it was for.
LEMMA RecordUpdatedKeeps ==
  ASSUME IInv, NEW r \in Requests, RecordUpdated(r)
  PROVE  IInv'
<1>1. /\ http[r] # NoRequest /\ http[r].route = "updateRecord" /\ StoreInv
      /\ UNCHANGED <<storeVars, now, issued, http>>
      /\ call[r] # NoCall => call[r].tenantId = http[r].token.tenantId
  BY HandlingFields DEF RecordUpdated, IInv
<1>2. CASE reply[r].status = "updated"
  <2> DEFINE resp == [code |-> 200, docs |-> {reply[r].recordId},
                      replay |-> FALSE, etag |-> reply[r].version]
  <2>1. HasRecord(records, reply[r].recordId, http[r].token.tenantId)
    BY <1>1, <1>2, AnswerFacts, StoreFacts
  <2>2. /\ reply[r].recordId \in RecordIds /\ reply[r].recordId \notin WorkflowIds
        /\ reply[r].version \in Nat
    BY <1>1, <2>1, StoreFacts, ApiAssumption DEF HasRecord
  <2>3. /\ resp \in Responses /\ resp.code = 200 /\ resp.etag = reply[r].version
        /\ \A id \in resp.docs : Own(id, http[r].token.tenantId)
    BY <2>1, <2>2 DEF Responses, Codes, Own
  <2>4. Respond(r, resp)
    BY <1>2 DEF RecordUpdated
  <2> HIDE DEF resp
  <2>5. Truthful(r, resp)
    BY <1>1, <1>2, <2>3 DEF Truthful
  <2> QED
    BY <1>1, <2>3, <2>4, <2>5, QuietAnswerKeeps
<1>3. CASE reply[r].status # "updated"
  <2>1. PICK code : code = CodeOf(reply[r].status)
    OBVIOUS
  <2>2. /\ code \in {404, 409, 422}
        /\ code = 404 => reply[r].status = "notFound"
        /\ code = 409 => reply[r].status = "conflict"
    BY <2>1 DEF CodeOf
  <2>3. Plain(code) \in Responses /\ Plain(code).code = code /\ Plain(code).docs = {}
    BY <2>2, PlainFields DEF Codes
  <2>4. Respond(r, Plain(code))
    BY <1>3, <2>1 DEF RecordUpdated
  <2>5. Truthful(r, Plain(code))
    BY <1>1, <2>2, <2>3 DEF Truthful
  <2> QED
    BY <1>1, <2>3, <2>4, <2>5, QuietAnswerKeeps
<1> QED
  BY <1>2, <1>3

\* A new workflow belongs to the tenant of its creator, also when the answer is lost.
LEMMA CreateWorkflowKeeps ==
  ASSUME IInv, NEW r \in Requests, NEW id \in WorkflowIds, CreateWorkflow(r, id)
  PROVE  IInv'
<1>1. /\ http[r] # NoRequest /\ http[r].route = "createWorkflow" /\ Admitted(http[r])
      /\ issued \subseteq Tokens /\ UNCHANGED <<now, issued, http>>
  BY HandlingFields DEF CreateWorkflow
<1>2. Plain(422) \in Responses /\ Plain(422).code = 422 /\ Plain(422).docs = {}
  BY PlainFields DEF Codes
<1>3. CASE Store!CreateWorkflow(id, TenantOf(http[r]), http[r].body.states)
  <2>1. TenantOf(http[r]) \in Tenants /\ http[r].body.states \in StateLists
        /\ TenantOf(http[r]) = http[r].token.tenantId
    <3>1. TenantOf(http[r]) \in Tenants /\ TenantOf(http[r]) = http[r].token.tenantId
          /\ http[r].body \in Bodies[http[r].route]
      BY <1>1, AdmittedFields
    <3>2. Bodies["createWorkflow"] = [states: StateLists]
      BY DEF Bodies
    <3> QED
      BY <1>1, <3>1, <3>2
  <2>2. StoreProofs!Next
    BY <1>3, <2>1, SameOperations DEF StoreProofs!Next
  <2>3. StoreInv' /\ StoreProofs!Kept
    BY <2>2, StoreStep DEF IInv
  <2>4. UNCHANGED call /\ HasWorkflow(workflows', id, http[r].token.tenantId)
    BY <1>3, <2>1 DEF Store!CreateWorkflow, Store!Put, HasWorkflow
  <2>5. PICK resp \in Responses :
          /\ Respond(r, resp)
          /\ \/ resp.code = 422 /\ resp.docs = {}
             \/ resp.code = 201 /\ resp.docs = {id}
    <3>1. [code |-> 201, docs |-> {id}, replay |-> FALSE, etag |-> 0] \in Responses
      BY DEF Responses, Codes
    <3>2. \/ Respond(r, Plain(422))
          \/ Respond(r, [code |-> 201, docs |-> {id}, replay |-> FALSE, etag |-> 0])
      BY DEF CreateWorkflow
    <3> QED
      BY <1>2, <3>1, <3>2
  <2>6. Truthful(r, resp)'
    BY <1>1, <2>4, <2>5 DEF Truthful, Own
  <2> QED
    BY <1>1, <2>3, <2>4, <2>5, <2>6, AnswerKeeps
<1>4. CASE ~Store!CreateWorkflow(id, TenantOf(http[r]), http[r].body.states)
  <2>1. Respond(r, Plain(422)) /\ UNCHANGED storeVars
    BY <1>4 DEF CreateWorkflow
  <2>2. Truthful(r, Plain(422))
    BY <1>2 DEF Truthful
  <2> QED
    BY <1>1, <1>2, <2>1, <2>2, QuietAnswerKeeps
<1> QED
  BY <1>3, <1>4

\* A list shows documents of the caller's tenant, or nothing.
LEMMA ListKeeps ==
  ASSUME IInv, NEW r \in Requests, ListWorkflows(r) \/ ListRecords(r) \/ ListAudit(r)
  PROVE  IInv'
<1>1. /\ http[r] # NoRequest /\ http[r].route \in {"listWorkflows", "listRecords", "listAudit"}
      /\ TenantOf(http[r]) = http[r].token.tenantId
      /\ UNCHANGED <<storeVars, now, issued, http>>
  BY HandlingFields, AdmittedFields DEF ListWorkflows, ListRecords, ListAudit, AnswerList
<1>2. PICK docs : /\ Respond(r, Found(docs)) \/ Respond(r, Plain(500))
                  /\ docs \in {WorkflowsOf(TenantOf(http[r])), AuditedOf(TenantOf(http[r])),
                               RecordsOf(TenantOf(http[r]), http[r].body.state)}
  BY DEF ListWorkflows, ListRecords, ListAudit, AnswerList
<1>3. /\ docs \subseteq WorkflowIds \cup RecordIds
      /\ \A id \in docs : Own(id, http[r].token.tenantId)
  <2>1. StoreInv
    BY DEF IInv
  <2>2. \A id \in WorkflowsOf(http[r].token.tenantId) :
          id \in WorkflowIds /\ HasWorkflow(workflows, id, http[r].token.tenantId)
    BY <2>1, StoreFacts DEF WorkflowsOf, HasWorkflow
  <2>3. \A id \in RecordsOf(http[r].token.tenantId, http[r].body.state) :
          id \in RecordIds /\ HasRecord(records, id, http[r].token.tenantId)
    BY <2>1, StoreFacts DEF RecordsOf, HasRecord
  <2>4. \A id \in AuditedOf(http[r].token.tenantId) :
          HasRecord(records, id, http[r].token.tenantId)
    BY <2>1, StoreFacts DEF AuditedOf
  <2>5. \A id, t : HasRecord(records, id, t) => id \in RecordIds /\ id \notin WorkflowIds
    BY <2>1, StoreFacts, ApiAssumption DEF HasRecord
  <2> QED
    BY <1>1, <1>2, <2>2, <2>3, <2>4, <2>5 DEF Own
<1>4. PICK resp \in Responses :
        /\ Respond(r, resp)
        /\ \/ resp.code = 500 /\ resp.docs = {}
           \/ resp.code = 200 /\ resp.docs = docs
  <2>1. Plain(500) \in Responses /\ Plain(500).code = 500 /\ Plain(500).docs = {}
    BY PlainFields DEF Codes
  <2>2. Found(docs) \in Responses /\ Found(docs).code = 200 /\ Found(docs).docs = docs
    BY <1>3 DEF Found, Responses, Codes
  <2> QED
    BY <1>2, <2>1, <2>2
<1>5. Truthful(r, resp)
  BY <1>1, <1>3, <1>4 DEF Truthful
<1> QED
  BY <1>1, <1>4, <1>5, QuietAnswerKeeps

\* A record is shown to its tenant; to everyone else it might as well not be there.
LEMMA GetRecordKeeps ==
  ASSUME IInv, NEW r \in Requests, GetRecord(r)
  PROVE  IInv'
<1>1. /\ http[r] # NoRequest /\ http[r].route = "getRecord" /\ call[r] = NoCall
      /\ TenantOf(http[r]) = http[r].token.tenantId
      /\ UNCHANGED <<storeVars, now, issued, http>>
  BY HandlingFields, AdmittedFields DEF GetRecord
<1>2. CASE /\ HasRecord(records, http[r].body.recordId, TenantOf(http[r]))
           /\ Respond(r, Found({http[r].body.recordId}))
  <2>1. PICK id : id = http[r].body.recordId
    OBVIOUS
  <2>2. HasRecord(records, id, http[r].token.tenantId)
    BY <1>1, <1>2, <2>1
  <2>3. id \in RecordIds /\ id \notin WorkflowIds
    BY <2>2, StoreFacts, ApiAssumption DEF HasRecord, IInv
  <2>4. Found({id}) \in Responses /\ Found({id}).code = 200 /\ Found({id}).docs = {id}
    BY <2>3 DEF Found, Responses, Codes
  <2>5. Truthful(r, Found({id}))
    BY <1>1, <2>1, <2>2, <2>3, <2>4 DEF Truthful, Own
  <2> QED
    BY <1>1, <1>2, <2>1, <2>4, <2>5, QuietAnswerKeeps
<1>3. CASE Respond(r, Plain(404))
  <2>1. Plain(404) \in Responses /\ Plain(404).code = 404 /\ Plain(404).docs = {}
    BY PlainFields DEF Codes
  <2>2. Truthful(r, Plain(404))
    BY <1>1, <2>1 DEF Truthful
  <2> QED
    BY <1>1, <1>3, <2>1, <2>2, QuietAnswerKeeps
<1> QED
  BY <1>2, <1>3 DEF GetRecord

\* Workflows of earlier processes, tokens and time change no request.
LEMMA OthersKeep ==
  ASSUME IInv, EarlierWorkflow \/ Tick \/ (\E claims \in Tokens : Issue(claims)) \/ UNCHANGED vars
  PROVE  IInv'
<1>1. issued \subseteq Tokens /\ now \in 0..MaxTime
  BY DEF IInv, TypeOK
<1>2. CASE EarlierWorkflow
  <2>1. StoreProofs!Next
    BY <1>2, SameOperations DEF EarlierWorkflow, StoreProofs!Next
  <2>2. UNCHANGED call
    BY <1>2 DEF EarlierWorkflow, Store!CreateWorkflow
  <2> QED
    BY <1>1, <1>2, <2>1, <2>2, StoreStepKeeps DEF EarlierWorkflow
<1>3. CASE Tick \/ (\E claims \in Tokens : Issue(claims)) \/ UNCHANGED vars
  <2>1. /\ UNCHANGED <<storeVars, http, response>>
        /\ issued \subseteq issued' /\ issued' \subseteq Tokens
    BY <1>1, <1>3 DEF Tick, Issue, vars, storeVars
  <2>2. now' \in 0..MaxTime
    BY <1>1, <1>3, ApiAssumption DEF Tick, Issue, vars
  <2>3. UNCHANGED StoreProofs!vars /\ UNCHANGED call
    BY <2>1 DEF storeVars, StoreProofs!vars
  <2> QED
    BY <2>1, <2>2, <2>3, StoreStepKeeps
<1> QED
  BY <1>2, <1>3

\* Every step of the API keeps the invariant.
LEMMA NextKeeps == IInv /\ [Next]_vars => IInv'
BY ArriveKeeps, ServeKeeps, RecordCreatedKeeps, RecordUpdatedKeeps, CreateWorkflowKeeps,
   ListKeeps, GetRecordKeeps, OthersKeep DEF Next

\* The invariant holds of every behaviour.
LEMMA Invariance == Spec => []IInv
BY InitHolds, NextKeeps, PTL DEF Spec

-----------------------------------------------------------------------------
(* The promises. *)

\* Every reachable state has its types, below and above the store.
THEOREM TypeCorrect == Spec => []TypeOK
BY Invariance, PTL DEF IInv

\* No response shows a document of another tenant, nor that there is one: the
\* documents in it, and the record it calls up to date or in conflict, are of the
\* tenant in the signed token.
THEOREM TenantsAreIsolated == Spec => []TenantIsolation
<1>1. IInv => TenantIsolation
  <2> SUFFICES ASSUME IInv, NEW r \in Requests, response[r].code \in {200, 201, 409}
               PROVE  LET t == http[r].token.tenantId IN
                      /\ \A id \in response[r].docs :
                           IF id \in WorkflowIds THEN workflows[id].tenantId = t
                                                 ELSE records[id].tenantId = t
                      /\ http[r].route \in {"updateRecord", "getRecord"} =>
                           LET id == http[r].body.recordId
                           IN id \in DOMAIN records /\ records[id].tenantId = t
    BY DEF TenantIsolation
  <2> DEFINE t == http[r].token.tenantId
  <2>1. Progress(r) /\ StoreInv /\ http[r] # NoRequest
    BY DEF IInv, TypeOK
  <2>2. Truthful(r, response[r])
    BY <2>1 DEF Progress
  <2>3. ASSUME NEW id \in response[r].docs
        PROVE  Own(id, t)
    BY <2>2, <2>3 DEF Truthful
  <2>4. CASE http[r].route = "getRecord"
    BY <2>2, <2>3, <2>4 DEF Truthful, Own, HasRecord, HasWorkflow
  <2>5. CASE http[r].route = "updateRecord"
    <3>1. reply[r].status \in {"updated", "conflict"}
      BY <2>2, <2>5 DEF Truthful
    <3>2. call[r] # NoCall /\ call[r] = CallOf(http[r])
      BY <2>1, <3>1, StoreFacts DEF Progress
    <3>3. HasRecord(records, call[r].recordId, call[r].tenantId)
      BY <2>1, <3>1, AnswerFacts
    <3>4. call[r].recordId = http[r].body.recordId /\ call[r].tenantId = t
      BY <2>5, <3>2 DEF CallOf, TenantOf
    <3> QED
      BY <2>3, <3>3, <3>4 DEF Own, HasRecord, HasWorkflow
  <2> QED
    BY <2>3, <2>4, <2>5 DEF Own, HasRecord, HasWorkflow
<1> QED
  BY <1>1, Invariance, PTL

\* Every change, also one that comes after its request was answered with an error,
\* goes back to a request with a signed token of the record's tenant and one of the
\* route's roles.
THEOREM ChangesAlwaysAuthorized == Spec => []ChangesAreAuthorized
<1>1. IInv => ChangesAreAuthorized
  <2> SUFFICES ASSUME IInv, NEW e \in outbox
               PROVE  LET q == http[e.by] IN
                      /\ q.token \in issued
                      /\ q.token.tenantId = e.tenantId
                      /\ q.tenant \in {NoTenant, e.tenantId}
                      /\ q.token.role \in IF e.type = "record.created"
                                          THEN {"admin", "builder", "requester"}
                                          ELSE {"admin", "approver"}
    BY DEF ChangesAreAuthorized
  <2> DEFINE q == http[e.by]
  <2>1. /\ e.by \in Requests /\ call[e.by] # NoCall /\ call[e.by].tenantId = e.tenantId
        /\ call[e.by].op = IF e.type = "record.created" THEN "create" ELSE "update"
    BY EventFacts DEF IInv
  <2>2. /\ q.route \in {"createRecord", "updateRecord"}
        /\ call[e.by] = CallOf(q) /\ Admitted(q)
    BY <2>1 DEF IInv, Progress
  <2>3. call[e.by].tenantId = q.token.tenantId
    BY <2>2 DEF CallOf, TenantOf
  <2>4. q.route = IF e.type = "record.created" THEN "createRecord" ELSE "updateRecord"
    BY <2>1, <2>2 DEF CallOf
  <2> QED
    BY <2>1, <2>2, <2>3, <2>4 DEF Admitted, Permitted, Allowed
<1> QED
  BY <1>1, Invariance, PTL

\* A client that is refused for any reason but a 422 or a 500 may rely on its
\* request having no effect, now or later.
THEOREM RefusalsNeverHaveEffect == Spec => []RefusalsHaveNoEffect
<1>1. IInv => RefusalsHaveNoEffect
  <2> SUFFICES ASSUME IInv, NEW r \in Requests,
                      response[r].code \in {400, 401, 403, 404, 409}, NEW e \in outbox
               PROVE  e.by # r
    BY DEF RefusalsHaveNoEffect
  <2>1. Truthful(r, response[r]) /\ StoreInv
    BY DEF IInv, TypeOK, Progress
  <2>2. call[r] = NoCall \/ reply[r].status \in {"notFound", "conflict"}
    BY <2>1 DEF Truthful
  <2>3. CASE call[r] = NoCall
    BY <2>1, <2>3, EventFacts
  <2>4. CASE reply[r].status \in {"notFound", "conflict"}
    BY <2>1, <2>4, AnswerFacts
  <2> QED
    BY <2>2, <2>3, <2>4
<1> QED
  BY <1>1, Invariance, PTL

\* A client that is told its update was made has replaced the very version it had
\* named, and no other client is told of the same version.
THEOREM NeverSilentlyOverwritten == Spec => []NoSilentOverwrite
<1>1. IInv => NoSilentOverwrite
  <2> SUFFICES ASSUME IInv, NEW r \in Requests,
                      response[r].code = 200, http[r].route = "updateRecord"
               PROVE  LET b == http[r].body IN
                      /\ response[r].etag - 1 = IF b.ifMatch \in {NoHeader, Unreadable}
                                                THEN b.expectedVersion ELSE b.ifMatch
                      /\ response[r].etag > 1
                      /\ \A s \in Requests \ {r} :
                           /\ response[s].code = 200
                           /\ http[s].route = "updateRecord"
                           /\ http[s].body.recordId = b.recordId
                           => response[s].etag # response[r].etag
    BY DEF NoSilentOverwrite
  <2>1. ASSUME NEW s \in Requests, response[s].code = 200, http[s].route = "updateRecord"
        PROVE  /\ Admitted(http[s])
               /\ response[s].etag = Expected(http[s].body) + 1
               /\ Expected(http[s].body) > 0
               /\ \E e \in outbox : /\ e.by = s
                                    /\ e.aggregateId = http[s].body.recordId
                                    /\ e.version = response[s].etag
    <3>1. Progress(s) /\ StoreInv /\ http[s] # NoRequest
      BY <2>1 DEF IInv, TypeOK
    <3>2. reply[s].status = "updated" /\ response[s].etag = reply[s].version
      BY <2>1, <3>1 DEF Progress, Truthful
    <3>3. call[s] = CallOf(http[s]) /\ Admitted(http[s])
      BY <3>1, <3>2, StoreFacts DEF Progress
    <3>4. /\ call[s].recordId = http[s].body.recordId
          /\ call[s].expectedVersion = Expected(http[s].body)
      BY <2>1, <3>3 DEF CallOf
    <3> QED
      BY <3>1, <3>2, <3>3, <3>4, AnswerFacts
  <2>2. PICK b : b = http[r].body
    OBVIOUS
  <2>3. /\ b.ifMatch \in Nat \cup {NoHeader, Unreadable}
        /\ b.expectedVersion \in Nat
    <3>1. http[r].body \in Bodies[http[r].route]
      BY <2>1, AdmittedFields DEF IInv, TypeOK
    <3>2. Bodies["updateRecord"] =
            [recordId: RecordIds, state: States \cup {NoState},
             expectedVersion: Nat, ifMatch: Nat \cup {NoHeader, Unreadable}]
      BY DEF Bodies
    <3> QED
      BY <2>2, <3>1, <3>2
  <2>4. /\ Expected(b) = IF b.ifMatch \in {NoHeader, Unreadable}
                         THEN b.expectedVersion ELSE b.ifMatch
        /\ Expected(b) \in Nat
    BY <2>3, ApiAssumption DEF Expected
  <2>5. response[r].etag = Expected(b) + 1 /\ Expected(b) > 0
    BY <2>1, <2>2
  <2>6. ASSUME NEW s \in Requests \ {r}, response[s].code = 200,
               http[s].route = "updateRecord", http[s].body.recordId = b.recordId,
               response[s].etag = response[r].etag
        PROVE  FALSE
    <3>1. PICK e \in outbox : /\ e.by = r /\ e.aggregateId = b.recordId
                              /\ e.version = response[r].etag
      BY <2>1, <2>2
    <3>2. PICK f \in outbox : /\ f.by = s /\ f.aggregateId = b.recordId
                              /\ f.version = response[r].etag
      BY <2>1, <2>6
    <3>3. e = f
      BY <3>1, <3>2, EventFacts DEF IInv
    <3> QED
      BY <2>6, <3>1, <3>2, <3>3
  <2>7. PICK n \in Nat : n = Expected(b)
    BY <2>4
  <2>8. response[r].etag = n + 1 /\ n > 0
    BY <2>5, <2>7
  <2> QED
    BY <2>2, <2>4, <2>6, <2>7, <2>8
<1> QED
  BY <1>1, Invariance, PTL
=============================================================================
