----------------------------- MODULE RecordStore -----------------------------
(***************************************************************************)
(* What the Store interface promises to the handlers above it: each        *)
(* operation takes effect at one instant between its call and its answer,  *)
(* together with its audit event and its outbox event, or not at all.      *)
(* When Faults holds, an operation may be answered with an error, which    *)
(* says nothing: it may have taken effect, may still do so later, once, or *)
(* never.                                                                  *)
(***************************************************************************)
EXTENDS Domain

CONSTANT Faults

ASSUME FaultsAssumption == Faults \in BOOLEAN

VARIABLES
  workflows,    \* workflow id -> definition
  records,      \* record id -> record
  idempotency,  \* <<tenant, key>> -> id of the record created under it
  audit,        \* audit events
  outbox,       \* outbox events
  call,         \* request -> what it asks for
  reply         \* request -> its answer

db == <<workflows, records, idempotency, audit, outbox>>
vars == <<workflows, records, idempotency, audit, outbox, call, reply>>

TypeOK ==
  /\ IsMap(workflows, WorkflowIds, Workflows)
  /\ IsMap(records, RecordIds, Records)
  /\ IsMap(idempotency, Slots, RecordIds)
  /\ audit \subseteq AuditEvents
  /\ outbox \subseteq OutboxEvents
  /\ call \in [Requests -> Calls \cup {NoCall}]
  /\ reply \in [Requests -> Replies]

Init ==
  /\ workflows = EmptyMap
  /\ records = EmptyMap
  /\ idempotency = EmptyMap
  /\ audit = {}
  /\ outbox = {}
  /\ call = [r \in Requests |-> NoCall]
  /\ reply = [r \in Requests |-> Answer("none")]

-----------------------------------------------------------------------------

Pending(r, op) == reply[r].status = "pending" /\ call[r].op = op

\* Mutant: a request that was carried out but answered with an error is carried
\* out again.
UnfinishedOrRetried(r, op) ==
  /\ \/ reply[r].status = "pending"
     \/ Faults /\ reply[r].status = "error"
  /\ call[r].op = op

\* The request can still take effect: it is pending, or it was answered with an
\* error while the database was at work on it.
Unfinished(r, op) ==
  /\ \/ reply[r].status = "pending"
     \/ Faults /\ reply[r].status = "error" /\ \A e \in outbox : e.by # r
  /\ call[r].op = op

Respond(r, answer) == reply' = [reply EXCEPT ![r] = answer]

\* Mutant: the outbox event is forgotten.
JournalledWithoutOutbox(r, id, rec, type) ==
  /\ audit' = audit \cup {AuditOf(id, rec, type)}
  /\ UNCHANGED outbox

\* The events written with the new version of a record.
Journalled(r, id, rec, type) ==
  /\ audit' = audit \cup {AuditOf(id, rec, type)}
  /\ outbox' = outbox \cup {OutboxOf(r, id, rec, type)}

CreateWorkflow(id, t, states) ==
  /\ id \notin DOMAIN workflows
  /\ Len(states) > 0
  /\ workflows' = Put(workflows, id, [tenantId |-> t, states |-> states])
  /\ UNCHANGED <<records, idempotency, audit, outbox, call, reply>>

Receive(r, c) ==
  /\ reply[r].status = "none"
  /\ call' = [call EXCEPT ![r] = c]
  /\ Respond(r, Answer("pending"))
  /\ UNCHANGED db

\* Mutant: the key is not looked up.
KeyNotLookedUp(c) == TRUE

KeyFree(c) == Slot(c) \notin DOMAIN idempotency

\* A create that finds its idempotency key free, or sends none.
Create(r, id) ==
  LET c   == call[r]
      rec == NewRecord(c, workflows[c.workflowId])
  IN /\ Unfinished(r, "create")
     /\ HasWorkflow(workflows, c.workflowId, c.tenantId)
     /\ id \notin DOMAIN records
     /\ KeyFree(c)
     /\ records' = Put(records, id, rec)
     /\ idempotency' = IF c.key = NoKey THEN idempotency
                       ELSE Put(idempotency, Slot(c), id)
     /\ Journalled(r, id, rec, "record.created")
     /\ \/ Pending(r, "create") /\ Respond(r, AnswerWith("created", id, rec))
        \/ Faults /\ Respond(r, Answer("error"))
     /\ UNCHANGED <<workflows, call>>

\* A create whose key was used before returns the record as it is now.
Replay(r) ==
  LET slot == Slot(call[r])
  IN /\ Pending(r, "create")
     /\ slot \in DOMAIN idempotency
     /\ Respond(r, AnswerWith("replay", idempotency[slot], records[idempotency[slot]]))
     /\ UNCHANGED <<db, call>>

Update(r) ==
  LET c   == call[r]
      rec == Updated(records[c.recordId], c)
  IN /\ Unfinished(r, "update")
     /\ UpdateRefusal(c, workflows, records) = "none"
     /\ records' = Put(records, c.recordId, rec)
     /\ Journalled(r, c.recordId, rec, "record.updated")
     /\ \/ Pending(r, "update") /\ Respond(r, AnswerWith("updated", c.recordId, rec))
        \/ Faults /\ Respond(r, Answer("error"))
     /\ UNCHANGED <<workflows, idempotency, call>>

RefuseCreate(r) ==
  /\ Pending(r, "create")
  /\ ~HasWorkflow(workflows, call[r].workflowId, call[r].tenantId)
  /\ Respond(r, Answer("invalid"))
  /\ UNCHANGED <<db, call>>

RefuseUpdate(r) ==
  LET why == UpdateRefusal(call[r], workflows, records)
  IN /\ Pending(r, "update")
     /\ why # "none"
     /\ Respond(r, Answer(why))
     /\ UNCHANGED <<db, call>>

\* The database fails, or the request's time is up before it has taken effect.  A
\* failed read of the workflow is reported as an invalid workflow.
Fail(r) ==
  /\ Faults
  /\ reply[r].status = "pending"
  /\ \E status \in {"error", "invalid"} : Respond(r, Answer(status))
  /\ UNCHANGED <<db, call>>

Next ==
  \/ \E id \in WorkflowIds, t \in Tenants, states \in StateLists :
       CreateWorkflow(id, t, states)
  \/ \E r \in Requests :
       \/ \E c \in Calls : Receive(r, c)
       \/ \E id \in RecordIds : Create(r, id)
       \/ Replay(r)
       \/ Update(r)
       \/ RefuseCreate(r)
       \/ RefuseUpdate(r)
       \/ Fail(r)

Spec == Init /\ [][Next]_vars

-----------------------------------------------------------------------------
(* Safety. *)

\* Every version a record has gone through is announced by exactly one outbox
\* event, written by nobody but the request that made that version, and the
\* event of the latest version shows the record as it is.  The audit trail
\* tells the same history.  (The record, audit and outbox inserts of one
\* transaction.)
Journal ==
  /\ \A id \in DOMAIN records : \A v \in 1..records[id].version :
       \E e \in outbox : e.aggregateId = id /\ e.version = v
  /\ \A e, f \in outbox :
       e.aggregateId = f.aggregateId /\ e.version = f.version => e = f
  /\ \A e \in outbox :
       /\ e.aggregateId \in DOMAIN records
       /\ LET rec == records[e.aggregateId] IN
          /\ e.tenantId = rec.tenantId
          /\ e.version \in 1..rec.version
          /\ e.version = rec.version => e.state = rec.state
          /\ (e.type = "record.created") <=> (e.version = 1)
  /\ audit = {[tenantId |-> e.tenantId, recordId |-> e.aggregateId,
               type |-> e.type, state |-> e.state, version |-> e.version] :
              e \in outbox}

\* An idempotency key names one record of its own tenant, the one created under
\* it, and two records are never created under one key however often the
\* request is sent.  (The unique index and the idempotency document.)
KeyNamesOneRecord ==
  /\ \A slot \in DOMAIN idempotency :
       /\ idempotency[slot] \in DOMAIN records
       /\ records[idempotency[slot]].tenantId = slot[1]
       /\ records[idempotency[slot]].idempotencyKey = slot[2]
  /\ \A id \in DOMAIN records :
       LET slot == <<records[id].tenantId, records[id].idempotencyKey>> IN
       slot[2] # NoKey => slot \in DOMAIN idempotency /\ idempotency[slot] = id

\* A request takes effect at most once, even when it is answered with an error,
\* before or after its effect; it took effect when it is answered with a created
\* or updated record, as the version the answer carries; any other definite answer
\* means that it did not and will not.  (Transaction, replay and retry.)
AnswersTellTheTruth ==
  \A r \in Requests :
    LET effects == {e \in outbox : e.by = r} IN
    /\ \A e, f \in effects : e = f
    /\ reply[r].status \in {"created", "updated"} =>
         \E e \in effects : /\ e.aggregateId = reply[r].recordId
                           /\ e.version = reply[r].version
    /\ reply[r].status \notin {"created", "updated", "error"} => effects = {}

\* No update is lost: the version an update produced is the one after the
\* version its caller had seen, of the record and the tenant it named, in the
\* state it asked for.  With Journal, of two callers that saw the same version
\* only one can succeed.  (The version filter of FindOneAndUpdate.)
NoLostUpdate ==
  \A e \in outbox :
    /\ call[e.by] # NoCall
    /\ call[e.by].tenantId = e.tenantId
    /\ e.type = "record.updated" =>
         /\ call[e.by].op = "update"
         /\ call[e.by].recordId = e.aggregateId
         /\ call[e.by].expectedVersion + 1 = e.version
         /\ call[e.by].state \in {NoState, e.state}

\* Clients that send the same key of the same tenant are told of the same record,
\* and at most one of them is told that it was created.  (CreateRecord, the
\* replay of docs/architecture.md "Idempotent record creation".)
RetriesAgree ==
  \A p, q \in Requests :
    /\ reply[p].status \in {"created", "replay"}
    /\ reply[q].status \in {"created", "replay"}
    /\ call[p].key # NoKey
    /\ Slot(call[p]) = Slot(call[q])
    => /\ reply[p].recordId = reply[q].recordId
       /\ p # q => "replay" \in {reply[p].status, reply[q].status}

\* A record is always in a state that its workflow declares, and the workflow
\* belongs to the record's tenant.  (The checks before insert and update.)
StateDeclared ==
  \A id \in DOMAIN records :
    LET rec == records[id] IN
    /\ HasWorkflow(workflows, rec.workflowId, rec.tenantId)
    /\ Declares(workflows[rec.workflowId], rec.state)
=============================================================================
