------------------------------- MODULE Domain -------------------------------
(***************************************************************************)
(* The vocabulary of services/api: workflow definitions, records, the      *)
(* journal entries written with every record change, and the requests and  *)
(* answers of the Store interface.                                         *)
(*                                                                         *)
(* Names, field lists, payloads and timestamps are left out: no operation  *)
(* branches on them.  A collection is a function from identifiers to       *)
(* documents; audit events and outbox events are never looked up by        *)
(* identifier here, so these two collections are sets.                     *)
(***************************************************************************)
EXTENDS Integers, Sequences

CONSTANTS
  Tenants,      \* tenant ids, taken from the claims of the token
  WorkflowIds,  \* ids a workflow can be given
  RecordIds,    \* ids a record can be given
  States,       \* names of states
  StateLists,   \* the lists of states offered when a workflow is created
  Keys,         \* idempotency keys
  NoKey,        \* the empty key: the request sent none
  NoState,      \* the empty state of an update: leave it as it is
  NoRecord,     \* the record id of an answer that names no record
  NoCall,       \* the call of a request that has not arrived
  Requests,     \* the requests the API processes serve
  Calls         \* what those requests may ask for

CreateCalls ==
  [op: {"create"}, tenantId: Tenants, workflowId: WorkflowIds, key: Keys \cup {NoKey}]

UpdateCalls ==
  [op: {"update"}, tenantId: Tenants, recordId: RecordIds,
   expectedVersion: Nat, state: States \cup {NoState}]

ASSUME DomainAssumption ==
  /\ NoKey \notin Keys
  /\ NoState \notin States
  /\ NoRecord \notin RecordIds
  /\ StateLists \subseteq Seq(States)
  /\ Calls \subseteq CreateCalls \cup UpdateCalls
  /\ NoCall \notin Calls

-----------------------------------------------------------------------------
(* Collections as partial functions. *)

EmptyMap == [x \in {} |-> x]

Put(f, k, v) == [x \in DOMAIN f \cup {k} |-> IF x = k THEN v ELSE f[x]]

Drop(f, k) == [x \in DOMAIN f \ {k} |-> f[x]]

IsMap(f, S, T) == DOMAIN f \subseteq S /\ f \in [DOMAIN f -> T]

-----------------------------------------------------------------------------
(* Documents. *)

Workflows == [tenantId: Tenants, states: Seq(States) \ {<<>>}]

Records ==
  [tenantId: Tenants, workflowId: WorkflowIds, state: States,
   version: Nat \ {0}, idempotencyKey: Keys \cup {NoKey}]

EventTypes == {"record.created", "record.updated"}

AuditEvents ==
  [tenantId: Tenants, recordId: RecordIds, type: EventTypes,
   state: States, version: Nat \ {0}]

\* "by" is no field of the document: it names the request that wrote it, so
\* that the properties can relate an event to the answer of its request.
OutboxEvents ==
  [tenantId: Tenants, aggregateId: RecordIds, type: EventTypes,
   state: States, version: Nat \ {0}, by: Requests]

Slots == Tenants \X Keys

\* Mutant: keys are shared by all tenants.
SlotWithoutTenant(c) == <<CHOOSE t \in Tenants : TRUE, c.key>>

\* The idempotency entry a create call reads and claims.
Slot(c) == <<c.tenantId, c.key>>

\* Mutant: the first version is not set.
NewRecordUnversioned(c, wf) ==
  [tenantId |-> c.tenantId, workflowId |-> c.workflowId, state |-> wf.states[1],
   version |-> 0, idempotencyKey |-> c.key]

NewRecord(c, wf) ==
  [tenantId |-> c.tenantId, workflowId |-> c.workflowId, state |-> wf.states[1],
   version |-> 1, idempotencyKey |-> c.key]

Updated(rec, c) ==
  [rec EXCEPT !.state = IF c.state = NoState THEN @ ELSE c.state,
              !.version = @ + 1]

AuditOf(id, rec, type) ==
  [tenantId |-> rec.tenantId, recordId |-> id, type |-> type,
   state |-> rec.state, version |-> rec.version]

OutboxOf(r, id, rec, type) ==
  [tenantId |-> rec.tenantId, aggregateId |-> id, type |-> type,
   state |-> rec.state, version |-> rec.version, by |-> r]

-----------------------------------------------------------------------------
(* The questions the operations ask of the documents they read. *)

HasWorkflow(wfs, id, t) == id \in DOMAIN wfs /\ wfs[id].tenantId = t

\* Mutant: the record is looked up by its id alone.
HasRecordOfAnyone(recs, id, t) == id \in DOMAIN recs

HasRecord(recs, id, t) == id \in DOMAIN recs /\ recs[id].tenantId = t

Declares(wf, s) == \E i \in 1..Len(wf.states) : wf.states[i] = s

\* Mutant: a caller ahead of the record is let through.
UpToDateOrAhead(c, rec) == rec.version <= c.expectedVersion

UpToDate(c, rec) == rec.version = c.expectedVersion

\* Mutant: any state will do.
AllowsAnyState(c, wfs, rec) == HasWorkflow(wfs, rec.workflowId, c.tenantId)

Allows(c, wfs, rec) ==
  /\ HasWorkflow(wfs, rec.workflowId, c.tenantId)
  /\ c.state = NoState \/ Declares(wfs[rec.workflowId], c.state)

\* Why an update of these documents is refused; "none" when it is not.
UpdateRefusal(c, wfs, recs) ==
  CASE ~HasRecord(recs, c.recordId, c.tenantId) -> "notFound"
    [] /\ HasRecord(recs, c.recordId, c.tenantId)
       /\ ~UpToDate(c, recs[c.recordId]) -> "conflict"
    [] /\ HasRecord(recs, c.recordId, c.tenantId)
       /\ UpToDate(c, recs[c.recordId])
       /\ ~Allows(c, wfs, recs[c.recordId]) -> "invalid"
    [] OTHER -> "none"

-----------------------------------------------------------------------------
(* Answers. *)

Statuses == {"none", "pending", "created", "replay", "updated",
             "notFound", "conflict", "invalid", "error"}

Replies == [status: Statuses, recordId: RecordIds \cup {NoRecord}, version: Nat]

Answer(status) == [status |-> status, recordId |-> NoRecord, version |-> 0]

AnswerWith(status, id, rec) ==
  [status |-> status, recordId |-> id, version |-> rec.version]
=============================================================================
