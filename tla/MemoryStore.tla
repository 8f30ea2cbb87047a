----------------------------- MODULE MemoryStore -----------------------------
(***************************************************************************)
(* MemoryStore (internal/store/store.go): the Store of the local           *)
(* development server and of the tests.  Every method holds the mutex from *)
(* its first statement to its return, so each is one action here.          *)
(*                                                                         *)
(* The idempotency map is keyed by the string tenantID + ":" + key.        *)
(* Tenants and keys are therefore sequences of tokens in this module, and  *)
(* identifiers are pairs of a prefix and the value of the counter.         *)
(***************************************************************************)
EXTENDS Domain

CONSTANTS
  Tokens,       \* what the texts of tenants and keys are made of
  Colon,        \* the token of ":"
  MaxAttempts   \* bound: how often an outbox event is marked failed

ASSUME MemoryAssumption ==
  /\ Colon \in Tokens
  /\ Tenants \cup Keys \subseteq Seq(Tokens)
  /\ MaxAttempts \in Nat

VARIABLES
  workflows, records,
  idempotency,   \* joined tenant and key -> record id
  audit, outbox, \* the slices, in the order of their appends; an outbox event
                 \* with its identifier and its delivery state
  counter,
  call, reply

vars == <<workflows, records, idempotency, audit, outbox, counter, call, reply>>

\* Mutant: the map is keyed by the key alone.
KeyOnly(t, k) == k

JoinKey(t, k) == t \o <<Colon>> \o k

\* The n-th identifier from now.
NextId(prefix, n) == <<prefix, counter + n>>

Elements(s) == {s[i] : i \in DOMAIN s}

Store == INSTANCE RecordStore WITH
  Faults      <- FALSE,
  idempotency <- [slot \in {s \in Slots : JoinKey(s[1], s[2]) \in DOMAIN idempotency} |->
                    idempotency[JoinKey(slot[1], slot[2])]],
  audit       <- Elements(audit),
  outbox      <- {e.event : e \in Elements(outbox)}

TypeOK ==
  /\ Store!TypeOK
  /\ counter \in Nat
  /\ \A i \in DOMAIN outbox :
       outbox[i].published \in BOOLEAN /\ outbox[i].attempts \in 0..MaxAttempts

Init ==
  /\ workflows = EmptyMap
  /\ records = EmptyMap
  /\ idempotency = EmptyMap
  /\ audit = <<>>
  /\ outbox = <<>>
  /\ counter = 0
  /\ call = [r \in Requests |-> NoCall]
  /\ reply = [r \in Requests |-> Answer("none")]

-----------------------------------------------------------------------------

Respond(r, answer) == reply' = [reply EXCEPT ![r] = answer]

\* Mutant: the ids are drawn without moving the counter.
JournalledWithStuckCounter(r, id, rec, type, drawn) ==
  /\ audit' = Append(audit, AuditOf(id, rec, type))
  /\ outbox' = Append(outbox, [event |-> OutboxOf(r, id, rec, type),
                 id |-> NextId("out", drawn + 2), published |-> FALSE, attempts |-> 0])
  /\ counter' = counter + drawn

\* appendAuditLocked and appendOutboxLocked, which draw the next two ids after
\* the "drawn" ones.
Journalled(r, id, rec, type, drawn) ==
  /\ audit' = Append(audit, AuditOf(id, rec, type))
  /\ outbox' = Append(outbox, [event |-> OutboxOf(r, id, rec, type),
                 id |-> NextId("out", drawn + 2), published |-> FALSE, attempts |-> 0])
  /\ counter' = counter + drawn + 2

\* WorkflowIds bounds how many workflows there are.
CreateWorkflow(t, states) ==
  /\ NextId("wf", 1) \in WorkflowIds
  /\ Len(states) > 0
  /\ workflows' = Put(workflows, NextId("wf", 1), [tenantId |-> t, states |-> states])
  /\ counter' = counter + 1
  /\ UNCHANGED <<records, idempotency, audit, outbox, call, reply>>

Receive(r, c) ==
  /\ reply[r].status = "none"
  /\ call' = [call EXCEPT ![r] = c]
  /\ Respond(r, Answer("pending"))
  /\ UNCHANGED <<workflows, records, idempotency, audit, outbox, counter>>

Pending(r, op) == reply[r].status = "pending" /\ call[r].op = op

\* The workflow is checked before the key is looked up.  RecordIds bounds how many
\* records there are.
CreateRecord(r) ==
  LET c    == call[r]
      key  == JoinKey(c.tenantId, c.key)
      id   == NextId("rec", 1)
      rec  == NewRecord(c, workflows[c.workflowId])
      known   == HasWorkflow(workflows, c.workflowId, c.tenantId)
      replays == c.key # NoKey /\ key \in DOMAIN idempotency
  IN /\ Pending(r, "create")
     /\ \/ /\ ~known
           /\ Respond(r, Answer("invalid"))
           /\ UNCHANGED <<records, idempotency, audit, outbox, counter>>
        \/ /\ known /\ replays
           /\ Respond(r, AnswerWith("replay", idempotency[key], records[idempotency[key]]))
           /\ UNCHANGED <<records, idempotency, audit, outbox, counter>>
        \/ /\ known /\ ~replays
           /\ id \in RecordIds
           /\ records' = Put(records, id, rec)
           /\ idempotency' = IF c.key = NoKey THEN idempotency ELSE Put(idempotency, key, id)
           /\ Journalled(r, id, rec, "record.created", 1)
           /\ Respond(r, AnswerWith("created", id, rec))
     /\ UNCHANGED <<workflows, call>>

\* The workflow of a record is read without a check: it is always there, and its
\* tenant is the record's.
UpdateRecord(r) ==
  LET c       == call[r]
      rec     == records[c.recordId]
      found   == HasRecord(records, c.recordId, c.tenantId)
      allowed == c.state = NoState \/ Declares(workflows[rec.workflowId], c.state)
      Refuse(status) == /\ Respond(r, Answer(status))
                        /\ UNCHANGED <<records, audit, outbox, counter>>
  IN /\ Pending(r, "update")
     /\ \/ ~found /\ Refuse("notFound")
        \/ found /\ ~UpToDate(c, rec) /\ Refuse("conflict")
        \/ found /\ UpToDate(c, rec) /\ ~allowed /\ Refuse("invalid")
        \/ /\ found /\ UpToDate(c, rec) /\ allowed
           /\ records' = Put(records, c.recordId, Updated(rec, c))
           /\ Journalled(r, c.recordId, Updated(rec, c), "record.updated", 0)
           /\ Respond(r, AnswerWith("updated", c.recordId, Updated(rec, c)))
     /\ UNCHANGED <<workflows, idempotency, call>>

\* The loops over the slice stop at the first event with the id.
MarkOutboxPublished(id) ==
  /\ \E i \in DOMAIN outbox :
       /\ outbox[i].id = id
       /\ \A j \in 1..(i - 1) : outbox[j].id # id
       /\ outbox' = [outbox EXCEPT ![i].published = TRUE]
  /\ UNCHANGED <<workflows, records, idempotency, audit, counter, call, reply>>

MarkOutboxFailed(id) ==
  /\ \E i \in DOMAIN outbox :
       /\ outbox[i].id = id
       /\ \A j \in 1..(i - 1) : outbox[j].id # id
       /\ outbox[i].attempts < MaxAttempts
       /\ outbox' = [outbox EXCEPT ![i].attempts = @ + 1]
  /\ UNCHANGED <<workflows, records, idempotency, audit, counter, call, reply>>

Next ==
  \/ \E t \in Tenants, states \in StateLists : CreateWorkflow(t, states)
  \/ \E r \in Requests :
       \/ \E c \in Calls : Receive(r, c)
       \/ CreateRecord(r)
       \/ UpdateRecord(r)
  \/ \E e \in Elements(outbox) :
       MarkOutboxPublished(e.id) \/ MarkOutboxFailed(e.id)

Spec == Init /\ [][Next]_vars

-----------------------------------------------------------------------------

\* The one counter behind all identifiers never gives two events or records the
\* same one, so that marking an event by its id marks that event only.
IdsAreUnique ==
  /\ \A i, j \in DOMAIN outbox : outbox[i].id = outbox[j].id => i = j
  /\ \A id \in DOMAIN records \cup {outbox[i].id : i \in DOMAIN outbox} :
       id[2] <= counter

\* As long as no tenant has a colon, and so the joined keys of different tenants are
\* different, the in-memory store keeps the contract that the database store keeps.
ImplementsRecordStore == Store!Spec
=============================================================================
