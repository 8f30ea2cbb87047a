----------------------------- MODULE MongoStore -----------------------------
(***************************************************************************)
(* MongoStore (internal/store/mongo_store.go): the Store of the deployed   *)
(* processes, as the steps its requests take concurrently against one      *)
(* database.                                                               *)
(*                                                                         *)
(* A create reads the idempotency collection, then runs a transaction; the *)
(* driver runs the callback again when the database calls an error         *)
(* transient.  A transaction reads the snapshot of its first read, and     *)
(* cannot write what another open transaction wrote or what was committed  *)
(* after its snapshot.                                                     *)
(***************************************************************************)
EXTENDS Domain

CONSTANT Faults   \* may the database fail operations and lose commit replies

ASSUME FaultsAssumption == Faults \in BOOLEAN

VARIABLES
  workflows, records, idempotency, audit, outbox,   \* the collections
  call, reply,
  pc,    \* request -> the step of the method it is at
  hit,   \* request at "replay" -> the record id that findReplay has read
  txn    \* request with an open transaction -> its snapshot and its writes

db == <<workflows, records, idempotency, audit, outbox>>
vars == <<workflows, records, idempotency, audit, outbox, call, reply, pc, hit, txn>>

Store == INSTANCE RecordStore

Steps == {"idle", "lookup", "replay", "begin", "write", "commit", "late", "recheck", "done"}

\* The record a transaction is about to commit, in its new version.
Writes == [id: RecordIds, rec: Records]

TypeOK ==
  /\ Store!TypeOK
  /\ pc \in [Requests -> Steps]
  /\ IsMap(hit, Requests, RecordIds)
  /\ DOMAIN hit = {r \in Requests : pc[r] = "replay"}
  /\ IsMap(txn, Requests,
           [records: {txn[r].records : r \in DOMAIN txn},
            idempotency: {txn[r].idempotency : r \in DOMAIN txn},
            writes: SUBSET Writes])
  /\ DOMAIN txn = {r \in Requests : pc[r] \in {"write", "commit", "late"}}
  /\ \A r \in DOMAIN txn :
       /\ IsMap(txn[r].records, RecordIds, Records)
       /\ IsMap(txn[r].idempotency, Slots, RecordIds)
       /\ (pc[r] = "write") <=> (txn[r].writes = {})

Init ==
  /\ Store!Init
  /\ pc = [r \in Requests |-> "idle"]
  /\ hit = EmptyMap
  /\ txn = EmptyMap

-----------------------------------------------------------------------------

At(r, step) == pc[r] = step

Goto(r, step) == pc' = [pc EXCEPT ![r] = step]

\* The method returns.
Return(r, answer) == Store!Respond(r, answer) /\ Goto(r, "done")

\* The first read of a transaction fixes what the transaction sees.
Open(r) ==
  txn' = Put(txn, r, [records |-> records, idempotency |-> idempotency, writes |-> {}])

\* Mutant: the session is never ended.
NeverClose(r) == UNCHANGED txn

Close(r) == txn' = Drop(txn, r)

Stage(r, id, rec) == txn' = [txn EXCEPT ![r].writes = {[id |-> id, rec |-> rec]}]

CreateWorkflow(id, t, states) ==
  /\ Store!CreateWorkflow(id, t, states)
  /\ UNCHANGED <<pc, hit, txn>>

\* CreateRecord looks for a replay only if it was given a key.
Receive(r, c) ==
  /\ Store!Receive(r, c)
  /\ Goto(r, IF c.op = "create" /\ c.key # NoKey THEN "lookup" ELSE "begin")
  /\ UNCHANGED <<hit, txn>>

-----------------------------------------------------------------------------
(* findReplay: two reads outside any transaction. *)

FindReplay(r) ==
  LET slot == Slot(call[r])
  IN /\ pc[r] \in {"lookup", "recheck"}
     /\ slot \in DOMAIN idempotency
     /\ hit' = Put(hit, r, idempotency[slot])
     /\ Goto(r, "replay")
     /\ UNCHANGED <<db, call, reply, txn>>

\* After a duplicate key the caller gets that error if there is still no entry.
FindNoReplay(r) ==
  /\ pc[r] \in {"lookup", "recheck"}
  /\ Slot(call[r]) \notin DOMAIN idempotency
  /\ \/ At(r, "lookup") /\ Goto(r, "begin") /\ UNCHANGED reply
     \/ Faults /\ At(r, "recheck") /\ Return(r, Answer("error"))
  /\ UNCHANGED <<db, call, hit, txn>>

ReturnReplay(r) ==
  /\ At(r, "replay")
  /\ Return(r, AnswerWith("replay", hit[r], records[hit[r]]))
  /\ hit' = Drop(hit, r)
  /\ UNCHANGED <<db, call, txn>>

-----------------------------------------------------------------------------
(* What the database refuses to a transaction. *)

\* Mutant: the index misses entries committed after the snapshot.
SlotContendedByOpen(r, slot) ==
  \E q \in DOMAIN txn \ {r} :
    txn[q].writes # {} /\ call[q].op = "create" /\ Slot(call[q]) = slot

\* Another open transaction has inserted this idempotency entry, or one was
\* committed that the snapshot does not show.
SlotContended(r, slot) ==
  \/ \E q \in DOMAIN txn \ {r} :
       txn[q].writes # {} /\ call[q].op = "create" /\ Slot(call[q]) = slot
  \/ slot \in DOMAIN idempotency \ DOMAIN txn[r].idempotency

\* Mutant: transactions see no open writes of each other.
RecordContendedByCommitted(r, id) == records[id] # txn[r].records[id]

\* Another open transaction has written this record, or a version of it was
\* committed that the snapshot does not show.
RecordContended(r, id) ==
  \/ \E q \in DOMAIN txn \ {r} : \E w \in txn[q].writes : w.id = id
  \/ records[id] # txn[r].records[id]

\* An object id is new: no record has it and no transaction has taken it.
FreshId(id) ==
  /\ id \notin DOMAIN records
  /\ \A q \in DOMAIN txn : \A w \in txn[q].writes : w.id # id

-----------------------------------------------------------------------------
(* The callback of CreateRecord. *)

BeginCreate(r) ==
  /\ At(r, "begin")
  /\ call[r].op = "create"
  /\ \/ /\ HasWorkflow(workflows, call[r].workflowId, call[r].tenantId)
        /\ Open(r)
        /\ Goto(r, "write")
        /\ UNCHANGED reply
     \/ /\ ~HasWorkflow(workflows, call[r].workflowId, call[r].tenantId)
        /\ Return(r, Answer("invalid"))
        /\ UNCHANGED txn
  /\ UNCHANGED <<db, call, hit>>

WriteCreate(r, id) ==
  LET c == call[r]
  IN /\ At(r, "write")
     /\ c.op = "create"
     /\ FreshId(id)
     /\ c.key # NoKey => /\ Slot(c) \notin DOMAIN txn[r].idempotency
                         /\ ~SlotContended(r, Slot(c))
     /\ Stage(r, id, NewRecord(c, workflows[c.workflowId]))
     /\ Goto(r, "commit")
     /\ UNCHANGED <<db, call, reply, hit>>

\* Mutant: a duplicate key is retried like a write conflict.
RetryDuplicateKey(r) ==
  /\ At(r, "write")
  /\ call[r].op = "create"
  /\ Slot(call[r]) \in DOMAIN txn[r].idempotency
  /\ Close(r)
  /\ Goto(r, "begin")
  /\ UNCHANGED <<db, call, reply, hit>>

\* The unique index refuses the idempotency document: the transaction ends and
\* CreateRecord looks for a replay once more.
DuplicateKey(r) ==
  /\ At(r, "write")
  /\ call[r].op = "create"
  /\ Slot(call[r]) \in DOMAIN txn[r].idempotency
  /\ Close(r)
  /\ Goto(r, "recheck")
  /\ UNCHANGED <<db, call, reply, hit>>

-----------------------------------------------------------------------------
(* The callback of UpdateRecord. *)

BeginUpdate(r) ==
  LET why == UpdateRefusal(call[r], workflows, records)
  IN /\ At(r, "begin")
     /\ call[r].op = "update"
     /\ \/ why = "none" /\ Open(r) /\ Goto(r, "write") /\ UNCHANGED reply
        \/ why # "none" /\ Return(r, Answer(why)) /\ UNCHANGED txn
     /\ UNCHANGED <<db, call, hit>>

WriteUpdate(r) ==
  LET c == call[r]
  IN /\ At(r, "write")
     /\ c.op = "update"
     /\ ~RecordContended(r, c.recordId)
     /\ Stage(r, c.recordId, Updated(txn[r].records[c.recordId], c))
     /\ Goto(r, "commit")
     /\ UNCHANGED <<db, call, reply, hit>>

-----------------------------------------------------------------------------
(* The end of a transaction. *)

\* WithTransaction runs the callback again after a write conflict.
WriteConflict(r) ==
  /\ At(r, "write")
  /\ IF call[r].op = "create" THEN SlotContended(r, Slot(call[r]))
                              ELSE RecordContended(r, call[r].recordId)
  /\ Close(r)
  /\ Goto(r, "begin")
  /\ UNCHANGED <<db, call, reply, hit>>

\* The ten seconds of the request's context are over while the database is at work
\* on the commit: the caller gets an error now, and the commit may still be done.
GiveUp(r) ==
  /\ Faults
  /\ At(r, "commit")
  /\ Store!Respond(r, Answer("error"))
  /\ Goto(r, "late")
  /\ UNCHANGED <<db, call, hit, txn>>

\* Everything the transaction wrote becomes visible at once.  The reply to the
\* commit may be lost for good: the caller then gets an error.
Commit(r) ==
  LET c       == call[r]
      created == c.op = "create"
  IN /\ pc[r] \in {"commit", "late"}
     /\ \E w \in txn[r].writes :
          /\ records' = Put(records, w.id, w.rec)
          /\ idempotency' = IF created /\ c.key # NoKey
                            THEN Put(idempotency, Slot(c), w.id) ELSE idempotency
          /\ Store!Journalled(r, w.id, w.rec,
                              IF created THEN "record.created" ELSE "record.updated")
          /\ \/ At(r, "commit") /\ Return(r, AnswerWith(
                    IF created THEN "created" ELSE "updated", w.id, w.rec))
             \/ Faults /\ Return(r, Answer("error"))
     /\ Close(r)
     /\ UNCHANGED <<workflows, call, hit>>

\* The database aborts the transaction and calls the error transient, up to the
\* commit itself: WithTransaction runs the callback again.
Transient(r) ==
  /\ Faults
  /\ pc[r] \in {"write", "commit"}
  /\ Close(r)
  /\ Goto(r, "begin")
  /\ UNCHANGED <<db, call, reply, hit>>

\* A read, a write or the commit fails for good, or the ten seconds are over before
\* the commit was sent; a commit that nobody waits for any more is not done.  A failed
\* read of the workflow, the first read of a create and the second one of an update, is
\* returned as ErrInvalidWorkflow.
Fail(r) ==
  /\ Faults
  /\ pc[r] \notin {"idle", "done"}
  /\ \/ Return(r, Answer("error"))
     \/ At(r, "begin") /\ Return(r, Answer("invalid"))
  /\ hit' = Drop(hit, r)
  /\ Close(r)
  /\ UNCHANGED <<db, call>>

-----------------------------------------------------------------------------

\* The steps of a request that is being served.
Serve(r) ==
  \/ FindReplay(r)
  \/ FindNoReplay(r)
  \/ ReturnReplay(r)
  \/ BeginCreate(r)
  \/ \E id \in RecordIds : WriteCreate(r, id)
  \/ DuplicateKey(r)
  \/ BeginUpdate(r)
  \/ WriteUpdate(r)
  \/ WriteConflict(r)
  \/ Commit(r)

Next ==
  \/ \E id \in WorkflowIds, t \in Tenants, states \in StateLists :
       CreateWorkflow(id, t, states)
  \/ \E r \in Requests :
       \/ \E c \in Calls : Receive(r, c)
       \/ Serve(r)
       \/ GiveUp(r)
       \/ Transient(r)
       \/ Fail(r)

Spec == Init /\ [][Next]_vars

\* Every request has its goroutine, which keeps running.
FairSpec == Spec /\ \A r \in Requests : WF_vars(Serve(r))

-----------------------------------------------------------------------------

\* Between its write and its commit a transaction is alone: no other transaction
\* holds a write of the same record or the same idempotency entry, and what it
\* is about to replace is still what its snapshot showed.
Isolated ==
  \A r \in DOMAIN txn : \A w \in txn[r].writes :
    /\ \A q \in DOMAIN txn \ {r} : \A v \in txn[q].writes :
         /\ v.id # w.id
         /\ call[r].op = "create" /\ call[q].op = "create" =>
              call[r].key = NoKey \/ Slot(call[r]) # Slot(call[q])
    /\ call[r].op = "create" =>
         w.id \notin DOMAIN records /\ Slot(call[r]) \notin DOMAIN idempotency
    /\ call[r].op = "update" =>
         /\ w.id = call[r].recordId
         /\ w.id \in DOMAIN records
         /\ w.rec = Updated(records[w.id], call[r])

\* The concurrent transactions, their retries and the lost commit replies do not
\* show: to its callers the store is the atomic one of RecordStore.
ImplementsRecordStore == Store!Spec

\* Without faults of the database every request is answered: requests that
\* conflict over a key or a version do not retry for ever.
EveryRequestAnswered ==
  \A r \in Requests : reply[r].status = "pending" ~> reply[r].status # "pending"
=============================================================================
