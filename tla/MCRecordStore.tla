---------------------------- MODULE MCRecordStore ----------------------------
(* Instances of RecordStore, MongoStore and MemoryStore share these calls.   *)
EXTENDS RecordStore, TLC

CONSTANTS t1, t2, w1, w2, d1, d2, open, done, lost, k1

MCStateLists == {<<open, done>>}

CreateCall(t, w, k) == [op |-> "create", tenantId |-> t, workflowId |-> w, key |-> k]

UpdateCall(t, d, v, s) ==
  [op |-> "update", tenantId |-> t, recordId |-> d, expectedVersion |-> v, state |-> s]

\* Creates with the same key from two tenants, a create without a key and on a
\* workflow of the other tenant; updates that race for one version, that are
\* late, that leave the state alone, that ask for a state no workflow declares
\* and that name a record of another tenant.
MCCalls ==
  {CreateCall(t1, w1, k1), CreateCall(t1, w1, NoKey), CreateCall(t1, w2, k1),
   CreateCall(t2, w2, k1),
   UpdateCall(t1, d1, 1, done), UpdateCall(t1, d1, 1, NoState),
   UpdateCall(t1, d1, 2, open), UpdateCall(t1, d1, 1, lost),
   UpdateCall(t2, d1, 1, done)}

Symmetry == Permutations(Requests)
=============================================================================
