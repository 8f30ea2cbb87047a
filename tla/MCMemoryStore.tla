---------------------------- MODULE MCMemoryStore ----------------------------
EXTENDS MemoryStore, TLC

CONSTANTS tokA, tokB, tokC, open, done, lost

Text(token) == <<token>>

MCTokens == {tokA, tokB, tokC, Colon}
Empty == <<>>

\* No tenant and no key has a colon.
PlainTenants == {Text(tokA), Text(tokB)}
PlainKeys == {Text(tokC)}

MCStateLists == {<<open, done>>}

WorkflowId(n) == <<"wf", n>>
RecordId(n) == <<"rec", n>>

MCWorkflowIds == {WorkflowId(1), WorkflowId(2)}
MCRecordIds == {RecordId(n) : n \in 1..12}

CreateCall(t, w, k) == [op |-> "create", tenantId |-> t, workflowId |-> w, key |-> k]

UpdateCall(t, d, v, s) ==
  [op |-> "update", tenantId |-> t, recordId |-> d, expectedVersion |-> v, state |-> s]

\* The first record of two workflows is rec_000003.
PlainCalls ==
  {CreateCall(t, w, k) : t \in PlainTenants, w \in MCWorkflowIds, k \in PlainKeys \cup {NoKey}}
  \cup {UpdateCall(Text(tokA), RecordId(3), v, s) : v \in 1..2, s \in {NoState, done, lost}}

Symmetry == Permutations(Requests)
=============================================================================
