------------------------------ MODULE MCHttpApi ------------------------------
EXTENDS HttpApi, TLC

CONSTANTS t1, t2, w1, w2, d1, d2, open, done, k1

Claims(t, role, exp) == [tenantId |-> t, role |-> role, exp |-> exp]

\* An administrator of each tenant, and an approver of one whose token expires.
admin1 == Claims(t1, "admin", 2)
admin2 == Claims(t2, "admin", 2)
approver == Claims(t1, "approver", 1)

MCTokens == {admin1, admin2, approver}

Req(route, token, tenant, body) ==
  [route |-> route, token |-> token, tenant |-> tenant, body |-> body]

Change(version, ifMatch) ==
  [recordId |-> d1, state |-> done, expectedVersion |-> version, ifMatch |-> ifMatch]

MCStateLists == {<<open, done>>, <<>>}

\* Every route, with the requests each refusal is for, and updates that name a
\* version in the header, in the body, unreadably and nowhere.
MCRequests ==
  {Req("createWorkflow", admin1, NoTenant, [states |-> <<open, done>>]),
   Req("createRecord", approver, NoTenant, [workflowId |-> w1, key |-> k1]),
   Req("createRecord", admin1, t1, [workflowId |-> w1, key |-> k1]),
   Req("createRecord", admin1, NoTenant, BadBody),
   Req("updateRecord", approver, t1, Change(0, 1)),
   Req("updateRecord", approver, t2, Change(1, NoHeader)),
   Req("updateRecord", admin2, NoTenant, Change(0, NoHeader)),
   Req("updateRecord", admin1, NoTenant, Change(1, Unreadable)),
   Req("updateRecord", admin1, NoTenant, Change(0, Unreadable)),
   Req("updateRecord", admin1, NoTenant, Change(1, 2)),
   Req("getRecord", admin2, NoTenant, [recordId |-> d1]),
   Req("listRecords", approver, NoTenant, [state |-> open]),
   Req("listAudit", admin2, NoTenant, <<>>),
   Req("listWorkflows", admin2, NoTenant, <<>>)}

MCCalls ==
  [op: {"create"}, tenantId: {t1, t2}, workflowId: {w1}, key: {k1}]
  \cup [op: {"update"}, tenantId: {t1, t2}, recordId: {d1}, expectedVersion: 0..2,
        state: {done}]

Symmetry == Permutations(Requests)
=============================================================================
