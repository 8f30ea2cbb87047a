------------------------------- MODULE HttpApi -------------------------------
(***************************************************************************)
(* The HTTP API (internal/httpapi/server.go) with its tokens               *)
(* (internal/auth/token.go), in front of a store that keeps the contract   *)
(* of RecordStore.                                                         *)
(*                                                                         *)
(* A handler authorizes its request, decodes it, makes one call of the     *)
(* store and turns the answer into a response.  Requests run concurrently. *)
(* The signature of a token is modelled by what it shows: a token verifies *)
(* if it was issued.                                                       *)
(***************************************************************************)
EXTENDS Domain

CONSTANTS
  Faults,
  Tokens,         \* the claims tokens carry: a tenant, a role and an expiry
  HttpRequests,   \* the requests clients send
  NoToken,        \* no bearer token in the Authorization header
  NoTenant,       \* no X-Tenant-ID header
  NoHeader,       \* no If-Match header
  Unreadable,     \* an If-Match header that is not a number
  BadBody,        \* a body that is not JSON
  NoRequest,
  MaxTime         \* bound of the clock

Roles == {"admin", "builder", "requester", "approver", "auditor"}

\* The routes, and the roles each is registered with.
Allowed ==
  [createWorkflow |-> {"admin", "builder"},
   createRecord   |-> {"admin", "builder", "requester"},
   updateRecord   |-> {"admin", "approver"},
   listAudit      |-> {"admin", "auditor"},
   listWorkflows  |-> Roles,
   listRecords    |-> Roles,
   getRecord      |-> Roles]

Bodies ==
  [createWorkflow |-> [states: StateLists],
   createRecord   |-> [workflowId: WorkflowIds, key: Keys \cup {NoKey}],
   updateRecord   |-> [recordId: RecordIds, state: States \cup {NoState},
                       expectedVersion: Nat, ifMatch: Nat \cup {NoHeader, Unreadable}],
   listAudit      |-> {<<>>},
   listWorkflows  |-> {<<>>},
   listRecords    |-> [state: States \cup {NoState}],
   getRecord      |-> [recordId: RecordIds]]

ASSUME ApiAssumption ==
  /\ Faults \in BOOLEAN
  /\ MaxTime \in Nat
  /\ Tokens \subseteq [tenantId: Tenants, role: Roles, exp: Nat]
  /\ NoToken \notin Tokens
  /\ NoTenant \notin Tenants
  /\ NoHeader \notin Nat /\ Unreadable \notin Nat /\ NoHeader # Unreadable
  /\ NoRequest \notin HttpRequests
  /\ WorkflowIds \cap RecordIds = {}
  /\ \A q \in HttpRequests :
       /\ q.route \in DOMAIN Allowed
       /\ q.token \in Tokens \cup {NoToken}
       /\ q.tenant \in Tenants \cup {NoTenant}
       /\ q.body = BadBody \/ q.body \in Bodies[q.route]

\* The store knows the calls that the requests can make of it.
ASSUME CallsAssumption ==
  \A q \in HttpRequests : q.token # NoToken /\ q.body # BadBody =>
    /\ q.route = "createRecord" =>
         [op |-> "create", tenantId |-> q.token.tenantId,
          workflowId |-> q.body.workflowId, key |-> q.body.key] \in Calls
    /\ q.route = "updateRecord" =>
         \A version \in {q.body.ifMatch, q.body.expectedVersion} \cap Nat :
           [op |-> "update", tenantId |-> q.token.tenantId, recordId |-> q.body.recordId,
            expectedVersion |-> version, state |-> q.body.state] \in Calls

VARIABLES
  workflows, records, idempotency, audit, outbox, call, reply,   \* the store
  now,        \* the clock
  issued,     \* the tokens that were signed with the secret
  http,       \* request -> what the client sent
  response    \* request -> what it was answered

storeVars == <<workflows, records, idempotency, audit, outbox, call, reply>>
vars == <<workflows, records, idempotency, audit, outbox, call, reply,
          now, issued, http, response>>

Store == INSTANCE RecordStore

Codes == {200, 201, 400, 401, 403, 404, 409, 422, 500}

\* A response: its status code, the documents in it, the Idempotent-Replay header
\* and the ETag.  Code 0 stands for no response yet.
Responses ==
  [code: Codes \cup {0}, docs: SUBSET (WorkflowIds \cup RecordIds),
   replay: BOOLEAN, etag: Nat]

Plain(code) == [code |-> code, docs |-> {}, replay |-> FALSE, etag |-> 0]

TypeOK ==
  /\ Store!TypeOK
  /\ now \in 0..MaxTime
  /\ issued \subseteq Tokens
  /\ http \in [Requests -> HttpRequests \cup {NoRequest}]
  /\ response \in [Requests -> Responses]
  /\ \A r \in Requests : http[r] = NoRequest => response[r].code = 0

Init ==
  /\ Store!Init
  /\ now = 0
  /\ issued = {}
  /\ http = [r \in Requests |-> NoRequest]
  /\ response = [r \in Requests |-> Plain(0)]

\* A workflow of an earlier process: the database outlives it.
EarlierWorkflow ==
  /\ issued = {}
  /\ \E id \in WorkflowIds, t \in Tenants, states \in StateLists :
       Store!CreateWorkflow(id, t, states)
  /\ UNCHANGED <<now, issued, http, response>>

-----------------------------------------------------------------------------
(* Tokens. *)

\* Issue, which refuses a time to live that is not positive.
Issue(claims) ==
  /\ now < claims.exp
  /\ issued' = issued \cup {claims}
  /\ UNCHANGED <<storeVars, now, http, response>>

\* Parse.
Valid(token) == token \in issued /\ now < token.exp

Tick ==
  /\ now < MaxTime
  /\ now' = now + 1
  /\ UNCHANGED <<storeVars, issued, http, response>>

-----------------------------------------------------------------------------
(* Arrival: authorize and decode. *)

\* Mutant: the tenant is that of the header.
TenantOfHeader(q) == q.tenant

\* tenantID: the tenant of the claims, whatever the header says.
TenantOf(q) == q.token.tenantId

Authenticated(q) == q.token # NoToken /\ Valid(q.token)

\* Mutant: the role is not looked at.
PermittedToAll(q) == q.tenant \in {NoTenant, q.token.tenantId}

\* A tenant in the header must be the token's, and the role one of the route's.
Permitted(q) ==
  /\ q.tenant \in {NoTenant, q.token.tenantId}
  /\ q.token.role \in Allowed[q.route]

\* The code of a request that does not reach the store; 0 when it does.
Refusal(q) ==
  CASE ~Authenticated(q) -> 401
    [] Authenticated(q) /\ ~Permitted(q) -> 403
    [] Authenticated(q) /\ Permitted(q) /\ q.body = BadBody -> 400
    [] OTHER -> 0

\* Mutant: an unreadable If-Match stands for whatever the record is at.
ExpectedOrCurrent(b) ==
  IF b.ifMatch = Unreadable /\ b.recordId \in DOMAIN records
  THEN records[b.recordId].version
  ELSE IF b.ifMatch \in Nat THEN b.ifMatch ELSE b.expectedVersion

\* The If-Match header goes before the body, if it can be read.
Expected(b) == IF b.ifMatch \in Nat THEN b.ifMatch ELSE b.expectedVersion

CallOf(q) ==
  IF q.route = "createRecord"
  THEN [op |-> "create", tenantId |-> TenantOf(q),
        workflowId |-> q.body.workflowId, key |-> q.body.key]
  ELSE [op |-> "update", tenantId |-> TenantOf(q), recordId |-> q.body.recordId,
        expectedVersion |-> Expected(q.body), state |-> q.body.state]

Respond(r, resp) == response' = [response EXCEPT ![r] = resp]

\* The request is refused, or reaches its handler, which for a create or an update
\* of a record calls the store.
Arrive(r, q) ==
  /\ http[r] = NoRequest
  /\ http' = [http EXCEPT ![r] = q]
  /\ \/ /\ Refusal(q) # 0
        /\ Respond(r, Plain(Refusal(q)))
        /\ UNCHANGED storeVars
     \/ /\ Refusal(q) = 0
        /\ q.route \in {"createRecord", "updateRecord"}
        /\ Store!Receive(r, CallOf(q))
        /\ UNCHANGED response
     \/ /\ Refusal(q) = 0
        /\ q.route \notin {"createRecord", "updateRecord"}
        /\ UNCHANGED <<storeVars, response>>
  /\ UNCHANGED <<now, issued>>

Handling(r, route) ==
  /\ http[r] # NoRequest
  /\ http[r].route = route
  /\ response[r].code = 0

-----------------------------------------------------------------------------
(* The handlers. *)

\* The store serves a create or an update.
Serve(r) ==
  /\ \/ \E id \in RecordIds : Store!Create(r, id)
     \/ Store!Replay(r)
     \/ Store!Update(r)
     \/ Store!RefuseCreate(r)
     \/ Store!RefuseUpdate(r)
     \/ Store!Fail(r)
  /\ UNCHANGED <<now, issued, http, response>>

\* createRecord: every error of the store is a 422.
RecordCreated(r) ==
  /\ Handling(r, "createRecord")
  /\ reply[r].status # "pending"
  /\ Respond(r, IF reply[r].status \in {"created", "replay"}
                THEN [code |-> 201, docs |-> {reply[r].recordId},
                      replay |-> reply[r].status = "replay", etag |-> 0]
                ELSE Plain(422))
  /\ UNCHANGED <<storeVars, now, issued, http>>

\* Mutant: errors of the store are taken for a version conflict.
CodeOfErrorAsConflict(status) ==
  CASE status \in {"conflict", "error"} -> 409
    [] status = "notFound" -> 404
    [] OTHER -> 422

CodeOf(status) ==
  CASE status = "conflict" -> 409
    [] status = "notFound" -> 404
    [] OTHER -> 422

RecordUpdated(r) ==
  /\ Handling(r, "updateRecord")
  /\ reply[r].status # "pending"
  /\ Respond(r, IF reply[r].status = "updated"
                THEN [code |-> 200, docs |-> {reply[r].recordId},
                      replay |-> FALSE, etag |-> reply[r].version]
                ELSE Plain(CodeOf(reply[r].status)))
  /\ UNCHANGED <<storeVars, now, issued, http>>

\* createWorkflow: one insert, which may fail, also after it was applied.
CreateWorkflow(r, id) ==
  /\ Handling(r, "createWorkflow")
  /\ \/ /\ Store!CreateWorkflow(id, TenantOf(http[r]), http[r].body.states)
        /\ \/ Respond(r, [code |-> 201, docs |-> {id}, replay |-> FALSE, etag |-> 0])
           \/ Faults /\ Respond(r, Plain(422))
     \/ /\ Len(http[r].body.states) = 0 \/ Faults
        /\ Respond(r, Plain(422))
        /\ UNCHANGED storeVars
  /\ UNCHANGED <<now, issued, http>>

\* What the reads find: documents of the caller's tenant.
WorkflowsOf(t) == {id \in DOMAIN workflows : workflows[id].tenantId = t}

RecordsOf(t, state) ==
  {id \in DOMAIN records : /\ records[id].tenantId = t
                           /\ state \in {NoState, records[id].state}}

AuditedOf(t) == {e.recordId : e \in {f \in audit : f.tenantId = t}}

Found(docs) == [code |-> 200, docs |-> docs, replay |-> FALSE, etag |-> 0]

\* A list, or a 500 when it cannot be read.
AnswerList(r, docs) ==
  /\ \/ Respond(r, Found(docs))
     \/ Faults /\ Respond(r, Plain(500))
  /\ UNCHANGED <<storeVars, now, issued, http>>

ListWorkflows(r) ==
  /\ Handling(r, "listWorkflows")
  /\ AnswerList(r, WorkflowsOf(TenantOf(http[r])))

ListRecords(r) ==
  /\ Handling(r, "listRecords")
  /\ AnswerList(r, RecordsOf(TenantOf(http[r]), http[r].body.state))

ListAudit(r) ==
  /\ Handling(r, "listAudit")
  /\ AnswerList(r, AuditedOf(TenantOf(http[r])))

\* getRecord: a failed read, too, is a 404.
GetRecord(r) ==
  /\ Handling(r, "getRecord")
  /\ LET id == http[r].body.recordId
         found == HasRecord(records, id, TenantOf(http[r]))
     IN \/ found /\ Respond(r, Found({id}))
        \/ (~found \/ Faults) /\ Respond(r, Plain(404))
  /\ UNCHANGED <<storeVars, now, issued, http>>

Next ==
  \/ EarlierWorkflow
  \/ Tick
  \/ \E claims \in Tokens : Issue(claims)
  \/ \E r \in Requests :
       \/ \E q \in HttpRequests : Arrive(r, q)
       \/ Serve(r)
       \/ RecordCreated(r)
       \/ RecordUpdated(r)
       \/ \E id \in WorkflowIds : CreateWorkflow(r, id)
       \/ ListWorkflows(r)
       \/ ListRecords(r)
       \/ GetRecord(r)
       \/ ListAudit(r)

Spec == Init /\ [][Next]_vars

-----------------------------------------------------------------------------

\* Nobody is shown anything of another tenant than that of the signed token: not a
\* document, and not that a record exists, since only an own record is ever said to
\* be up to date or in conflict.  "Cross-tenant record access returns the same
\* not-found behavior as an absent record" (docs/architecture.md).
TenantIsolation ==
  \A r \in Requests : response[r].code \in {200, 201, 409} =>
    LET t == http[r].token.tenantId IN
    /\ \A id \in response[r].docs :
         IF id \in WorkflowIds THEN workflows[id].tenantId = t
                                ELSE records[id].tenantId = t
    /\ http[r].route \in {"updateRecord", "getRecord"} =>
         LET id == http[r].body.recordId
         IN id \in DOMAIN records /\ records[id].tenantId = t

\* Every change of a record, also one made after its request was answered, was
\* asked for under a signed token of the record's tenant whose role the route
\* admits, with no other tenant in the header.  (authorize.)
ChangesAreAuthorized ==
  \A e \in outbox :
    LET q == http[e.by] IN
    /\ q.token \in issued
    /\ q.token.tenantId = e.tenantId
    /\ q.tenant \in {NoTenant, e.tenantId}
    /\ q.token.role \in IF e.type = "record.created"
                        THEN {"admin", "builder", "requester"} ELSE {"admin", "approver"}

\* A client told 400, 401, 403, 404 or 409 may rely on nothing having changed and
\* on nothing going to change for this request; only a 422 is no such promise,
\* since it is also the answer to a fault of the database.
RefusalsHaveNoEffect ==
  \A r \in Requests : response[r].code \in {400, 401, 403, 404, 409} =>
    \A e \in outbox : e.by # r

\* A client told 200 has replaced the very version it had named, in If-Match or,
\* where that is missing or not a number, in the body; one that named no version
\* has replaced nothing; and no two clients are told of the same new version.
\* "Stale writers receive HTTP 409 rather than silently overwriting newer data"
\* (docs/architecture.md).
NoSilentOverwrite ==
  \A r \in Requests :
    response[r].code = 200 /\ http[r].route = "updateRecord" =>
      LET b == http[r].body IN
      /\ response[r].etag - 1 = IF b.ifMatch \in {NoHeader, Unreadable}
                                THEN b.expectedVersion ELSE b.ifMatch
      /\ response[r].etag > 1
      /\ \A s \in Requests \ {r} :
           /\ response[s].code = 200
           /\ http[s].route = "updateRecord"
           /\ http[s].body.recordId = b.recordId
           => response[s].etag # response[r].etag
=============================================================================
