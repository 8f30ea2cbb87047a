------------------------------- MODULE WebClient -------------------------------
(***************************************************************************)
(* The web client (apps/web/src/main.tsx): a token, the lists of workflows *)
(* and audit events on display, and asynchronous functions that fetch      *)
(* both, one after the other, each with the token of the render that made  *)
(* it.  Nothing orders or cancels them: any number is under way when       *)
(* another token is pasted.                                                *)
(*                                                                         *)
(* A token stands for its tenant and for whether its role may read audit   *)
(* events.  Every record has one audit event, which has its name.          *)
(***************************************************************************)
EXTENDS Integers, FiniteSets

CONSTANTS
  Tokens,
  Auditors,     \* tokens whose role may read audit events
  TenantOf,     \* token -> its tenant
  NoToken,
  NotMade,      \* for things that do not exist
  Workflows, Records,
  Calls         \* bound: the asynchronous calls that are under way together

ASSUME ClientAssumption ==
  /\ Auditors \subseteq Tokens
  /\ NoToken \notin Tokens
  /\ \A t \in Tokens : TenantOf[t] # NotMade
  /\ Workflows \cap Records = {}

VARIABLES
  made,         \* workflow or record -> the tenant it was made for
  savedToken,   \* the token in the text area and in localStorage
  workflows,    \* the workflows on display
  audit,        \* the audit events on display
  calls         \* the calls under way: what they fetch, with which token, the answer

display == <<workflows, audit>>
webVars == <<made, savedToken, display, calls>>

Things == Workflows \cup Records
Pending == [status |-> "pending", items |-> {}]
Idle == [fetch |-> "nothing", token |-> NoToken, answer |-> Pending, shown |-> FALSE]

\* A refresh is shown once its workflows are on display, until those of a call with
\* another token replace them.  Kept for the property only.

\* Type invariant.
WebTypeOK ==
  /\ made \in [Things -> {TenantOf[t] : t \in Tokens} \cup {NotMade}]
  /\ savedToken \in Tokens \cup {NoToken}
  /\ workflows \subseteq Workflows /\ audit \subseteq Records
  /\ calls \in [Calls -> [fetch: {"nothing", "create workflow", "create record", "workflows", "audit"},
                          token: Tokens \cup {NoToken},
                          answer: [status: {"pending", "ok", "forbidden", "failed"}, items: SUBSET Things],
                          shown: BOOLEAN]]

Busy(c) == calls[c].fetch # "nothing"

\* A call fetches with the token t.  A refresh starts with the workflows.
Fetching(what, t) == [Idle EXCEPT !.fetch = what, !.token = t]

Of(kind, t) == {x \in kind : made[x] = TenantOf[t]}

\* The token of before is read back, and useEffect refreshes.  The tenants may have
\* workflows already, and records of them.
WebInit ==
  /\ made \in [Things -> {TenantOf[t] : t \in Tokens} \cup {NotMade}]
  /\ \A x \in Records : made[x] # NotMade => \E w \in Workflows : made[w] = made[x]
  /\ savedToken \in Tokens \cup {NoToken}
  /\ workflows = {} /\ audit = {}
  /\ \E first \in Calls :
       calls = [c \in Calls |->
                  IF c = first /\ savedToken # NoToken THEN Fetching("workflows", savedToken) ELSE Idle]

-----------------------------------------------------------------------------
(* What the user does. *)

\* Another token is pasted, or the field emptied; the effect refreshes with it.
SaveToken(t, c) ==
  /\ t # savedToken /\ ~Busy(c)
  /\ savedToken' = t
  /\ IF t = NoToken
     THEN workflows' = {} /\ audit' = {} /\ UNCHANGED calls
     ELSE calls' = [calls EXCEPT ![c] = Fetching("workflows", t)] /\ UNCHANGED display
  /\ UNCHANGED made

Begin(what, c) ==
  /\ ~Busy(c)
  /\ calls' = [calls EXCEPT ![c] = Fetching(what, savedToken)]
  /\ UNCHANGED <<made, savedToken, display>>

\* The buttons are disabled without a token; one asks for a record of a workflow on
\* display, whatever the token is by now.
Refresh(c) == savedToken # NoToken /\ Begin("workflows", c)
CreateWorkflow(c) == savedToken # NoToken /\ Begin("create workflow", c)
CreateRecord(c) == workflows # {} /\ Begin("create record", c)

-----------------------------------------------------------------------------
(* What the server does. *)

Answer(c, status, items) ==
  /\ calls[c].answer.status = "pending"
  /\ calls' = [calls EXCEPT ![c].answer = [status |-> status, items |-> items]]
  /\ UNCHANGED <<savedToken, display>>

\* A record is made of a workflow of the token's tenant.
Make(c, x) ==
  /\ made[x] = NotMade /\ calls[c].token # NoToken
  /\ \/ calls[c].fetch = "create workflow" /\ x \in Workflows
     \/ calls[c].fetch = "create record" /\ x \in Records /\ Of(Workflows, calls[c].token) # {}
  /\ made' = [made EXCEPT ![x] = TenantOf[calls[c].token]]
  /\ Answer(c, "ok", {})

ListWorkflows(c) ==
  /\ calls[c].fetch = "workflows"
  /\ Answer(c, "ok", Of(Workflows, calls[c].token))
  /\ UNCHANGED made

ListAudit(c) ==
  /\ calls[c].fetch = "audit"
  /\ IF calls[c].token \in Auditors
     THEN Answer(c, "ok", Of(Records, calls[c].token))
     ELSE Answer(c, "forbidden", {})
  /\ UNCHANGED made

\* The token has expired, the request is refused, or the server fails.
Refuse(c) ==
  /\ Busy(c)
  /\ Answer(c, "failed", {})
  /\ UNCHANGED made

-----------------------------------------------------------------------------
(* The answers arrive.  The calls that await them go on. *)

Answered(c, what) == calls[c].fetch = what /\ calls[c].answer.status # "pending"

\* The workflows are shown, and the same refresh asks for the audit events.
WorkflowsAnswered(c) ==
  LET answer == calls[c].answer
  IN /\ Answered(c, "workflows")
     /\ workflows' = IF answer.status = "ok" THEN answer.items ELSE workflows
     /\ calls' = [d \in Calls |->
          IF d = c
          THEN [calls[c] EXCEPT !.fetch = "audit", !.answer = Pending, !.shown = answer.status = "ok"]
          ELSE [calls[d] EXCEPT !.shown = @ /\ (answer.status = "ok" => calls[c].token = calls[d].token)]]
     /\ UNCHANGED <<made, savedToken, audit>>

\* Mutant: a 403 leaves the audit events on display.
ShownAfterOk(answer) == IF answer.status = "ok" THEN answer.items ELSE audit

\* A 403 clears the audit events, another error leaves them.
Shown(answer) == IF answer.status \in {"ok", "forbidden"} THEN answer.items ELSE audit

AuditAnswered(c) ==
  /\ Answered(c, "audit")
  /\ audit' = Shown(calls[c].answer)
  /\ calls' = [calls EXCEPT ![c] = Idle]
  /\ UNCHANGED <<made, savedToken, workflows>>

\* After a creation the lists are refreshed with the token of the creation.  React
\* has cleared currentTarget by the time the form of a new workflow is to be reset,
\* and what reset() does then decides whether its refresh follows.
CreateAnswered(c, what) ==
  /\ Answered(c, what)
  /\ \/ /\ calls[c].answer.status = "ok"
        /\ calls' = [calls EXCEPT ![c] = Fetching("workflows", calls[c].token)]
     \/ /\ calls[c].answer.status # "ok" \/ what = "create workflow"
        /\ calls' = [calls EXCEPT ![c] = Idle]
  /\ UNCHANGED <<made, savedToken, display>>

\* fetch rejects, and with it the function that awaits it.  The server may have made
\* the workflow or the record.
Fails(c) ==
  /\ Busy(c)
  /\ calls' = [calls EXCEPT ![c] = Idle]
  /\ UNCHANGED <<made, savedToken, display>>

-----------------------------------------------------------------------------

WebNext ==
  \E c \in Calls :
    \/ \E t \in Tokens \cup {NoToken} : SaveToken(t, c)
    \/ Refresh(c) \/ CreateWorkflow(c) \/ CreateRecord(c)
    \/ \E x \in Things : Make(c, x)
    \/ ListWorkflows(c) \/ ListAudit(c) \/ Refuse(c)
    \/ WorkflowsAnswered(c) \/ AuditAnswered(c)
    \/ \E what \in {"create workflow", "create record"} : CreateAnswered(c, what)
    \/ Fails(c)

WebSpec == WebInit /\ [][WebNext]_webVars

-----------------------------------------------------------------------------

\* Nothing on display that the token may not read.
OnlyOwnShown ==
  /\ savedToken = NoToken => workflows = {} /\ audit = {}
  /\ savedToken # NoToken =>
       /\ workflows \subseteq Of(Workflows, savedToken)
       /\ audit \subseteq (IF savedToken \in Auditors THEN Of(Records, savedToken) ELSE {})

\* The call c has the token that is in the field.
Current(c) == calls[c].token = savedToken

\* A refresh with the token in the field whose answers were both shown, its workflows
\* not replaced since by those of another token, leaves nothing on display that the
\* token may not read: whatever was there before, whatever tokens were pasted in
\* between, and whatever other answers arrived while it was under way.  It stays so
\* until another token is pasted or the answer to a call of another token arrives.
RefreshSettles ==
  [][/\ \A c \in Calls :
          AuditAnswered(c) /\ Current(c) /\ calls[c].shown /\ calls[c].answer.status # "failed"
            => OnlyOwnShown'
     /\ OnlyOwnShown /\ savedToken' = savedToken =>
          \/ OnlyOwnShown'
          \/ \E c \in Calls : ~Current(c) /\ (WorkflowsAnswered(c) \/ AuditAnswered(c))]_webVars
=============================================================================
