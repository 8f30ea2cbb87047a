------------------------------ MODULE Edge_proofs ------------------------------
(***************************************************************************)
(* The edges of the system: the process of the API server as it goes down, *)
(* the approval inbox and the web client, for any number of requests,      *)
(* records, versions, tokens and overlapping calls.                        *)
(*                                                                         *)
(* The three share nothing; each has its invariant and its theorems.  What *)
(* they have in common is that something old is still under way: requests  *)
(* when the signal comes, answers and approvals when the display changes,  *)
(* calls when another token is pasted.  Each invariant says what the old   *)
(* thing may still claim.                                                  *)
(***************************************************************************)
EXTENDS ApiProcess, ApprovalInbox, WebClient, TLAPS

-----------------------------------------------------------------------------
(* The process of the API server. *)

\* The inductive invariant.  The store is closed only behind a drain that is over:
\* no request is left, or the deadline has passed.
ProcessInv ==
  /\ ProcessTypeOK
  /\ OnlyOverdueRequestsFail
  /\ process = "starting" => Running = {}
  /\ process \in {"closing", "closed"} => overdue \/ Running = {}

\* main() starts with no request and no store.
LEMMA ProcessStarts == ProcessInit => ProcessInv
BY DEF ProcessInit, ProcessInv, ProcessTypeOK, OnlyOverdueRequestsFail, Running

\* The steps of main(): the store is closed only behind the drain, and what the
\* return of main() cuts off had outlasted it.
LEMMA MainKeeps == ProcessInv /\ Main => ProcessInv'
<1> SUFFICES ASSUME ProcessInv, Main PROVE ProcessInv'
  OBVIOUS
<1> USE DEF ProcessInv
<1>1. CASE Start \/ Shutdown \/ Drained \/ DrainDeadline \/ CloseStore
  BY <1>1 DEF Start, Shutdown, Drained, DrainDeadline, CloseStore, ProcessTypeOK,
              OnlyOverdueRequestsFail, Running
<1>2. CASE Return
  <2>1. ProcessTypeOK'
    BY <1>2 DEF Return, Exit, ProcessTypeOK
  <2>2. ASSUME NEW r \in Requests
        PROVE  /\ request'[r] = "failed" => overdue'
               /\ request'[r] = "cut off" => overdue' \/ fatal'
    BY <1>2 DEF Return, Exit, ProcessTypeOK, OnlyOverdueRequestsFail, Running
  <2>3. process' = "exited"
    BY <1>2 DEF Return, Exit
  <2> QED
    BY <2>1, <2>2, <2>3 DEF OnlyOverdueRequestsFail
<1> QED
  BY <1>1, <1>2 DEF Main

\* log.Fatal cuts off what it likes, and says so.
LEMMA FatalKeeps == ProcessInv /\ Fatal => ProcessInv'
<1> SUFFICES ASSUME ProcessInv, Fatal PROVE ProcessInv'
  OBVIOUS
<1>1. ProcessTypeOK' /\ fatal' /\ process' = "exited"
  BY DEF ProcessInv, Fatal, Exit, ProcessTypeOK
<1>2. ASSUME NEW r \in Requests PROVE request'[r] = "failed" => overdue'
  BY DEF ProcessInv, Fatal, Exit, ProcessTypeOK, OnlyOverdueRequestsFail, Running
<1> QED
  BY <1>1, <1>2 DEF ProcessInv, OnlyOverdueRequestsFail

\* A handler that finds the store closed outlasted the drain: it is running, so that
\* the process is past its start, and the store of a process that serves or drains
\* is open.
LEMMA RequestsKeep ==
  ASSUME ProcessInv, NEW r \in Requests, Arrive(r) \/ Handle(r) \/ HandleLate(r)
  PROVE  ProcessInv'
<1> USE DEF ProcessInv
<1>1. CASE Arrive(r)
  BY <1>1 DEF Arrive, ProcessTypeOK, OnlyOverdueRequestsFail, Running
<1>2. CASE Handle(r) \/ HandleLate(r)
  <2>1. /\ r \in Running /\ process \notin {"starting", "exited"}
        /\ UNCHANGED <<process, signalled, storeOpen, overdue, fatal>>
    BY <1>2 DEF Handle, HandleLate
  <2>2. storeOpen \/ overdue
    BY <2>1 DEF ProcessTypeOK
  <2>3. PICK result \in {"answered", "failed", "timed out"} :
          /\ request' = [request EXCEPT ![r] = result]
          /\ result = "failed" => overdue
    BY <1>2, <2>2 DEF Handle, HandleLate
  <2>4. ProcessTypeOK'
    BY <2>1, <2>3 DEF ProcessTypeOK
  <2>5. OnlyOverdueRequestsFail'
    BY <2>1, <2>3 DEF ProcessTypeOK, OnlyOverdueRequestsFail
  <2>6. Running' \subseteq Running
    BY <2>3 DEF ProcessTypeOK, Running
  <2> QED
    BY <2>1, <2>4, <2>5, <2>6
<1> QED
  BY <1>1, <1>2

\* The invariant is kept by every step.
LEMMA ProcessInvariance == ProcessSpec => []ProcessInv
<1>1. ProcessInv /\ [ProcessNext]_processVars => ProcessInv'
  <2> SUFFICES ASSUME ProcessInv, [ProcessNext]_processVars PROVE ProcessInv'
    OBVIOUS
  <2>1. CASE Main
    BY <2>1, MainKeeps
  <2>2. CASE Fatal
    BY <2>2, FatalKeeps
  <2>3. CASE Signal \/ UNCHANGED processVars
    <3>1. /\ UNCHANGED <<process, storeOpen, request, overdue, fatal>>
          /\ signalled' \in BOOLEAN
      BY <2>3 DEF Signal, processVars, ProcessInv, ProcessTypeOK
    <3>2. ProcessTypeOK' /\ OnlyOverdueRequestsFail' /\ Running' = Running
      BY <3>1 DEF ProcessInv, ProcessTypeOK, OnlyOverdueRequestsFail, Running
    <3> QED
      BY <3>1, <3>2 DEF ProcessInv
  <2>4. ASSUME NEW r \in Requests, Arrive(r) \/ Handle(r) \/ HandleLate(r)
        PROVE  ProcessInv'
    BY <2>4, RequestsKeep
  <2> QED
    BY <2>1, <2>2, <2>3, <2>4 DEF ProcessNext
<1> QED
  BY <1>1, ProcessStarts, PTL DEF ProcessSpec

\* Whenever the signal comes, only requests that outlast the deadline of Shutdown
\* find the store closed, and only they, and those of a process that log.Fatal ends,
\* are cut off.
THEOREM OnlyOverdueEverFail == ProcessSpec => []OnlyOverdueRequestsFail
BY ProcessInvariance, PTL DEF ProcessInv

\* Every variable keeps its type, and the store is open while requests are served
\* and drained.
THEOREM ProcessTypeCorrect == ProcessSpec => []ProcessTypeOK
BY ProcessInvariance, PTL DEF ProcessInv

-----------------------------------------------------------------------------
(* The approval inbox. *)

\* What has been listed was submitted in the version it was listed with, and is so
\* until the record has a later version.
Offered(item) ==
  /\ item \in Listed
  /\ item.version <= records[item.id].version
  /\ item.version = records[item.id].version => records[item.id].state = Submitted

\* The version is history.
Superseded(item) == item \in Listed /\ item.version < records[item.id].version

\* The inductive invariant: it is about every copy of a listed record, wherever it
\* is by now.
InboxInv ==
  /\ InboxTypeOK
  /\ \A item \in shown \cup refresh.items : Offered(item)
  /\ \A update \in lost : Offered(update.record)
  /\ approval.step # "idle" => Offered(approval.record)
  /\ approval.step = "idle" => approval = NoApproval
  /\ approval.step = "approved" => Superseded(approval.record)
  /\ \A item \in approvedAt : Superseded(item)
  /\ refresh.step \in {"idle", "sent", "refused"} => refresh.items = {}

\* What the invariant needs of the variables that a step leaves alone.
LEMMA OfferedStays ==
  ASSUME NEW item, Offered(item), UNCHANGED records
  PROVE  Offered(item)'
BY DEF Offered, Listed

\* A new version makes no listed record wrong: it is another version than any that
\* was listed, and history stays history.
LEMMA PutKeeps ==
  ASSUME InboxTypeOK, NEW id \in Ids, NEW state \in States, Put(id, state)
  PROVE  /\ records' \in [Ids -> [state: States, version: 0..MaxVersion]]
         /\ \A item : Offered(item) => Offered(item)'
         /\ \A item : Superseded(item) => Superseded(item)'
         /\ \A item : Offered(item) /\ item.id = id => Superseded(item)'
<1>1. PICK n \in 0..MaxVersion : n = records[id].version
  BY DEF InboxTypeOK
<1>2. n + 1 \in 0..MaxVersion /\ n \in Nat /\ n < n + 1
  BY <1>1, InboxAssumption DEF Put
<1>3. records' = [records EXCEPT ![id] = [state |-> state, version |-> n + 1]]
  BY <1>1 DEF Put
<1>4. records' \in [Ids -> [state: States, version: 0..MaxVersion]]
  BY <1>2, <1>3 DEF InboxTypeOK
<1>5. records'[id].version = n + 1
  BY <1>3 DEF InboxTypeOK
<1>6. \A d \in Ids \ {id} : records'[d] = records[d]
  BY <1>3 DEF InboxTypeOK
<1>7. ASSUME NEW item, item \in Listed, item.version <= records[item.id].version, item.id = id
      PROVE  Offered(item)' /\ Superseded(item)'
  <2>1. item.version \in Int /\ item.version < n + 1
    BY <1>1, <1>2, <1>7 DEF Listed
  <2>2. item.version # records'[item.id].version /\ item.version <= records'[item.id].version
    BY <2>1, <1>2, <1>5, <1>7
  <2> QED
    BY <1>7, <2>1, <2>2, <1>5 DEF Offered, Superseded, Listed
<1>8. ASSUME NEW item, item \in Listed, item.id # id
      PROVE  /\ Offered(item) => Offered(item)'
             /\ Superseded(item) => Superseded(item)'
  BY <1>8, <1>6 DEF Offered, Superseded, Listed
<1>9. \A item : Superseded(item) => item.version <= records[item.id].version
  <2> SUFFICES ASSUME NEW item, Superseded(item) PROVE item.version <= records[item.id].version
    OBVIOUS
  <2>1. item.version \in Int /\ records[item.id].version \in Int
    BY DEF Superseded, Listed, InboxTypeOK
  <2> QED
    BY <2>1 DEF Superseded
<1> QED
  BY <1>4, <1>7, <1>8, <1>9 DEF Offered, Superseded

\* Nothing is listed, nothing is approved.
LEMMA InboxStarts == InboxInit => InboxInv
BY InboxAssumption
DEF InboxInit, InboxInv, InboxTypeOK, NoRefresh, NoApproval

\* Others change records; the copies of what was listed before are history then.
LEMMA ChangeKeeps ==
  ASSUME InboxInv, NEW id \in Ids, NEW state \in States, Change(id, state)
  PROVE  InboxInv'
<1>1. Put(id, state) /\ UNCHANGED <<token, shown, refresh, approval, lost, approvedAt>>
  BY DEF Change, inbox
<1>2. InboxTypeOK
  BY DEF InboxInv
<1>3. /\ records' \in [Ids -> [state: States, version: 0..MaxVersion]]
      /\ \A item : Offered(item) => Offered(item)'
      /\ \A item : Superseded(item) => Superseded(item)'
  BY <1>1, <1>2, PutKeeps
<1>4. InboxTypeOK'
  BY <1>1, <1>2, <1>3 DEF InboxTypeOK
<1> QED
  BY <1>1, <1>3, <1>4 DEF InboxInv

\* The server lists what is submitted now, in its version of now.
LEMMA ListRecordsKeeps == InboxInv /\ ListRecords => InboxInv'
<1> SUFFICES ASSUME InboxInv, ListRecords PROVE InboxInv'
  OBVIOUS
<1> DEFINE submitted == {id \in Ids : /\ OwnerOf[id] = refresh.token
                                      /\ records[id].version > 0
                                      /\ records[id].state = Submitted}
           items == {[id |-> id, version |-> records[id].version] : id \in submitted}
<1>1. /\ refresh.step = "sent" /\ refresh.items = {}
      /\ UNCHANGED <<records, token, shown, approval, lost, approvedAt>>
  BY DEF InboxInv, ListRecords
<1>2. \/ refresh' = [refresh EXCEPT !.step = "refused"]
      \/ refresh' = [refresh EXCEPT !.step = "listed", !.items = items]
  BY DEF ListRecords
<1>3. ASSUME NEW item \in items PROVE Offered(item)
  <2>1. PICK id \in submitted : item = [id |-> id, version |-> records[id].version]
    BY <1>3
  <2>2. PICK n \in 0..MaxVersion : n = records[id].version
    BY DEF InboxInv, InboxTypeOK
  <2>3. n \in 1..MaxVersion /\ n <= n /\ item = [id |-> id, version |-> n]
    BY <2>1, <2>2
  <2>4. item \in Listed
    BY <2>3 DEF Listed
  <2> QED
    BY <2>1, <2>2, <2>3, <2>4 DEF Offered
<1>4. items \subseteq Listed
  BY <1>3 DEF Offered
<1> HIDE DEF items
<1>5. /\ InboxTypeOK'
      /\ refresh'.items \in {{}, items}
      /\ refresh'.step \in {"refused", "listed"}
      /\ refresh'.step = "refused" => refresh'.items = {}
  BY <1>1, <1>2, <1>4 DEF InboxInv, InboxTypeOK
<1>6. \A item \in shown' \cup refresh'.items : Offered(item)'
  BY <1>1, <1>3, <1>5, OfferedStays DEF InboxInv
<1> QED
  BY <1>1, <1>5, <1>6 DEF InboxInv, Offered, Superseded, Listed

\* What goes on in the app changes no record: it moves copies of what was listed,
\* and reports what the server said.
LEMMA AppKeeps ==
  ASSUME InboxInv,
         \/ \E t \in Tenants \cup {NoTenant} : SetToken(t)
         \/ RefreshInbox \/ RefreshAnswered \/ RefreshFailed
         \/ \E record \in shown : Approve(record)
         \/ ApproveAnswered \/ ApproveFailed
         \/ UNCHANGED inboxVars
  PROVE  InboxInv'
<1>1. ASSUME NEW t \in Tenants \cup {NoTenant}, SetToken(t) PROVE InboxInv'
  BY <1>1 DEF InboxInv, InboxTypeOK, SetToken, inbox, Offered, Superseded, Listed
<1>2. CASE RefreshInbox
  BY <1>2 DEF InboxInv, InboxTypeOK, RefreshInbox, NoRefresh, Offered, Superseded, Listed
<1>3. CASE RefreshAnswered \/ RefreshFailed
  BY <1>3 DEF InboxInv, InboxTypeOK, RefreshAnswered, RefreshFailed, NoRefresh, Offered,
              Superseded, Listed
<1>4. ASSUME NEW record \in shown, Approve(record) PROVE InboxInv'
  BY <1>4 DEF InboxInv, InboxTypeOK, Approve, Offered, Superseded, Listed
<1>5. CASE ApproveAnswered
  BY <1>5 DEF InboxInv, InboxTypeOK, ApproveAnswered, NoApproval, Offered, Superseded, Listed
<1>6. CASE ApproveFailed
  BY <1>6 DEF InboxInv, InboxTypeOK, ApproveFailed, NoApproval, Offered, Superseded, Listed
<1>7. CASE UNCHANGED inboxVars
  BY <1>7 DEF InboxInv, InboxTypeOK, inboxVars, inbox, Offered, Superseded, Listed
<1> QED
  BY <1>1, <1>2, <1>3, <1>4, <1>5, <1>6, <1>7

\* An approval that the server makes, awaited or not, is of a submitted record of its
\* token's tenant, and its version is history then.
LEMMA ApplyKeeps ==
  ASSUME InboxInv, NEW update, Offered(update.record), Apply(update)
  PROVE  /\ records' \in [Ids -> [state: States, version: 0..MaxVersion]]
         /\ \A item : Offered(item) => Offered(item)'
         /\ \A item : Superseded(item) => Superseded(item)'
         /\ Superseded(update.record)'
<1>1. update.record.id \in Ids /\ Approved \in States
  BY InboxAssumption DEF Offered, Listed
<1> QED
  BY <1>1, PutKeeps DEF Apply, InboxInv

\* The server answers an approval, or makes one that nobody waits for.
LEMMA UpdateRecordKeeps == InboxInv /\ UpdateRecord => InboxInv'
<1> SUFFICES ASSUME InboxInv, UpdateRecord PROVE InboxInv'
  OBVIOUS
<1>1. /\ approval.step = "sent" /\ Offered(approval.record)
      /\ UNCHANGED <<token, shown, refresh, lost, approvedAt>>
  BY DEF InboxInv, UpdateRecord
<1>2. CASE Apply(approval) /\ approval' = [approval EXCEPT !.step = "approved"]
  <2>1. /\ records' \in [Ids -> [state: States, version: 0..MaxVersion]]
        /\ \A item : Offered(item) => Offered(item)'
        /\ \A item : Superseded(item) => Superseded(item)'
        /\ Superseded(approval.record)'
    BY <1>1, <1>2, ApplyKeeps
  <2>2. approval'.step = "approved" /\ approval'.record = approval.record
    BY <1>2 DEF InboxInv, InboxTypeOK
  <2>3. InboxTypeOK'
    BY <1>1, <1>2, <2>1 DEF InboxInv, InboxTypeOK
  <2> QED
    BY <1>1, <2>1, <2>2, <2>3 DEF InboxInv
<1>3. CASE UNCHANGED records /\ approval' = [approval EXCEPT !.step = "refused"]
  BY <1>1, <1>3 DEF InboxInv, InboxTypeOK, Offered, Superseded, Listed
<1> QED
  BY <1>2, <1>3 DEF UpdateRecord

\* The server makes an approval that nobody waits for any more.
LEMMA UpdateLateKeeps ==
  ASSUME InboxInv, NEW update \in lost, UpdateLate(update)
  PROVE  InboxInv'
<1>1. /\ records' \in [Ids -> [state: States, version: 0..MaxVersion]]
      /\ \A item : Offered(item) => Offered(item)'
      /\ \A item : Superseded(item) => Superseded(item)'
  BY ApplyKeeps DEF InboxInv, UpdateLate
<1>2. lost' \subseteq lost /\ UNCHANGED <<token, shown, refresh, approval, approvedAt>>
  BY DEF UpdateLate
<1>3. InboxTypeOK'
  BY <1>1, <1>2 DEF InboxInv, InboxTypeOK
<1> QED
  BY <1>1, <1>2, <1>3 DEF InboxInv

\* The invariant is kept by every step.
LEMMA InboxInvariance == InboxSpec => []InboxInv
<1>1. InboxInv /\ [InboxNext]_inboxVars => InboxInv'
  BY ChangeKeeps, ListRecordsKeeps, AppKeeps, UpdateRecordKeeps, UpdateLateKeeps DEF InboxNext
<1> QED
  BY <1>1, InboxStarts, PTL DEF InboxSpec

\* Every variable of the inbox keeps its type.
THEOREM InboxTypeCorrect == InboxSpec => []InboxTypeOK
BY InboxInvariance, PTL DEF InboxInv

\* However late the tap and the update, and whatever token was pasted meanwhile, an
\* approval only approves a record that is submitted at that moment, in the version
\* that was shown, and that belongs to the tenant of the token it was sent with.
THEOREM AlwaysApprovesWhatWasShown == InboxSpec => ApprovesWhatWasShown
<1> DEFINE Good == \A id \in Ids : \A update \in lost \cup {approval} :
                     update.record.id = id /\ Apply(update) =>
                       /\ records[id].state = Submitted
                       /\ OwnerOf[id] = update.token
<1>1. InboxInv => Good
  <2> SUFFICES ASSUME InboxInv, NEW id \in Ids, NEW update \in lost \cup {approval},
                      update.record.id = id, Apply(update)
               PROVE  records[id].state = Submitted /\ OwnerOf[id] = update.token
    OBVIOUS
  <2>1. OwnerOf[id] = update.token /\ records[id].version = update.record.version
    BY DEF Apply, IfMatch
  <2>2. CASE Offered(update.record)
    BY <2>1, <2>2 DEF Offered
  <2>3. CASE update = approval /\ approval.step = "idle"
    <3>1. update.token = NoTenant
      BY <2>3 DEF InboxInv, NoApproval
    <3> QED
      BY <2>1, <3>1, InboxAssumption
  <2> QED
    BY <2>2, <2>3 DEF InboxInv
<1>2. InboxInv /\ [InboxNext]_inboxVars => [Good]_inboxVars
  BY <1>1
<1> QED
  BY <1>2, InboxInvariance, PTL DEF InboxSpec, ApprovesWhatWasShown

\* A list that the server makes after an approval was reported no longer has the
\* approved version: the approval was made, and the next refresh corrects a stale
\* display.
THEOREM RefreshAlwaysCorrects == InboxSpec => RefreshCorrects
<1> DEFINE Good == ListRecords => refresh'.items \cap approvedAt = {}
<1>1. InboxInv => Good
  <2> SUFFICES ASSUME InboxInv, ListRecords, NEW item \in refresh'.items, item \in approvedAt
               PROVE  FALSE
    OBVIOUS
  <2> DEFINE submitted == {id \in Ids : /\ OwnerOf[id] = refresh.token
                                        /\ records[id].version > 0
                                        /\ records[id].state = Submitted}
             items == {[id |-> id, version |-> records[id].version] : id \in submitted}
  <2>1. refresh.items = {} /\ refresh'.items \in {refresh.items, items}
    <3>1. \/ refresh' = [refresh EXCEPT !.step = "refused"]
          \/ refresh' = [refresh EXCEPT !.step = "listed", !.items = items]
      BY DEF ListRecords
    <3> HIDE DEF items
    <3> QED
      BY <3>1 DEF InboxInv, InboxTypeOK, ListRecords
  <2>2. item.version = records[item.id].version /\ item.id \in Ids
    BY <2>1
  <2>3. item.version < records[item.id].version
    BY DEF InboxInv, Superseded
  <2>4. records[item.id].version \in Int
    BY <2>2 DEF InboxInv, InboxTypeOK
  <2> QED
    BY <2>2, <2>3, <2>4
<1>2. InboxInv /\ [InboxNext]_inboxVars => [Good]_inboxVars
  BY <1>1
<1> QED
  BY <1>2, InboxInvariance, PTL DEF InboxSpec, RefreshCorrects

-----------------------------------------------------------------------------
(* The web client. *)

\* A call that is refreshing has a token, and so has one that made something.
HasToken(c) ==
  \/ calls[c].fetch \in {"workflows", "audit"}
  \/ calls[c].fetch \in {"create workflow", "create record"} /\ calls[c].answer.status = "ok"
  => calls[c].token \in Tokens

\* What an answer lists is its token's, and stays so: nothing changes its tenant.
AnswersItsToken(c) ==
  LET answer == calls[c].answer
  IN /\ answer.status # "ok" => answer.items = {}
     /\ calls[c].fetch = "workflows" => answer.items \subseteq Of(Workflows, calls[c].token)
     /\ calls[c].fetch = "audit" =>
          answer.items \subseteq
            (IF calls[c].token \in Auditors THEN Of(Records, calls[c].token) ELSE {})

\* While a refresh is shown, the workflows on display are its token's, whichever call
\* put them there.
KeepsShown(c) ==
  calls[c].shown => calls[c].fetch = "audit" /\ workflows \subseteq Of(Workflows, calls[c].token)

\* The inductive invariant.
WebInv ==
  /\ WebTypeOK
  /\ \A c \in Calls : HasToken(c) /\ AnswersItsToken(c) /\ KeepsShown(c)

\* The calls that there are.
CallRecords ==
  [fetch: {"nothing", "create workflow", "create record", "workflows", "audit"},
   token: Tokens \cup {NoToken},
   answer: [status: {"pending", "ok", "forbidden", "failed"}, items: SUBSET Things],
   shown: BOOLEAN]

\* What a call begins with.
Beginnings == {"create workflow", "create record", "workflows"}

\* The fields of a call that begins.
LEMMA FetchingFields ==
  ASSUME NEW t \in Tokens \cup {NoToken}, NEW what \in Beginnings
  PROVE  /\ Fetching(what, t) \in CallRecords
         /\ Fetching(what, t).fetch = what /\ Fetching(what, t).token = t
         /\ Fetching(what, t).answer.status = "pending" /\ Fetching(what, t).answer.items = {}
         /\ Fetching(what, t).shown = FALSE
<1>1. /\ Pending.status = "pending" /\ Pending.items = {}
      /\ Pending \in [status: {"pending", "ok", "forbidden", "failed"}, items: SUBSET Things]
  BY DEF Pending
<1>2. Idle \in [fetch: {"nothing"}, token: {NoToken}, answer: {Pending}, shown: {FALSE}]
  BY DEF Idle
<1>3. Fetching(what, t) \in [fetch: {what}, token: {t}, answer: {Pending}, shown: {FALSE}]
  BY <1>2 DEF Fetching
<1> QED
  BY <1>1, <1>3 DEF Beginnings, CallRecords

\* What was made stays made, for the same tenant.
OnlyMakes ==
  /\ made' \in [Things -> {TenantOf[t] : t \in Tokens} \cup {NotMade}]
  /\ \A x \in Things : made[x] # NotMade => made'[x] = made[x]

\* What a token's tenant has, it keeps.
LEMMA OfGrows ==
  ASSUME OnlyMakes, NEW t \in Tokens
  PROVE  /\ Of(Workflows, t) \subseteq Of(Workflows, t)'
         /\ Of(Records, t) \subseteq Of(Records, t)'
BY ClientAssumption DEF OnlyMakes, Of, Things

\* A call that is left what it was, but for being shown, keeps what it had.
Left(d) ==
  /\ calls'[d].fetch = calls[d].fetch /\ calls'[d].token = calls[d].token
  /\ calls'[d].answer = calls[d].answer
  /\ calls'[d].shown => calls[d].shown
  /\ calls'[d].shown => workflows' \subseteq workflows \cup Of(Workflows, calls[d].token)

\* Whoever takes a step, it is enough to look at the calls that it changes.
LEMMA TheRestHolds ==
  ASSUME WebInv, OnlyMakes, savedToken' \in Tokens \cup {NoToken},
         workflows' \subseteq Workflows, audit' \subseteq Records,
         calls' \in [Calls -> CallRecords],
         \A d \in Calls : Left(d) \/ (HasToken(d) /\ AnswersItsToken(d) /\ KeepsShown(d))'
  PROVE  WebInv'
<1>1. WebTypeOK'
  BY DEF WebTypeOK, CallRecords, OnlyMakes
<1>2. ASSUME NEW d \in Calls, Left(d)
      PROVE  (HasToken(d) /\ AnswersItsToken(d) /\ KeepsShown(d))'
  <2>1. HasToken(d) /\ AnswersItsToken(d) /\ KeepsShown(d)
    BY DEF WebInv
  <2>2. HasToken(d)'
    BY <1>2, <2>1 DEF Left, HasToken
  <2>3. CASE calls[d].fetch \in {"workflows", "audit"}
    <3>1. calls[d].token \in Tokens
      BY <2>1, <2>3 DEF HasToken
    <3>2. /\ Of(Workflows, calls[d].token) \subseteq {x \in Workflows : made'[x] = TenantOf[calls[d].token]}
          /\ Of(Records, calls[d].token) \subseteq {x \in Records : made'[x] = TenantOf[calls[d].token]}
      BY <3>1, OfGrows DEF Of
    <3>3. AnswersItsToken(d)'
      BY <1>2, <2>1, <3>2 DEF Left, AnswersItsToken, Of
    <3>4. KeepsShown(d)'
      BY <1>2, <2>1, <3>2 DEF Left, KeepsShown, Of
    <3> QED
      BY <2>2, <3>3, <3>4
  <2>4. CASE calls[d].fetch \notin {"workflows", "audit"}
    <3>1. AnswersItsToken(d)'
      BY <1>2, <2>1, <2>4 DEF Left, AnswersItsToken
    <3>2. KeepsShown(d)'
      BY <1>2, <2>1, <2>4 DEF Left, KeepsShown
    <3> QED
      BY <2>2, <3>1, <3>2
  <2> QED
    BY <2>3, <2>4
<1> QED
  BY <1>1, <1>2 DEF WebInv

\* The same for a step of one call that leaves the workflows on display.
LEMMA OneCall ==
  ASSUME WebInv, NEW c \in Calls, NEW new \in CallRecords,
         calls' = [calls EXCEPT ![c] = new],
         OnlyMakes, savedToken' \in Tokens \cup {NoToken},
         workflows' \subseteq workflows, audit' \subseteq Records,
         HasToken(c)', AnswersItsToken(c)', KeepsShown(c)'
  PROVE  WebInv'
<1>1. calls \in [Calls -> CallRecords] /\ workflows \subseteq Workflows
  BY DEF WebInv, WebTypeOK, CallRecords
<1>2. calls' \in [Calls -> CallRecords] /\ \A d \in Calls \ {c} : calls'[d] = calls[d]
  BY <1>1
<1>3. \A d \in Calls \ {c} : Left(d)
  BY <1>2 DEF Left
<1> QED
  BY <1>1, <1>2, <1>3, TheRestHolds

\* No call but the first refresh is under way, with the token that was read back.
LEMMA WebStarts == WebInit => WebInv
<1> SUFFICES ASSUME WebInit PROVE WebInv
  OBVIOUS
<1>1. PICK first \in Calls :
        calls = [c \in Calls |->
                   IF c = first /\ savedToken # NoToken THEN Fetching("workflows", savedToken) ELSE Idle]
  BY DEF WebInit
<1>2. /\ made \in [Things -> {TenantOf[t] : t \in Tokens} \cup {NotMade}]
      /\ savedToken \in Tokens \cup {NoToken} /\ workflows = {} /\ audit = {}
  BY DEF WebInit
<1>3. /\ Idle \in CallRecords /\ Idle.fetch = "nothing" /\ Idle.shown = FALSE
      /\ Idle.answer.status = "pending" /\ Idle.answer.items = {}
  BY DEF Idle, Pending, CallRecords
<1> DEFINE reading == Fetching("workflows", savedToken)
<1>4. /\ reading \in CallRecords /\ reading.fetch = "workflows" /\ reading.token = savedToken
      /\ reading.answer.status = "pending" /\ reading.answer.items = {} /\ reading.shown = FALSE
  BY <1>2, FetchingFields DEF Beginnings
<1> HIDE DEF reading
<1>5. calls = [c \in Calls |-> IF c = first /\ savedToken # NoToken THEN reading ELSE Idle]
  BY <1>1 DEF reading
<1>6. calls \in [Calls -> CallRecords]
  BY <1>3, <1>4, <1>5
<1>7. WebTypeOK
  BY <1>2, <1>6 DEF WebTypeOK, CallRecords
<1>8. ASSUME NEW c \in Calls
      PROVE  HasToken(c) /\ AnswersItsToken(c) /\ KeepsShown(c)
  <2>1. calls[c] = Idle \/ (savedToken \in Tokens /\ calls[c] = reading)
    BY <1>2, <1>5
  <2> QED
    BY <2>1, <1>3, <1>4 DEF HasToken, AnswersItsToken, KeepsShown
<1> QED
  BY <1>7, <1>8 DEF WebInv

\* A call begins, with whatever token.
LEMMA BeginKeeps ==
  ASSUME WebInv, NEW c \in Calls, NEW t \in Tokens \cup {NoToken},
         NEW what \in Beginnings, what = "workflows" => t # NoToken,
         calls' = [calls EXCEPT ![c] = Fetching(what, t)],
         savedToken' \in Tokens \cup {NoToken}, UNCHANGED <<made, display>>
  PROVE  WebInv'
<1>1. PICK new : new = Fetching(what, t)
  OBVIOUS
<1>2. /\ new \in CallRecords /\ new.fetch = what /\ new.token = t
      /\ new.answer.status = "pending" /\ new.answer.items = {} /\ new.shown = FALSE
  BY <1>1, FetchingFields
<1>3. calls' = [calls EXCEPT ![c] = new]
  BY <1>1
<1>4. calls'[c] = new
  BY <1>3 DEF WebInv, WebTypeOK
<1>5. HasToken(c)' /\ AnswersItsToken(c)' /\ KeepsShown(c)'
  BY <1>2, <1>4 DEF HasToken, AnswersItsToken, KeepsShown, Beginnings
<1>6. OnlyMakes /\ audit' \subseteq Records /\ workflows' = workflows
  BY DEF OnlyMakes, WebInv, WebTypeOK, display
<1> QED
  BY <1>2, <1>3, <1>5, <1>6, OneCall

\* Another token starts a refresh, or none clears the display.
LEMMA SaveTokenKeeps ==
  ASSUME WebInv, NEW t \in Tokens \cup {NoToken}, NEW c \in Calls, SaveToken(t, c)
  PROVE  WebInv'
<1>1. CASE t = NoToken
  <2>1. workflows' = {} /\ audit' = {} /\ UNCHANGED <<calls, made>> /\ savedToken' = t
    BY <1>1 DEF SaveToken
  <2>2. OnlyMakes /\ calls' \in [Calls -> CallRecords]
    BY <2>1 DEF WebInv, WebTypeOK, CallRecords, OnlyMakes
  <2>3. \A d \in Calls : Left(d)
    BY <2>1 DEF Left
  <2> QED
    BY <2>1, <2>2, <2>3, TheRestHolds
<1>2. CASE t # NoToken
  BY <1>2, BeginKeeps DEF SaveToken, Beginnings
<1> QED
  BY <1>1, <1>2

\* A call is over.
LEMMA EndKeeps ==
  ASSUME WebInv, NEW c \in Calls, calls' = [calls EXCEPT ![c] = Idle],
         UNCHANGED <<made, savedToken, workflows>>, audit' \subseteq Records
  PROVE  WebInv'
<1>1. /\ Idle \in CallRecords /\ Idle.fetch = "nothing" /\ Idle.shown = FALSE
      /\ Idle.answer.status = "pending" /\ Idle.answer.items = {}
  BY DEF Idle, Pending, CallRecords
<1>2. calls'[c] = Idle
  BY DEF WebInv, WebTypeOK
<1>3. HasToken(c)' /\ AnswersItsToken(c)' /\ KeepsShown(c)'
  BY <1>1, <1>2 DEF HasToken, AnswersItsToken, KeepsShown
<1>4. OnlyMakes /\ savedToken' \in Tokens \cup {NoToken}
  BY DEF OnlyMakes, WebInv, WebTypeOK
<1> QED
  BY <1>1, <1>3, <1>4, OneCall

\* The server answers a call; what it lists is of the call's token.
LEMMA AnswerKeeps ==
  ASSUME WebInv, NEW c \in Calls, NEW status \in {"ok", "forbidden", "failed"},
         NEW items \in SUBSET Things, Answer(c, status, items), OnlyMakes,
         status = "ok" => calls[c].token \in Tokens,
         status # "ok" => items = {},
         calls[c].fetch = "workflows" => items \subseteq Of(Workflows, calls[c].token),
         calls[c].fetch = "audit" =>
           items \subseteq
             (IF calls[c].token \in Auditors THEN Of(Records, calls[c].token) ELSE {})
  PROVE  WebInv'
<1> DEFINE new == [calls[c] EXCEPT !.answer = [status |-> status, items |-> items]]
<1>1. calls \in [Calls -> CallRecords]
  BY DEF WebInv, WebTypeOK, CallRecords
<1>2. /\ new \in CallRecords /\ new.fetch = calls[c].fetch /\ new.token = calls[c].token
      /\ new.answer.status = status /\ new.answer.items = items
      /\ new.shown = calls[c].shown
  BY <1>1 DEF CallRecords
<1>3. calls' = [calls EXCEPT ![c] = new] /\ UNCHANGED <<savedToken, workflows, audit>>
  BY DEF Answer, display
<1> HIDE DEF new
<1>4. calls'[c] = new
  BY <1>1, <1>3
<1>5. HasToken(c)'
  BY <1>2, <1>4 DEF WebInv, HasToken
<1>6. AnswersItsToken(c)' /\ KeepsShown(c)'
  <2>1. CASE calls[c].fetch \in {"workflows", "audit"}
    <3>1. calls[c].token \in Tokens
      BY <2>1 DEF WebInv, HasToken
    <3>2. \A kind \in {Workflows, Records} :
            Of(kind, calls[c].token) \subseteq {x \in kind : made'[x] = TenantOf[new.token]}
      BY <1>2, <3>1, OfGrows DEF Of
    <3>3. AnswersItsToken(c)'
      BY <1>2, <1>4, <3>2 DEF AnswersItsToken, Of
    <3>4. KeepsShown(c)'
      BY <1>2, <1>3, <1>4, <3>2 DEF WebInv, KeepsShown, Of
    <3> QED
      BY <3>3, <3>4
  <2>2. CASE calls[c].fetch \notin {"workflows", "audit"}
    BY <1>2, <1>4, <2>2 DEF WebInv, AnswersItsToken, KeepsShown
  <2> QED
    BY <2>1, <2>2
<1>7. audit' \subseteq Records /\ workflows' = workflows /\ savedToken' \in Tokens \cup {NoToken}
  BY <1>3 DEF WebInv, WebTypeOK
<1> QED
  BY <1>2, <1>3, <1>5, <1>6, <1>7, OneCall

\* What a server step may do to the things that were made.
LEMMA Making ==
  ASSUME WebInv, NEW x \in Things, NEW t \in Tokens, made[x] = NotMade,
         made' = [made EXCEPT ![x] = TenantOf[t]]
  PROVE  OnlyMakes
BY DEF WebInv, WebTypeOK, OnlyMakes

\* The answers of the server.
LEMMA ServerKeeps ==
  ASSUME WebInv, NEW c \in Calls,
         \/ \E x \in Things : Make(c, x)
         \/ ListWorkflows(c) \/ ListAudit(c) \/ Refuse(c)
  PROVE  WebInv'
<1>1. calls[c] \in CallRecords
  BY DEF WebInv, WebTypeOK, CallRecords
<1>2. UNCHANGED made => OnlyMakes
  BY DEF WebInv, WebTypeOK, OnlyMakes
<1>3. /\ {} \in SUBSET Things
      /\ \A t : Of(Workflows, t) \in SUBSET Things /\ Of(Records, t) \in SUBSET Things
  BY DEF Of, Things
<1>4. ASSUME NEW x \in Things, Make(c, x) PROVE WebInv'
  <2>1. calls[c].token \in Tokens
    BY <1>1, <1>4 DEF Make, CallRecords
  <2>2. OnlyMakes
    BY <1>4, <2>1, Making DEF Make
  <2>3. calls[c].fetch \in {"create workflow", "create record"} /\ Answer(c, "ok", {})
    BY <1>4 DEF Make
  <2> QED
    BY <1>3, <2>1, <2>2, <2>3, AnswerKeeps
<1>5. CASE ListWorkflows(c)
  <2>1. calls[c].fetch = "workflows" /\ Answer(c, "ok", Of(Workflows, calls[c].token))
        /\ UNCHANGED made
    BY <1>5 DEF ListWorkflows
  <2>2. calls[c].token \in Tokens
    BY <2>1 DEF WebInv, HasToken
  <2> QED
    BY <1>2, <1>3, <2>1, <2>2, AnswerKeeps
<1>6. CASE ListAudit(c)
  <2>1. /\ calls[c].fetch = "audit" /\ UNCHANGED made
        /\ IF calls[c].token \in Auditors
           THEN Answer(c, "ok", Of(Records, calls[c].token)) ELSE Answer(c, "forbidden", {})
    BY <1>6 DEF ListAudit
  <2>2. calls[c].token \in Tokens
    BY <2>1 DEF WebInv, HasToken
  <2> QED
    BY <1>2, <1>3, <2>1, <2>2, AnswerKeeps
<1>7. CASE Refuse(c)
  <2>1. Answer(c, "failed", {}) /\ UNCHANGED made
    BY <1>7 DEF Refuse
  <2> QED
    BY <1>2, <1>3, <2>1, AnswerKeeps
<1> QED
  BY <1>4, <1>5, <1>6, <1>7

\* The workflows are shown; they are of the token of the call that listed them, and no
\* refresh of another token is shown any longer.
LEMMA WorkflowsAnsweredKeeps ==
  ASSUME WebInv, NEW c \in Calls, WorkflowsAnswered(c)
  PROVE  WebInv'
<1> DEFINE answer == calls[c].answer
<1>1. /\ calls[c].fetch = "workflows"
      /\ workflows' = IF answer.status = "ok" THEN answer.items ELSE workflows
      /\ UNCHANGED <<made, savedToken, audit>>
  BY DEF WorkflowsAnswered, Answered
<1>2. PICK listed \in BOOLEAN : listed = (answer.status = "ok")
  OBVIOUS
<1>3. calls \in [Calls -> CallRecords]
  BY DEF WebInv, WebTypeOK, CallRecords
<1>4. calls[c].token \in Tokens /\ answer.items \subseteq Of(Workflows, calls[c].token)
  BY <1>1 DEF WebInv, HasToken, AnswersItsToken
<1> DEFINE new == [calls[c] EXCEPT !.fetch = "audit", !.answer = Pending, !.shown = listed]
<1>5. /\ new \in CallRecords /\ new.fetch = "audit" /\ new.token = calls[c].token
      /\ new.answer.status = "pending" /\ new.answer.items = {} /\ new.shown = listed
  BY <1>3 DEF CallRecords, Pending
<1> HIDE DEF new
<1>6. /\ DOMAIN calls' = Calls
      /\ calls'[c] = new
      /\ \A d \in Calls \ {c} :
           calls'[d] = [calls[d] EXCEPT
                          !.shown = @ /\ (answer.status = "ok" => calls[c].token = calls[d].token)]
  BY <1>2, Zenon DEF WorkflowsAnswered, new
<1>7. ASSUME NEW d \in Calls \ {c}
      PROVE  Left(d) /\ calls'[d] \in CallRecords
  <2>1. PICK still \in BOOLEAN :
          still = (calls[d].shown /\ (answer.status = "ok" => calls[c].token = calls[d].token))
    OBVIOUS
  <2>2. calls'[d] = [calls[d] EXCEPT !.shown = still]
    BY <1>6, <2>1, Zenon
  <2>3. /\ calls'[d] \in CallRecords
        /\ calls'[d].fetch = calls[d].fetch /\ calls'[d].token = calls[d].token
        /\ calls'[d].answer = calls[d].answer /\ calls'[d].shown = still
    BY <1>3, <2>2 DEF CallRecords
  <2>4. still => workflows' \subseteq workflows \cup Of(Workflows, calls[d].token)
    BY <1>1, <1>4, <2>1
  <2> QED
    BY <2>1, <2>3, <2>4 DEF Left
<1>8. calls' \in [Calls -> CallRecords]
  <2>1. \A d \in Calls : calls'[d] \in CallRecords
    BY <1>5, <1>6, <1>7
  <2>2. calls' = [d \in Calls |-> calls'[d]]
    BY Zenon DEF WorkflowsAnswered
  <2> QED
    BY <2>1, <2>2
<1>9. HasToken(c)' /\ AnswersItsToken(c)'
  BY <1>4, <1>5, <1>6 DEF HasToken, AnswersItsToken
<1>10. KeepsShown(c)'
  <2>1. listed => workflows' \subseteq {x \in Workflows : made'[x] = TenantOf[calls[c].token]}
    BY <1>1, <1>2, <1>4 DEF Of
  <2> QED
    BY <2>1, <1>5, <1>6 DEF KeepsShown, Of
<1>11. /\ OnlyMakes /\ savedToken' \in Tokens \cup {NoToken}
       /\ workflows' \subseteq Workflows /\ audit' \subseteq Records
  BY <1>1, <1>4 DEF WebInv, WebTypeOK, OnlyMakes, Of
<1> QED
  BY <1>7, <1>8, <1>9, <1>10, <1>11, TheRestHolds

\* The audit events are shown, a creation ends or goes on as a refresh, or a call
\* fails.
LEMMA OthersAnsweredKeep ==
  ASSUME WebInv, NEW c \in Calls,
         \/ AuditAnswered(c) \/ Fails(c)
         \/ \E what \in {"create workflow", "create record"} : CreateAnswered(c, what)
  PROVE  WebInv'
<1>1. CASE AuditAnswered(c)
  <2>1. /\ calls' = [calls EXCEPT ![c] = Idle] /\ UNCHANGED <<made, savedToken, workflows>>
        /\ audit' \in {audit, calls[c].answer.items} /\ calls[c].fetch = "audit"
    BY <1>1 DEF AuditAnswered, Answered, Shown
  <2>2. audit' \subseteq Records
    <3>1. calls[c].answer.items \subseteq
            (IF calls[c].token \in Auditors THEN Of(Records, calls[c].token) ELSE {})
      BY <2>1 DEF WebInv, AnswersItsToken
    <3>2. calls[c].answer.items \subseteq Records
      BY <3>1 DEF Of
    <3> QED
      BY <2>1, <3>2 DEF WebInv, WebTypeOK
  <2> QED
    BY <2>1, <2>2, EndKeeps
<1>2. CASE Fails(c)
  BY <1>2, EndKeeps DEF Fails, display, WebInv, WebTypeOK
<1>3. ASSUME NEW what \in {"create workflow", "create record"}, CreateAnswered(c, what)
      PROVE  WebInv'
  <2>1. /\ calls[c].fetch = what /\ UNCHANGED <<made, savedToken, display>>
        /\ \/ /\ calls[c].answer.status = "ok"
              /\ calls' = [calls EXCEPT ![c] = Fetching("workflows", calls[c].token)]
           \/ calls' = [calls EXCEPT ![c] = Idle]
    BY <1>3 DEF CreateAnswered, Answered
  <2>2. CASE calls' = [calls EXCEPT ![c] = Idle]
    BY <2>1, <2>2, EndKeeps DEF display, WebInv, WebTypeOK
  <2>3. CASE /\ calls[c].answer.status = "ok"
             /\ calls' = [calls EXCEPT ![c] = Fetching("workflows", calls[c].token)]
    <3>1. calls[c].token \in Tokens /\ calls[c].token # NoToken
      BY <2>1, <2>3, ClientAssumption DEF WebInv, HasToken
    <3>2. savedToken' \in Tokens \cup {NoToken}
      BY <2>1 DEF WebInv, WebTypeOK
    <3> QED
      BY <2>1, <2>3, <3>1, <3>2, BeginKeeps DEF Beginnings
  <2> QED
    BY <2>1, <2>2, <2>3
<1> QED
  BY <1>1, <1>2, <1>3

\* The invariant is kept by every step.
LEMMA WebInvariance == WebSpec => []WebInv
<1>1. WebInv /\ [WebNext]_webVars => WebInv'
  <2> SUFFICES ASSUME WebInv, [WebNext]_webVars PROVE WebInv'
    OBVIOUS
  <2>1. ASSUME NEW c \in Calls, NEW t \in Tokens \cup {NoToken}, SaveToken(t, c)
        PROVE  WebInv'
    BY <2>1, SaveTokenKeeps
  <2>2. ASSUME NEW c \in Calls, Refresh(c) \/ CreateWorkflow(c) \/ CreateRecord(c)
        PROVE  WebInv'
    <3>1. PICK what \in Beginnings : Begin(what, c) /\ (what = "workflows" => savedToken # NoToken)
      BY <2>2 DEF Refresh, CreateWorkflow, CreateRecord, Beginnings
    <3>2. savedToken \in Tokens \cup {NoToken}
      BY DEF WebInv, WebTypeOK
    <3> QED
      BY <3>1, <3>2, BeginKeeps DEF Begin
  <2>3. ASSUME NEW c \in Calls,
               \/ \E x \in Things : Make(c, x)
               \/ ListWorkflows(c) \/ ListAudit(c) \/ Refuse(c)
        PROVE  WebInv'
    BY <2>3, ServerKeeps
  <2>4. ASSUME NEW c \in Calls, WorkflowsAnswered(c)
        PROVE  WebInv'
    BY <2>4, WorkflowsAnsweredKeeps
  <2>5. ASSUME NEW c \in Calls,
               \/ AuditAnswered(c) \/ Fails(c)
               \/ \E what \in {"create workflow", "create record"} : CreateAnswered(c, what)
        PROVE  WebInv'
    BY <2>5, OthersAnsweredKeep
  <2>6. CASE UNCHANGED webVars
    BY <2>6 DEF webVars, display, WebInv, WebTypeOK, HasToken, AnswersItsToken, KeepsShown, Of
  <2> QED
    BY <2>1, <2>2, <2>3, <2>4, <2>5, <2>6 DEF WebNext
<1> QED
  BY <1>1, WebStarts, PTL DEF WebSpec

\* Every variable of the web client keeps its type: the workflows on display are
\* workflows, and the audit events are events.
THEOREM WebTypeCorrect == WebSpec => []WebTypeOK
BY WebInvariance, PTL DEF WebInv

\* Once a refresh with the token in the field has shown its workflows and then its
\* audit events, nothing is on display that the token may not read, whatever was there
\* before and whatever answers arrived while it was under way; and only another token
\* or the answer to a call of another one ends that.
THEOREM RefreshAlwaysSettles == WebSpec => RefreshSettles
<1> DEFINE Settles == \A c \in Calls :
                        AuditAnswered(c) /\ Current(c) /\ calls[c].shown
                        /\ calls[c].answer.status # "failed" => OnlyOwnShown'
           Stays == OnlyOwnShown /\ savedToken' = savedToken =>
                      \/ OnlyOwnShown'
                      \/ \E c \in Calls : ~Current(c) /\ (WorkflowsAnswered(c) \/ AuditAnswered(c))
<1>1. WebInv => Settles
  <2> SUFFICES ASSUME WebInv, NEW c \in Calls, AuditAnswered(c), Current(c), calls[c].shown,
                      calls[c].answer.status # "failed"
               PROVE  OnlyOwnShown'
    OBVIOUS
  <2>1. /\ calls[c].fetch = "audit" /\ calls[c].answer.status \in {"ok", "forbidden"}
        /\ UNCHANGED <<made, savedToken, workflows>>
    BY DEF AuditAnswered, Answered, WebInv, WebTypeOK
  <2>2. audit' = calls[c].answer.items
    BY <2>1 DEF AuditAnswered, Shown
  <2>3. savedToken \in Tokens /\ savedToken # NoToken /\ calls[c].token = savedToken
    BY <2>1, ClientAssumption DEF WebInv, HasToken, Current
  <2>4. workflows \subseteq Of(Workflows, savedToken)
    BY <2>3 DEF WebInv, KeepsShown
  <2>5. audit' \subseteq (IF savedToken \in Auditors THEN Of(Records, savedToken) ELSE {})
    BY <2>1, <2>2, <2>3 DEF WebInv, AnswersItsToken
  <2> QED
    BY <2>1, <2>3, <2>4, <2>5 DEF OnlyOwnShown, Of
<1>2. WebInv /\ [WebNext]_webVars => Stays
  <2> SUFFICES ASSUME WebInv, [WebNext]_webVars, OnlyOwnShown, savedToken' = savedToken,
                      \A c \in Calls : WorkflowsAnswered(c) \/ AuditAnswered(c) => Current(c)
               PROVE  OnlyOwnShown'
    OBVIOUS
  <2> DEFINE Mine(kind) == {x \in kind : made'[x] = TenantOf[savedToken]}
  <2>1. OnlyMakes /\ savedToken \in Tokens \cup {NoToken}
    <3>1. made' = made \/ \E c \in Calls, x \in Things : Make(c, x)
      BY DEF WebNext, webVars, SaveToken, Refresh, CreateWorkflow, CreateRecord, Begin,
             ListWorkflows, ListAudit, Refuse, WorkflowsAnswered, AuditAnswered, CreateAnswered, Fails
    <3>2. ASSUME NEW c \in Calls, NEW x \in Things, Make(c, x) PROVE OnlyMakes
      <4>1. calls[c].token \in Tokens
        BY <3>2 DEF Make, WebInv, WebTypeOK
      <4> QED
        BY <3>2, <4>1, Making DEF Make
    <3> QED
      BY <3>1, <3>2 DEF OnlyMakes, WebInv, WebTypeOK
  <2>2. savedToken \in Tokens => /\ Of(Workflows, savedToken) \subseteq Mine(Workflows)
                                  /\ Of(Records, savedToken) \subseteq Mine(Records)
    BY <2>1, OfGrows DEF Of
  <2>3. CASE \E c \in Calls : WorkflowsAnswered(c)
    <3>1. PICK c \in Calls : WorkflowsAnswered(c)
      BY <2>3
    <3>2. /\ calls[c].token = savedToken /\ calls[c].fetch = "workflows"
          /\ workflows' \in {workflows, calls[c].answer.items} /\ audit' = audit
      BY <3>1 DEF WorkflowsAnswered, Answered, Current
    <3>3. savedToken \in Tokens /\ calls[c].answer.items \subseteq Of(Workflows, savedToken)
      BY <3>2 DEF WebInv, HasToken, AnswersItsToken
    <3> QED
      BY <2>2, <3>2, <3>3, ClientAssumption DEF OnlyOwnShown, Of
  <2>4. CASE \E c \in Calls : AuditAnswered(c)
    <3>1. PICK c \in Calls : AuditAnswered(c)
      BY <2>4
    <3>2. /\ calls[c].token = savedToken /\ calls[c].fetch = "audit"
          /\ audit' \in {audit, calls[c].answer.items} /\ workflows' = workflows
      BY <3>1 DEF AuditAnswered, Answered, Current, Shown
    <3>3. /\ savedToken \in Tokens
          /\ calls[c].answer.items \subseteq
               (IF savedToken \in Auditors THEN Of(Records, savedToken) ELSE {})
      BY <3>2 DEF WebInv, HasToken, AnswersItsToken
    <3> QED
      BY <2>2, <3>2, <3>3, ClientAssumption DEF OnlyOwnShown, Of
  <2>5. CASE \A c \in Calls : ~WorkflowsAnswered(c) /\ ~AuditAnswered(c)
    <3>1. UNCHANGED display
      BY <2>5 DEF WebNext, webVars, display, SaveToken, Refresh, CreateWorkflow, CreateRecord, Begin,
                  Make, ListWorkflows, ListAudit, Refuse, Answer, CreateAnswered, Fails
    <3> QED
      BY <2>1, <2>2, <3>1 DEF OnlyOwnShown, Of, display
  <2> QED
    BY <2>3, <2>4, <2>5
<1>3. WebInv /\ [WebNext]_webVars => [Settles /\ Stays]_webVars
  BY <1>1, <1>2
<1> QED
  BY <1>3, WebInvariance, PTL DEF WebSpec, RefreshSettles
=============================================================================
