----------------------------- MODULE ApprovalInbox -----------------------------
(***************************************************************************)
(* The mobile approval inbox (apps/mobile/App.tsx) against the API: a list *)
(* of submitted records, refreshed on demand, and one approval at a time,  *)
(* each an HTTP request whose answer comes when it comes.  Meanwhile other *)
(* people change the same records, and the user may paste another token.   *)
(*                                                                         *)
(* A token is modelled by the tenant it is signed for.  A token that is    *)
(* expired, or has the wrong role, is a request that the server refuses.   *)
(***************************************************************************)
EXTENDS Integers, FiniteSets

CONSTANTS
  Ids,
  Tenants,
  OwnerOf,      \* record -> its tenant
  States,       \* the states of the records' workflow
  Submitted,
  Approved,
  NoTenant,     \* no token has been pasted
  NoRecord,
  MaxVersion,   \* bound: the versions a record goes through
  MaxLost       \* bound: the approvals given up on that are under way together

ASSUME InboxAssumption ==
  /\ OwnerOf \in [Ids -> Tenants]
  /\ Submitted \in States /\ Approved \in States /\ Submitted # Approved
  /\ NoTenant \notin Tenants
  /\ MaxVersion \in Nat \ {0}
  /\ MaxLost \in Nat

VARIABLES
  records,    \* the server's records: state and version, version 0 before creation
  token,      \* the tenant of the token in the text field
  shown,      \* the records on display, as they were listed
  refresh,    \* the refresh under way: its step, its token and the listed records
  approval,   \* the approval under way: its step, its token and its record
  lost,       \* approvals given up on that may still reach the server
  approvedAt  \* what the inbox reported as approved: record and version it had

inbox == <<shown, refresh, approval, lost, approvedAt>>
inboxVars == <<records, token, shown, refresh, approval, lost, approvedAt>>

Listed == [id: Ids, version: 1..MaxVersion]
NoListed == [id |-> NoRecord, version |-> 0]
NoRefresh == [step |-> "idle", token |-> NoTenant, items |-> {}]
NoApproval == [step |-> "idle", token |-> NoTenant, record |-> NoListed]

\* Type invariant.
InboxTypeOK ==
  /\ records \in [Ids -> [state: States, version: 0..MaxVersion]]
  /\ token \in Tenants \cup {NoTenant}
  /\ shown \subseteq Listed
  /\ refresh \in [step: {"idle", "sent", "listed", "refused"}, token: Tenants \cup {NoTenant},
                  items: SUBSET Listed]
  /\ approval \in [step: {"idle", "sent", "approved", "refused"}, token: Tenants \cup {NoTenant},
                   record: Listed \cup {NoListed}]
  /\ lost \subseteq [token: Tenants \cup {NoTenant}, record: Listed]
  /\ approvedAt \subseteq Listed

InboxInit ==
  /\ records = [id \in Ids |-> [state |-> Submitted, version |-> 0]]
  /\ token = NoTenant
  /\ shown = {}
  /\ refresh = NoRefresh
  /\ approval = NoApproval
  /\ lost = {}
  /\ approvedAt = {}

-----------------------------------------------------------------------------
(* Other people, and the text field. *)

Put(id, state) ==
  /\ records[id].version < MaxVersion
  /\ records' = [records EXCEPT ![id] = [state |-> state, version |-> @.version + 1]]

\* Somebody creates the record, or updates it to any state.
Change(id, state) ==
  /\ records[id].version = 0 => state = Submitted
  /\ Put(id, state)
  /\ UNCHANGED <<token, inbox>>

\* The user pastes a token, or empties the field.  What is shown stays.
SetToken(t) ==
  /\ t # token
  /\ token' = t
  /\ UNCHANGED <<records, inbox>>

-----------------------------------------------------------------------------
(* refreshInbox; its button is disabled while one is under way. *)

\* Without a token the list is emptied at once.
RefreshInbox ==
  /\ refresh.step = "idle"
  /\ IF token = NoTenant
     THEN shown' = {} /\ UNCHANGED refresh
     ELSE refresh' = [NoRefresh EXCEPT !.step = "sent", !.token = token] /\ UNCHANGED shown
  /\ UNCHANGED <<records, token, approval, lost, approvedAt>>

\* The server lists the submitted records of the token's tenant, or refuses.
ListRecords ==
  LET submitted == {id \in Ids : /\ OwnerOf[id] = refresh.token
                                 /\ records[id].version > 0
                                 /\ records[id].state = Submitted}
  IN /\ refresh.step = "sent"
     /\ refresh' \in
          {[refresh EXCEPT !.step = "refused"],
           [refresh EXCEPT !.step = "listed",
              !.items = {[id |-> id, version |-> records[id].version] : id \in submitted}]}
     /\ UNCHANGED <<records, token, shown, approval, lost, approvedAt>>

\* The answer arrives: what it lists, or after an error nothing, is shown.
RefreshAnswered ==
  /\ refresh.step \in {"listed", "refused"}
  /\ shown' = refresh.items
  /\ refresh' = NoRefresh
  /\ UNCHANGED <<records, token, approval, lost, approvedAt>>

\* There is no answer: what is shown stays.
RefreshFailed ==
  /\ refresh.step # "idle"
  /\ refresh' = NoRefresh
  /\ UNCHANGED <<records, token, shown, approval, lost, approvedAt>>

-----------------------------------------------------------------------------
(* approve; its buttons are disabled while one is under way. *)

Approve(record) ==
  /\ approval.step = "idle"
  /\ approval' = [step |-> "sent", token |-> token, record |-> record]
  /\ UNCHANGED <<records, token, shown, refresh, lost, approvedAt>>

\* Mutant: the version that was shown is not sent along.
IfMatchMissing(record) == TRUE

\* The If-Match header lets the update through.
IfMatch(record) == records[record.id].version = record.version

\* The server makes an update.
Apply(update) ==
  /\ OwnerOf[update.record.id] = update.token
  /\ IfMatch(update.record)
  /\ Put(update.record.id, Approved)

\* The server makes the update, or refuses it: for the token, the tenant, the
\* version, or a fault of its own.
UpdateRecord ==
  /\ approval.step = "sent"
  /\ \/ Apply(approval) /\ approval' = [approval EXCEPT !.step = "approved"]
     \/ UNCHANGED records /\ approval' = [approval EXCEPT !.step = "refused"]
  /\ UNCHANGED <<token, shown, refresh, lost, approvedAt>>

\* It makes one that nobody waits for any more.
UpdateLate(update) ==
  /\ Apply(update)
  /\ lost' = lost \ {update}
  /\ UNCHANGED <<token, shown, refresh, approval, approvedAt>>

\* Mutant: the status of the response is not looked at.
ApproveAnsweredUnchecked ==
  /\ approval.step \in {"approved", "refused"}
  /\ shown' = {item \in shown : item.id # approval.record.id}
  /\ approvedAt' = approvedAt \cup {approval.record}
  /\ approval' = NoApproval
  /\ UNCHANGED <<records, token, refresh, lost>>

\* The answer arrives: an approved record leaves the list of that moment.
ApproveAnswered ==
  /\ approval.step \in {"approved", "refused"}
  /\ IF approval.step = "approved"
     THEN /\ shown' = {item \in shown : item.id # approval.record.id}
          /\ approvedAt' = approvedAt \cup {approval.record}
     ELSE UNCHANGED <<shown, approvedAt>>
  /\ approval' = NoApproval
  /\ UNCHANGED <<records, token, refresh, lost>>

\* There is no answer; the update was made, or not, or is still to be.
ApproveFailed ==
  /\ approval.step # "idle"
  /\ approval' = NoApproval
  /\ \/ UNCHANGED lost
     \/ /\ approval.step = "sent" /\ Cardinality(lost) < MaxLost
        /\ lost' = lost \cup {[token |-> approval.token, record |-> approval.record]}
  /\ UNCHANGED <<records, token, shown, refresh, approvedAt>>

-----------------------------------------------------------------------------

InboxNext ==
  \/ \E id \in Ids, state \in States : Change(id, state)
  \/ \E t \in Tenants \cup {NoTenant} : SetToken(t)
  \/ RefreshInbox
  \/ ListRecords
  \/ RefreshAnswered
  \/ RefreshFailed
  \/ \E record \in shown : Approve(record)
  \/ UpdateRecord
  \/ \E update \in lost : UpdateLate(update)
  \/ ApproveAnswered
  \/ ApproveFailed

InboxSpec == InboxInit /\ [][InboxNext]_inboxVars

-----------------------------------------------------------------------------

\* Whatever the display shows, however late the tap and the update, an approval
\* only approves a record that is submitted at that moment and belongs to the
\* tenant of the token it was sent with: what the approver saw is what is approved,
\* and nothing is approved twice.  "approves them using each record's current
\* version in If-Match" (docs/architecture.md).
ApprovesWhatWasShown ==
  [][\A id \in Ids : \A update \in lost \cup {approval} :
       update.record.id = id /\ Apply(update) =>
         /\ records[id].state = Submitted
         /\ OwnerOf[id] = update.token]_inboxVars

\* A list that the server makes after an approval was reported no longer has the
\* approved version: reported approvals are made, and the next refresh corrects a
\* stale display.
RefreshCorrects == [][ListRecords => refresh'.items \cap approvedAt = {}]_inboxVars
=============================================================================
