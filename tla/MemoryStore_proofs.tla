--------------------------- MODULE MemoryStore_proofs ---------------------------
(***************************************************************************)
(* MemoryStore keeps the contract of RecordStore, for any number of        *)
(* tenants, records, keys and requests, where no tenant has a colon; and   *)
(* its counter never gives an identifier twice.                            *)
(***************************************************************************)
EXTENDS MemoryStore, SequenceTheorems, TLAPS

\* The tenants for which the joined keys can be told apart.
NoColon == \A t \in Tenants : \A i \in DOMAIN t : t[i] # Colon

\* The identifiers that have been drawn from the counter.
GivenIds == DOMAIN workflows \cup DOMAIN records \cup {outbox[i].id : i \in DOMAIN outbox}

\* A request has its call when it is pending.
CallsKnown ==
  /\ call \in [Requests -> Calls \cup {NoCall}]
  /\ DOMAIN reply = Requests
  /\ \A r \in Requests : reply[r].status = "pending" => call[r] \in Calls

\* The workflow of every record is there, of the same tenant: UpdateRecord relies on
\* it without a check.
WorkflowsThere ==
  \A id \in DOMAIN records :
    /\ {"tenantId", "workflowId"} \subseteq DOMAIN records[id]
    /\ HasWorkflow(workflows, records[id].workflowId, records[id].tenantId)

\* The inductive invariant.  IdsAreUnique is not inductive alone: the identifiers of
\* the workflows come from the same counter, and what is appended is only known of
\* slices whose elements are.
IInv ==
  /\ counter \in Nat
  /\ audit \in Seq(Elements(audit)) /\ outbox \in Seq(Elements(outbox))
  /\ \A i \in DOMAIN outbox : DOMAIN outbox[i] = {"event", "id", "published", "attempts"}
  /\ \A id \in GivenIds : id[2] \in 0..counter
  /\ IdsAreUnique
  /\ WorkflowsThere
  /\ CallsKnown

-----------------------------------------------------------------------------
(* Slices and joined keys. *)

\* What Append does to a slice, whatever is appended.
LEMMA Appended ==
  ASSUME NEW s, s \in Seq(Elements(s)), NEW e, NEW t, t = Append(s, e)
  PROVE  /\ Len(s) \in Nat /\ DOMAIN s = 1..Len(s) /\ DOMAIN t = 1..(Len(s) + 1)
         /\ \A i \in DOMAIN s : t[i] = s[i]
         /\ t[Len(s) + 1] = e
         /\ Elements(t) = Elements(s) \cup {e}
         /\ t \in Seq(Elements(t))
<1> DEFINE S == Elements(s) \cup {e}
<1>1. s \in Seq(S) /\ e \in S
  BY DEF Elements
<1> HIDE DEF S
<1>2. /\ Len(s) \in Nat /\ DOMAIN s = 1..Len(s) /\ DOMAIN t = 1..(Len(s) + 1)
      /\ \A i \in DOMAIN s : t[i] = s[i]
      /\ t[Len(s) + 1] = e
      /\ t \in Seq(S)
  BY <1>1
<1>3. Elements(t) = S
  BY <1>2 DEF Elements, S
<1> QED
  BY <1>2, <1>3 DEF S

\* The parts of a joined key.
LEMMA JoinedParts ==
  ASSUME NEW v \in Seq(Tokens), NEW m \in Seq(Tokens)
  PROVE  /\ Len(JoinKey(v, m)) = Len(v) + 1 + Len(m)
         /\ \A i \in 1..Len(v) : JoinKey(v, m)[i] = v[i]
         /\ JoinKey(v, m)[Len(v) + 1] = Colon
         /\ \A i \in 1..Len(m) : JoinKey(v, m)[Len(v) + 1 + i] = m[i]
<1> DEFINE head == v \o <<Colon>>
           joined == JoinKey(v, m)
<1>1. /\ <<Colon>> \in Seq(Tokens) /\ Len(<<Colon>>) = 1 /\ <<Colon>>[1] = Colon
  BY MemoryAssumption
<1>2. /\ head \in Seq(Tokens) /\ Len(head) = Len(v) + 1
      /\ \A i \in 1..Len(v) : head[i] = v[i]
      /\ head[Len(v) + 1] = Colon
  BY <1>1
<1>3. joined = head \o m
  BY DEF JoinKey
<1> HIDE DEF head, joined
<1>4. /\ Len(joined) = Len(head) + Len(m)
      /\ \A i \in 1..(Len(head) + Len(m)) :
           joined[i] = IF i <= Len(head) THEN head[i] ELSE m[i - Len(head)]
  <2>1. head \in Seq(Tokens) /\ m \in Seq(Tokens)
    BY <1>2
  <2>2. /\ Len(head \o m) = Len(head) + Len(m)
        /\ \A i \in 1..(Len(head) + Len(m)) :
             (head \o m)[i] = IF i <= Len(head) THEN head[i] ELSE m[i - Len(head)]
    BY <2>1, ConcatProperties, Zenon
  <2> QED
    BY <1>3, <2>2
<1>5. Len(v) \in Nat /\ Len(m) \in Nat
  OBVIOUS
<1>6. \A i \in 1..Len(v) : joined[i] = v[i]
  BY <1>2, <1>4, <1>5
<1>7. joined[Len(v) + 1] = Colon
  BY <1>2, <1>4, <1>5
<1>8. ASSUME NEW i \in 1..Len(m) PROVE joined[Len(v) + 1 + i] = m[i]
  <2>1. /\ Len(v) + 1 + i \in 1..(Len(head) + Len(m)) /\ ~(Len(v) + 1 + i <= Len(head))
        /\ Len(v) + 1 + i - Len(head) = i
    BY <1>2, <1>5
  <2> QED
    BY <1>4, <2>1
<1> QED
  BY <1>2, <1>4, <1>5, <1>6, <1>7, <1>8 DEF joined

\* A tenant without a colon is what is in front of the first one.
LEMMA TenantsEndAlike ==
  ASSUME NoColon, NEW t \in Tenants, NEW u \in Tenants, NEW k \in Seq(Tokens), NEW l \in Seq(Tokens),
         JoinKey(t, k) = JoinKey(u, l)
  PROVE  Len(u) <= Len(t)
<1>1. t \in Seq(Tokens) /\ u \in Seq(Tokens) /\ Len(t) \in Nat /\ Len(u) \in Nat
  BY MemoryAssumption
<1> SUFFICES ASSUME ~(Len(u) <= Len(t)) PROVE FALSE
  OBVIOUS
<1>2. Len(t) + 1 \in 1..Len(u)
  BY <1>1
<1>3. JoinKey(t, k)[Len(t) + 1] = Colon
  BY <1>1, JoinedParts
<1>4. JoinKey(u, l)[Len(t) + 1] = u[Len(t) + 1]
  <2>1. \A i \in 1..Len(u) : JoinKey(u, l)[i] = u[i]
    BY <1>1, JoinedParts
  <2> QED
    BY <1>2, <2>1
<1>5. Len(t) + 1 \in DOMAIN u
  BY <1>1, <1>2
<1> QED
  BY <1>3, <1>4, <1>5 DEF NoColon

\* Without a colon in the tenants, a joined key says whose and which key it is.
LEMMA JoinedKeysDiffer ==
  ASSUME NoColon, NEW t \in Tenants, NEW u \in Tenants, NEW k \in Keys, NEW l \in Keys,
         JoinKey(t, k) = JoinKey(u, l)
  PROVE  t = u /\ k = l
<1>1. t \in Seq(Tokens) /\ u \in Seq(Tokens) /\ k \in Seq(Tokens) /\ l \in Seq(Tokens)
  BY MemoryAssumption
<1>2. Len(t) \in Nat /\ Len(u) \in Nat /\ Len(k) \in Nat /\ Len(l) \in Nat
  BY <1>1
<1>3. Len(t) = Len(u)
  BY <1>1, <1>2, TenantsEndAlike
<1> DEFINE joined == JoinKey(t, k)
<1>4. /\ Len(joined) = Len(t) + 1 + Len(k)
      /\ \A i \in 1..Len(t) : joined[i] = t[i]
      /\ \A i \in 1..Len(k) : joined[Len(t) + 1 + i] = k[i]
  BY <1>1, JoinedParts
<1>5. /\ Len(joined) = Len(u) + 1 + Len(l)
      /\ \A i \in 1..Len(u) : joined[i] = u[i]
      /\ \A i \in 1..Len(l) : joined[Len(u) + 1 + i] = l[i]
  <2>1. joined = JoinKey(u, l)
    OBVIOUS
  <2> HIDE DEF joined
  <2> QED
    BY <1>1, <2>1, JoinedParts
<1> HIDE DEF joined
<1>6. Len(k) = Len(l)
  BY <1>2, <1>3, <1>4, <1>5
<1>7. t = u
  BY <1>1, <1>3, <1>4, <1>5
<1>8. \A i \in 1..Len(k) : k[i] = l[i]
  BY <1>3, <1>4, <1>5, <1>6
<1>9. k = l
  BY <1>1, <1>6, <1>8
<1> QED
  BY <1>7, <1>9

-----------------------------------------------------------------------------
(* What the contract sees of the state. *)

\* The idempotency entries and the events of the contract.
Entries == [slot \in {s \in Slots : JoinKey(s[1], s[2]) \in DOMAIN idempotency} |->
              idempotency[JoinKey(slot[1], slot[2])]]
Announced == {e.event : e \in Elements(outbox)}

\* The contract's documents and answers are those of this module.
LEMMA SameDocuments ==
  /\ Store!EmptyMap = EmptyMap
  /\ \A f, k, v : Store!Put(f, k, v) = Put(f, k, v)
  /\ \A c : Store!Slot(c) = Slot(c)
  /\ \A c, wf : Store!NewRecord(c, wf) = NewRecord(c, wf)
  /\ \A c, rec : Store!Updated(rec, c) = Updated(rec, c)
  /\ \A status : Store!Answer(status) = Answer(status)
  /\ \A status, id, rec : Store!AnswerWith(status, id, rec) = AnswerWith(status, id, rec)
  /\ \A r, id, rec, type : Store!OutboxOf(r, id, rec, type) = OutboxOf(r, id, rec, type)
  /\ \A id, rec, type : Store!AuditOf(id, rec, type) = AuditOf(id, rec, type)
<1>1. \A f, k, v : Store!Put(f, k, v) = Put(f, k, v)
  BY DEF Put, Store!Put
<1>2. /\ \A c : Store!Slot(c) = Slot(c)
      /\ \A c, wf : Store!NewRecord(c, wf) = NewRecord(c, wf)
      /\ \A c, rec : Store!Updated(rec, c) = Updated(rec, c)
  BY DEF Slot, Store!Slot, NewRecord, Store!NewRecord, Updated, Store!Updated
<1>3. /\ Store!EmptyMap = EmptyMap
      /\ \A status : Store!Answer(status) = Answer(status)
      /\ \A status, id, rec : Store!AnswerWith(status, id, rec) = AnswerWith(status, id, rec)
  BY DEF EmptyMap, Store!EmptyMap, Answer, Store!Answer, AnswerWith, Store!AnswerWith
<1>4. /\ \A r, id, rec, type : Store!OutboxOf(r, id, rec, type) = OutboxOf(r, id, rec, type)
      /\ \A id, rec, type : Store!AuditOf(id, rec, type) = AuditOf(id, rec, type)
  BY DEF OutboxOf, Store!OutboxOf, AuditOf, Store!AuditOf
<1> QED
  BY <1>1, <1>2, <1>3, <1>4

\* So are its questions.
LEMMA SameQuestions ==
  /\ \A wfs, id, t : Store!HasWorkflow(wfs, id, t) <=> HasWorkflow(wfs, id, t)
  /\ \A c, wfs, recs : Store!UpdateRefusal(c, wfs, recs) = UpdateRefusal(c, wfs, recs)
  /\ \A r, op : Store!Pending(r, op) <=> Pending(r, op)
  /\ \A r, op : Pending(r, op) => Store!Unfinished(r, op)
  /\ \A r, answer : Store!Respond(r, answer) <=> Respond(r, answer)
<1>1. /\ \A wfs, id, t : Store!HasWorkflow(wfs, id, t) <=> HasWorkflow(wfs, id, t)
      /\ \A recs, id, t : Store!HasRecord(recs, id, t) <=> HasRecord(recs, id, t)
      /\ \A wf, s : Store!Declares(wf, s) <=> Declares(wf, s)
      /\ \A c, rec : Store!UpToDate(c, rec) <=> UpToDate(c, rec)
  BY DEF HasWorkflow, Store!HasWorkflow, HasRecord, Store!HasRecord, Declares,
         Store!Declares, UpToDate, Store!UpToDate
<1>2. \A c, wfs, rec : Store!Allows(c, wfs, rec) <=> Allows(c, wfs, rec)
  BY <1>1 DEF Allows, Store!Allows
<1>3. \A c, wfs, recs : Store!UpdateRefusal(c, wfs, recs) = UpdateRefusal(c, wfs, recs)
  BY <1>1, <1>2 DEF UpdateRefusal, Store!UpdateRefusal
<1>4. /\ \A r, op : Store!Pending(r, op) <=> Pending(r, op)
      /\ \A r, op : Pending(r, op) => Store!Unfinished(r, op)
      /\ \A r, answer : Store!Respond(r, answer) <=> Respond(r, answer)
  BY DEF Pending, Store!Pending, Store!Unfinished, Respond, Store!Respond
<1> QED
  BY <1>1, <1>3, <1>4

\* Claiming the joined key claims the tenant's key, and no other.
LEMMA EntryClaimed ==
  ASSUME NoColon, NEW t \in Tenants, NEW k \in Keys, NEW id,
         idempotency' = Put(idempotency, JoinKey(t, k), id)
  PROVE  Entries' = Put(Entries, <<t, k>>, id)
<1> DEFINE new == Entries'
           put == Put(Entries, <<t, k>>, id)
           joined == JoinKey(t, k)
<1>1. /\ DOMAIN idempotency' = DOMAIN idempotency \cup {joined}
      /\ idempotency'[joined] = id
      /\ \A x \in DOMAIN idempotency : x # joined => idempotency'[x] = idempotency[x]
  <2>1. idempotency' = Put(idempotency, joined, id)
    OBVIOUS
  <2> HIDE DEF joined
  <2> QED
    BY <2>1 DEF Put
<1>2. \A s \in Slots : JoinKey(s[1], s[2]) = joined <=> s = <<t, k>>
  <2> SUFFICES ASSUME NEW s \in Slots, JoinKey(s[1], s[2]) = joined PROVE s = <<t, k>>
    OBVIOUS
  <2>1. s[1] \in Tenants /\ s[2] \in Keys /\ s = <<s[1], s[2]>>
    BY DEF Slots
  <2> QED
    BY <2>1, JoinedKeysDiffer
<1>3. <<t, k>> \in Slots
  BY DEF Slots
<1> HIDE DEF joined
<1>4. DOMAIN new = {s \in Slots : JoinKey(s[1], s[2]) \in DOMAIN idempotency'}
      /\ \A s \in DOMAIN new : new[s] = idempotency'[JoinKey(s[1], s[2])]
  BY DEF Entries
<1>5. /\ DOMAIN Entries = {s \in Slots : JoinKey(s[1], s[2]) \in DOMAIN idempotency}
      /\ \A s \in DOMAIN Entries : Entries[s] = idempotency[JoinKey(s[1], s[2])]
  BY DEF Entries
<1>6. /\ DOMAIN put = DOMAIN Entries \cup {<<t, k>>}
      /\ put[<<t, k>>] = id
      /\ \A s \in DOMAIN Entries : s # <<t, k>> => put[s] = Entries[s]
  BY DEF Put
<1>7. new = [s \in DOMAIN new |-> new[s]] /\ put = [s \in DOMAIN put |-> put[s]]
  BY DEF Entries, Put
<1> HIDE DEF new, put
<1>8. DOMAIN new = DOMAIN put
  BY <1>1, <1>2, <1>3, <1>4, <1>5, <1>6
<1>9. ASSUME NEW s \in DOMAIN new PROVE new[s] = put[s]
  <2>1. CASE s = <<t, k>>
    BY <2>1, <1>1, <1>2, <1>3, <1>4, <1>6
  <2>2. CASE s # <<t, k>>
    BY <2>2, <1>1, <1>2, <1>4, <1>5, <1>6, <1>8
  <2> QED
    BY <2>1, <2>2
<1>10. new = put
  BY <1>7, <1>8, <1>9
<1> QED
  BY <1>10 DEF new, put

\* The two appends are the contract's two events.
LEMMA JournalledTogether ==
  ASSUME IInv, NEW r, NEW id, NEW rec, NEW type, NEW drawn,
         Journalled(r, id, rec, type, drawn)
  PROVE  Store!Journalled(r, id, rec, type)
<1> DEFINE entry == [event |-> OutboxOf(r, id, rec, type), id |-> NextId("out", drawn + 2),
                     published |-> FALSE, attempts |-> 0]
<1>1. entry.event = OutboxOf(r, id, rec, type)
  OBVIOUS
<1>2. outbox' = Append(outbox, entry)
  BY DEF Journalled
<1> HIDE DEF entry
<1>3. Elements(audit') = Elements(audit) \cup {AuditOf(id, rec, type)}
  BY Appended DEF IInv, Journalled
<1>4. Elements(outbox') = Elements(outbox) \cup {entry}
  BY <1>2, Appended DEF IInv
<1>5. Announced' = Announced \cup {OutboxOf(r, id, rec, type)}
  BY <1>1, <1>4 DEF Announced
<1> QED
  BY <1>3, <1>5, SameDocuments DEF Store!Journalled, Announced

-----------------------------------------------------------------------------
(* The steps. *)

\* A call is a create or an update, with the fields of its kind.
LEMMA CallFields ==
  ASSUME NEW c \in Calls
  PROVE  /\ c.op = "create" => c.tenantId \in Tenants /\ c.key \in Keys \cup {NoKey}
         /\ c.op = "update" => c.tenantId \in Tenants
BY DomainAssumption DEF CreateCalls, UpdateCalls

\* A pending request has its call, and its operation is one of the contract's that
\* can still take effect.
LEMMA PendingCall ==
  ASSUME IInv, NEW r \in Requests, NEW op, Pending(r, op)
  PROVE  call[r] \in Calls /\ call[r].op = op
BY DEF IInv, CallsKnown, Pending

\* An answer leaves the requests known.
LEMMA AnswerKeeps ==
  ASSUME IInv, NEW r \in Requests, NEW answer, answer.status # "pending",
         Respond(r, answer), UNCHANGED call
  PROVE  CallsKnown'
BY DEF IInv, Respond, CallsKnown

\* The answers, none of which is "pending".
LEMMA AnswerStatus ==
  /\ \A status : Answer(status).status = status
  /\ \A status, id, rec : AnswerWith(status, id, rec).status = status
BY DEF Answer, AnswerWith

\* An answer without effect leaves the rest as it is.
LEMMA QuietKeeps ==
  ASSUME IInv, CallsKnown', UNCHANGED <<workflows, records, audit, outbox, counter>>
  PROVE  IInv'
<1>1. IdsAreUnique' /\ GivenIds' = GivenIds /\ WorkflowsThere'
  BY DEF IInv, IdsAreUnique, GivenIds, WorkflowsThere
<1> QED
  BY <1>1 DEF IInv

\* The counter is beyond every identifier, so the next ones are new.
LEMMA NextIdsAreNew ==
  ASSUME IInv, NEW prefix, NEW n \in Nat \ {0}
  PROVE  /\ NextId(prefix, n) \notin GivenIds
         /\ \A m \in Nat : n <= m => NextId(prefix, n)[2] \in 0..(counter + m)
<1>1. NextId(prefix, n)[2] = counter + n
  BY DEF NextId
<1>2. counter + n \notin 0..counter /\ \A m \in Nat : n <= m => counter + n \in 0..(counter + m)
  BY DEF IInv
<1> QED
  BY <1>1, <1>2 DEF IInv

\* The events of a change are given new identifiers, which the counter then covers
\* like the identifier of the record.
LEMMA JournalKeeps ==
  ASSUME IInv, CallsKnown', WorkflowsThere', NEW r, NEW id, NEW rec, NEW type, NEW drawn \in {0, 1},
         Journalled(r, id, rec, type, drawn), UNCHANGED workflows,
         \A x \in DOMAIN records' : x \in DOMAIN records \/ (drawn = 1 /\ x = NextId("rec", 1))
  PROVE  IInv'
<1> DEFINE new == NextId("out", drawn + 2)
           entry == [event |-> OutboxOf(r, id, rec, type), id |-> new,
                     published |-> FALSE, attempts |-> 0]
           last == Len(outbox) + 1
<1>1. /\ counter \in Nat /\ drawn + 2 \in Nat \ {0} /\ counter' = counter + (drawn + 2)
      /\ \A n \in 0..counter : n \in 0..counter'
  BY DEF IInv, Journalled
<1>2. counter' \in Nat
  BY <1>1
<1>3. /\ outbox' = Append(outbox, entry)
      /\ entry.id = new /\ DOMAIN entry = {"event", "id", "published", "attempts"}
  BY DEF Journalled
<1>4. /\ new \notin GivenIds /\ new[2] \in 0..counter'
      /\ drawn = 1 => NextId("rec", 1)[2] \in 0..counter'
  BY <1>1, NextIdsAreNew
<1> HIDE DEF new, entry, last
<1>5. /\ DOMAIN outbox' = DOMAIN outbox \cup {last} /\ last \notin DOMAIN outbox
      /\ \A i \in DOMAIN outbox : outbox'[i] = outbox[i]
      /\ outbox'[last] = entry
      /\ outbox' \in Seq(Elements(outbox'))
  <2>1. outbox \in Seq(Elements(outbox)) /\ outbox' = Append(outbox, entry)
    BY <1>3 DEF IInv
  <2>2. /\ Len(outbox) \in Nat /\ DOMAIN outbox = 1..Len(outbox)
        /\ DOMAIN outbox' = 1..(Len(outbox) + 1)
    BY <2>1, Appended
  <2>3. \A i \in DOMAIN outbox : outbox'[i] = outbox[i]
    BY <2>1, Appended
  <2>4. outbox'[Len(outbox) + 1] = entry
    BY <2>1, Appended
  <2>5. outbox' \in Seq(Elements(outbox'))
    BY <2>1, Appended
  <2> QED
    BY <2>2, <2>3, <2>4, <2>5 DEF last
<1>6. audit' \in Seq(Elements(audit'))
  BY Appended DEF IInv, Journalled
<1>7. \A i \in DOMAIN outbox' : DOMAIN outbox'[i] = {"event", "id", "published", "attempts"}
  BY <1>3, <1>5 DEF IInv
<1>8. \A x \in GivenIds' : x \in GivenIds \/ x = new \/ (drawn = 1 /\ x = NextId("rec", 1))
  BY <1>3, <1>5 DEF GivenIds
<1>9. \A x \in GivenIds' : x[2] \in 0..counter'
  BY <1>1, <1>4, <1>8 DEF IInv
<1>10. \A i, j \in DOMAIN outbox' : outbox'[i].id = outbox'[j].id => i = j
  <2>1. \A i \in DOMAIN outbox : outbox[i].id # new
    BY <1>4 DEF GivenIds
  <2> QED
    BY <1>3, <1>5, <2>1 DEF IInv, IdsAreUnique
<1>11. \A x \in DOMAIN records' \cup {outbox'[i].id : i \in DOMAIN outbox'} : x[2] <= counter'
  <2>1. ASSUME NEW x \in GivenIds' PROVE x[2] <= counter'
    <3>1. PICK n \in 0..counter' : n = x[2]
      BY <1>9
    <3> QED
      BY <1>2, <3>1
  <2> QED
    BY <2>1 DEF GivenIds
<1>12. IdsAreUnique'
  BY <1>10, <1>11 DEF IdsAreUnique
<1> QED
  BY <1>2, <1>5, <1>6, <1>7, <1>9, <1>12 DEF IInv

\* A record that is put has a workflow of its tenant.
LEMMA WorkflowsStayThere ==
  ASSUME IInv, NEW id, NEW rec, records' = Put(records, id, rec), UNCHANGED workflows,
         {"tenantId", "workflowId"} \subseteq DOMAIN rec,
         HasWorkflow(workflows, rec.workflowId, rec.tenantId)
  PROVE  WorkflowsThere'
<1>1. /\ DOMAIN records' = DOMAIN records \cup {id}
      /\ records'[id] = rec
      /\ \A x \in DOMAIN records : x # id => records'[x] = records[x]
  BY DEF Put
<1> QED
  BY <1>1 DEF IInv, WorkflowsThere

\* Before the first request nothing has an identifier.
LEMMA InitHolds == Init => IInv
<1> SUFFICES ASSUME Init PROVE IInv
  OBVIOUS
<1>1. DOMAIN workflows = {} /\ DOMAIN records = {} /\ outbox = <<>> /\ audit = <<>>
  BY DEF Init, EmptyMap
<1>2. DOMAIN outbox = {}
  BY <1>1
<1>3. GivenIds = {} /\ IdsAreUnique
  BY <1>1, <1>2 DEF GivenIds, IdsAreUnique
<1>4. CallsKnown
  BY AnswerStatus DEF Init, CallsKnown
<1>5. WorkflowsThere
  BY <1>1 DEF WorkflowsThere
<1> QED
  BY <1>1, <1>2, <1>3, <1>4, <1>5 DEF IInv, Init

\* The contract starts with empty collections as well.
LEMMA InitImplements == Init => Store!Init
<1> SUFFICES ASSUME Init PROVE Store!Init
  OBVIOUS
<1>1. Elements(audit) = {} /\ Announced = {}
  BY DEF Init, Elements, Announced
<1>2. Entries = EmptyMap
  <2>1. DOMAIN idempotency = {}
    BY DEF Init, EmptyMap
  <2>2. DOMAIN Entries = {}
    BY <2>1 DEF Entries
  <2> QED
    BY <2>2 DEF Entries, EmptyMap
<1> QED
  BY <1>1, <1>2, SameDocuments DEF Init, Store!Init, Entries, Announced

\* A workflow gets a new identifier.
LEMMA CreateWorkflowKeeps ==
  ASSUME IInv, NEW t \in Tenants, NEW states \in StateLists, CreateWorkflow(t, states)
  PROVE  IInv' /\ Store!Next
<1> DEFINE id == NextId("wf", 1)
<1>1. id \notin GivenIds /\ id[2] \in 0..(counter + 1)
  BY NextIdsAreNew
<1>2. counter \in Nat /\ counter' = counter + 1 /\ DOMAIN workflows' = DOMAIN workflows \cup {id}
  BY DEF IInv, CreateWorkflow, Put
<1>3. id \in WorkflowIds /\ Store!CreateWorkflow(id, t, states)
  <2>1. id \notin DOMAIN workflows
    BY <1>1 DEF GivenIds
  <2> QED
    BY <2>1, SameDocuments DEF CreateWorkflow, Store!CreateWorkflow
<1> HIDE DEF id
<1>4. counter' \in Nat /\ \A n \in 0..counter : n \in 0..counter'
  BY <1>2
<1>5. \A x \in GivenIds' : x[2] \in 0..counter'
  <2>1. \A x \in GivenIds' : x \in GivenIds \/ x = id
    BY <1>2 DEF GivenIds, CreateWorkflow
  <2> QED
    BY <2>1, <1>1, <1>2, <1>4 DEF IInv
<1>6. IdsAreUnique'
  <2>1. \A x \in DOMAIN records \cup {outbox[i].id : i \in DOMAIN outbox} : x[2] \in 0..counter'
    BY <1>4 DEF IInv, GivenIds
  <2>2. \A x \in DOMAIN records \cup {outbox[i].id : i \in DOMAIN outbox} : x[2] <= counter'
    <3> SUFFICES ASSUME NEW x \in DOMAIN records \cup {outbox[i].id : i \in DOMAIN outbox}
                 PROVE  x[2] <= counter'
      OBVIOUS
    <3>1. PICK n \in 0..counter' : n = x[2]
      BY <2>1
    <3> QED
      BY <1>4, <3>1
  <2> QED
    BY <2>2 DEF IInv, IdsAreUnique, CreateWorkflow
<1>7. CallsKnown' /\ WorkflowsThere'
  <2>1. \A w \in DOMAIN workflows : w \in DOMAIN workflows' /\ workflows'[w] = workflows[w]
    BY <1>1, <1>3 DEF CreateWorkflow, Put, GivenIds, id
  <2> QED
    BY <2>1 DEF IInv, CreateWorkflow, CallsKnown, WorkflowsThere, HasWorkflow
<1> QED
  BY <1>3, <1>4, <1>5, <1>6, <1>7 DEF IInv, CreateWorkflow, Store!Next

\* A request arrives with its call.
LEMMA ReceiveKeeps ==
  ASSUME IInv, NEW r \in Requests, NEW c \in Calls, Receive(r, c)
  PROVE  IInv' /\ Store!Next
<1>1. CallsKnown'
  BY DEF IInv, Receive, Respond, CallsKnown
<1>2. IInv'
  BY <1>1, QuietKeeps DEF Receive
<1>3. UNCHANGED <<Entries, Announced, Elements(audit)>>
  BY DEF Receive, Entries, Announced, Elements
<1>4. Store!Receive(r, c)
  BY <1>3, SameDocuments, SameQuestions
  DEF Receive, Store!Receive, Store!db, Entries, Announced
<1> QED
  BY <1>2, <1>4 DEF Store!Next

\* A create is refused, replayed or carried out, by the three branches of the method.
LEMMA CreateRecordImplements ==
  ASSUME NoColon, IInv, NEW r \in Requests, CreateRecord(r)
  PROVE  Store!Next
<1> DEFINE c   == call[r]
           key == JoinKey(c.tenantId, c.key)
           id  == NextId("rec", 1)
           rec == NewRecord(c, workflows[c.workflowId])
           known   == HasWorkflow(workflows, c.workflowId, c.tenantId)
           replays == c.key # NoKey /\ key \in DOMAIN idempotency
<1>1. /\ c \in Calls /\ c.op = "create" /\ Pending(r, "create")
      /\ c.tenantId \in Tenants /\ c.key \in Keys \cup {NoKey}
  BY PendingCall, CallFields DEF CreateRecord
<1>2. UNCHANGED <<workflows, call>>
  BY DEF CreateRecord
<1>3. /\ DOMAIN Entries = {s \in Slots : JoinKey(s[1], s[2]) \in DOMAIN idempotency}
      /\ \A s \in DOMAIN Entries : Entries[s] = idempotency[JoinKey(s[1], s[2])]
  BY DEF Entries
<1>4. NoKey \notin Keys
  BY DomainAssumption
<1>5. replays <=> Slot(c) \in DOMAIN Entries
  BY <1>1, <1>3, <1>4 DEF Slot, Slots
<1>6. replays => Entries[Slot(c)] = idempotency[key]
  BY <1>3, <1>5 DEF Slot
<1>7. CASE ~known /\ Respond(r, Answer("invalid"))
           /\ UNCHANGED <<records, idempotency, audit, outbox, counter>>
  <2>1. UNCHANGED <<Entries, Announced, Elements(audit)>>
    BY <1>7 DEF Entries, Announced, Elements
  <2>2. Store!RefuseCreate(r)
    BY <1>1, <1>2, <1>7, <2>1, SameDocuments, SameQuestions
    DEF Store!RefuseCreate, Store!db, Entries, Announced
  <2> QED
    BY <2>2 DEF Store!Next
<1>8. CASE replays /\ Respond(r, AnswerWith("replay", idempotency[key], records[idempotency[key]]))
           /\ UNCHANGED <<records, idempotency, audit, outbox, counter>>
  <2>1. UNCHANGED <<Entries, Announced, Elements(audit)>>
    BY <1>8 DEF Entries, Announced, Elements
  <2>2. /\ Slot(c) \in DOMAIN Entries
        /\ Respond(r, AnswerWith("replay", Entries[Slot(c)], records[Entries[Slot(c)]]))
    BY <1>5, <1>6, <1>8
  <2>3. Store!Replay(r)
    BY <1>1, <1>2, <1>8, <2>1, <2>2, SameDocuments, SameQuestions
    DEF Store!Replay, Store!db, Entries, Announced
  <2> QED
    BY <2>3 DEF Store!Next
<1>9. CASE /\ known /\ ~replays /\ id \in RecordIds
           /\ records' = Put(records, id, rec)
           /\ idempotency' = IF c.key = NoKey THEN idempotency ELSE Put(idempotency, key, id)
           /\ Journalled(r, id, rec, "record.created", 1)
           /\ Respond(r, AnswerWith("created", id, rec))
  <2>1. id \notin DOMAIN records
    BY NextIdsAreNew DEF GivenIds
  <2>2. Entries' = IF c.key = NoKey THEN Entries ELSE Put(Entries, Slot(c), id)
    <3>1. CASE c.key = NoKey
      BY <3>1, <1>9 DEF Entries
    <3>2. CASE c.key # NoKey
      BY <3>2, <1>1, <1>9, EntryClaimed DEF Slot
    <3> QED
      BY <3>1, <3>2
  <2>3. Store!Journalled(r, id, rec, "record.created")
    BY <1>9, JournalledTogether
  <2>4. Store!KeyFree(c)
    BY <1>5, <1>9, SameDocuments DEF Store!KeyFree, Entries
  <2>5. Store!Create(r, id)
    BY <1>1, <1>2, <1>9, <2>1, <2>2, <2>3, <2>4, SameDocuments, SameQuestions
    DEF Store!Create, Entries
  <2> QED
    BY <1>9, <2>5 DEF Store!Next
<1> QED
  BY <1>7, <1>8, <1>9 DEF CreateRecord

\* Whatever the branch, the identifiers stay unique.
LEMMA CreateRecordKeeps ==
  ASSUME IInv, NEW r \in Requests, CreateRecord(r)
  PROVE  IInv'
<1> DEFINE c   == call[r]
           key == JoinKey(c.tenantId, c.key)
           id  == NextId("rec", 1)
           rec == NewRecord(c, workflows[c.workflowId])
           known == HasWorkflow(workflows, c.workflowId, c.tenantId)
<1>1. UNCHANGED <<workflows, call>>
  BY DEF CreateRecord
<1>2. CASE /\ \/ Respond(r, Answer("invalid"))
              \/ Respond(r, AnswerWith("replay", idempotency[key], records[idempotency[key]]))
           /\ UNCHANGED <<records, idempotency, audit, outbox, counter>>
  <2>1. CallsKnown'
    BY <1>1, <1>2, AnswerKeeps, AnswerStatus
  <2> QED
    BY <1>1, <1>2, <2>1, QuietKeeps
<1>3. CASE /\ known
           /\ records' = Put(records, id, rec)
           /\ Journalled(r, id, rec, "record.created", 1)
           /\ Respond(r, AnswerWith("created", id, rec))
  <2>1. CallsKnown'
    BY <1>1, <1>3, AnswerKeeps, AnswerStatus
  <2>2. DOMAIN records' = DOMAIN records \cup {id}
    BY <1>3 DEF Put
  <2>3. /\ {"tenantId", "workflowId"} \subseteq DOMAIN rec
        /\ HasWorkflow(workflows, rec.workflowId, rec.tenantId)
    BY <1>3 DEF NewRecord
  <2>4. WorkflowsThere'
    BY <1>1, <1>3, <2>3, WorkflowsStayThere
  <2> QED
    BY <1>1, <1>3, <2>1, <2>2, <2>4, JournalKeeps
<1> QED
  BY <1>2, <1>3 DEF CreateRecord

\* A refused update changes nothing but its answer.
LEMMA RefusalKeeps ==
  ASSUME IInv, NEW r \in Requests, Pending(r, "update"), NEW why \in {"notFound", "conflict", "invalid"},
         UpdateRefusal(call[r], workflows, records) = why, Respond(r, Answer(why)),
         UNCHANGED <<workflows, records, idempotency, audit, outbox, counter, call>>
  PROVE  IInv' /\ Store!Next
<1>1. UNCHANGED <<Entries, Announced, Elements(audit)>>
  BY DEF Entries, Announced, Elements
<1>2. CallsKnown'
  BY AnswerKeeps, AnswerStatus
<1>3. IInv'
  BY <1>2, QuietKeeps
<1>4. Store!RefuseUpdate(r)
  BY <1>1, SameDocuments, SameQuestions DEF Store!RefuseUpdate, Store!db, Entries, Announced
<1> QED
  BY <1>3, <1>4 DEF Store!Next

\* An update is refused or carried out.
LEMMA UpdateRecordKeeps ==
  ASSUME IInv, NEW r \in Requests, UpdateRecord(r)
  PROVE  IInv' /\ Store!Next
<1> DEFINE c       == call[r]
           rec     == records[c.recordId]
           new     == Updated(rec, c)
           found   == HasRecord(records, c.recordId, c.tenantId)
           allowed == c.state = NoState \/ Declares(workflows[rec.workflowId], c.state)
           why     == UpdateRefusal(c, workflows, records)
           same    == UNCHANGED <<records, audit, outbox, counter>>
<1>1. Pending(r, "update") /\ UNCHANGED <<workflows, idempotency, call>>
  BY DEF UpdateRecord
<1>2. found => /\ c.recordId \in DOMAIN records /\ rec.tenantId = c.tenantId
               /\ {"tenantId", "workflowId"} \subseteq DOMAIN rec
               /\ HasWorkflow(workflows, rec.workflowId, c.tenantId)
  BY DEF HasRecord, IInv, WorkflowsThere
<1>3. found => (Allows(c, workflows, rec) <=> allowed)
  BY <1>2 DEF Allows
<1>4. /\ ~found => why = "notFound"
      /\ found /\ ~UpToDate(c, rec) => why = "conflict"
      /\ found /\ UpToDate(c, rec) /\ ~allowed => why = "invalid"
      /\ found /\ UpToDate(c, rec) /\ allowed => why = "none"
  BY <1>3 DEF UpdateRefusal
<1>5. CASE ~found /\ Respond(r, Answer("notFound")) /\ same
  BY <1>1, <1>4, <1>5, RefusalKeeps
<1>6. CASE found /\ ~UpToDate(c, rec) /\ Respond(r, Answer("conflict")) /\ same
  BY <1>1, <1>4, <1>6, RefusalKeeps
<1>7. CASE found /\ UpToDate(c, rec) /\ ~allowed /\ Respond(r, Answer("invalid")) /\ same
  BY <1>1, <1>4, <1>7, RefusalKeeps
<1>8. CASE /\ found /\ UpToDate(c, rec) /\ allowed
           /\ records' = Put(records, c.recordId, new)
           /\ Journalled(r, c.recordId, new, "record.updated", 0)
           /\ Respond(r, AnswerWith("updated", c.recordId, new))
  <2>1. CallsKnown'
    BY <1>1, <1>8, AnswerKeeps, AnswerStatus
  <2>2. DOMAIN records' = DOMAIN records
    BY <1>2, <1>8 DEF Put
  <2>3. /\ {"tenantId", "workflowId"} \subseteq DOMAIN new
        /\ HasWorkflow(workflows, new.workflowId, new.tenantId)
    BY <1>2, <1>8 DEF Updated
  <2>4. WorkflowsThere'
    BY <1>1, <1>8, <2>3, WorkflowsStayThere
  <2>5. IInv'
    BY <1>1, <1>8, <2>1, <2>2, <2>4, JournalKeeps
  <2>6. Store!Journalled(r, c.recordId, new, "record.updated")
    BY <1>8, JournalledTogether
  <2>7. why = "none" /\ Entries' = Entries
    BY <1>1, <1>4, <1>8 DEF Entries
  <2>8. Store!Update(r)
    BY <1>1, <1>8, <2>6, <2>7, SameDocuments, SameQuestions DEF Store!Update, Entries
  <2> QED
    BY <2>5, <2>8 DEF Store!Next
<1> QED
  BY <1>5, <1>6, <1>7, <1>8 DEF UpdateRecord

\* What the relay notes on an outbox event is no concern of the contract.
LEMMA MarkKeeps ==
  ASSUME IInv, NEW id, MarkOutboxPublished(id) \/ MarkOutboxFailed(id)
  PROVE  IInv' /\ UNCHANGED Store!vars
<1>1. UNCHANGED <<workflows, records, idempotency, audit, counter, call, reply>>
  BY DEF MarkOutboxPublished, MarkOutboxFailed
<1>2. PICK i \in DOMAIN outbox :
        \/ outbox' = [outbox EXCEPT ![i].published = TRUE]
        \/ outbox' = [outbox EXCEPT ![i].attempts = @ + 1]
  BY DEF MarkOutboxPublished, MarkOutboxFailed
<1>3. /\ outbox \in Seq(Elements(outbox))
      /\ \A j \in DOMAIN outbox : DOMAIN outbox[j] = {"event", "id", "published", "attempts"}
  BY DEF IInv
<1>4. PICK entry :
        /\ outbox' = [outbox EXCEPT ![i] = entry]
        /\ entry.event = outbox[i].event /\ entry.id = outbox[i].id
        /\ DOMAIN entry = DOMAIN outbox[i]
  <2>1. CASE outbox' = [outbox EXCEPT ![i].published = TRUE]
    <3> DEFINE e == [outbox[i] EXCEPT !.published = TRUE]
    <3>1. outbox' = [outbox EXCEPT ![i] = e]
      BY <2>1
    <3>2. e.event = outbox[i].event /\ e.id = outbox[i].id /\ DOMAIN e = DOMAIN outbox[i]
      BY <1>3
    <3> HIDE DEF e
    <3> QED
      BY <3>1, <3>2
  <2>2. CASE outbox' = [outbox EXCEPT ![i].attempts = @ + 1]
    <3> DEFINE e == [outbox[i] EXCEPT !.attempts = @ + 1]
    <3>1. outbox' = [outbox EXCEPT ![i] = e]
      BY <2>2
    <3>2. e.event = outbox[i].event /\ e.id = outbox[i].id /\ DOMAIN e = DOMAIN outbox[i]
      BY <1>3
    <3> HIDE DEF e
    <3> QED
      BY <3>1, <3>2
  <2> QED
    BY <1>2, <2>1, <2>2
<1>5. /\ DOMAIN outbox' = DOMAIN outbox
      /\ \A j \in DOMAIN outbox : /\ outbox'[j].event = outbox[j].event
                                  /\ outbox'[j].id = outbox[j].id
                                  /\ DOMAIN outbox'[j] = DOMAIN outbox[j]
  BY <1>4
<1>6. outbox' \in Seq(Elements(outbox'))
  <2>1. Len(outbox) \in Nat /\ DOMAIN outbox = 1..Len(outbox)
    BY <1>3
  <2>2. outbox' \in [1..Len(outbox) -> Elements(outbox')]
    BY <1>4, <2>1 DEF Elements
  <2> QED
    BY <2>1, <2>2
<1>7. GivenIds' = GivenIds /\ IdsAreUnique'
  BY <1>1, <1>5 DEF IInv, GivenIds, IdsAreUnique
<1>8. Announced' = Announced
  BY <1>5 DEF Announced, Elements
<1>9. CallsKnown' /\ WorkflowsThere'
  BY <1>1 DEF IInv, CallsKnown, WorkflowsThere
<1>10. IInv'
  BY <1>1, <1>3, <1>5, <1>6, <1>7, <1>9 DEF IInv
<1> QED
  BY <1>1, <1>8, <1>10 DEF Store!vars, Announced

-----------------------------------------------------------------------------
(* The theorems. *)

\* Every step keeps the invariant.
LEMMA NextKeeps == IInv /\ [Next]_vars => IInv'
<1> SUFFICES ASSUME IInv, [Next]_vars PROVE IInv'
  OBVIOUS
<1>1. CASE Next
  BY <1>1, CreateWorkflowKeeps, ReceiveKeeps, CreateRecordKeeps, UpdateRecordKeeps, MarkKeeps DEF Next
<1>2. CASE UNCHANGED vars
  BY <1>2, QuietKeeps DEF vars, IInv, CallsKnown
<1> QED
  BY <1>1, <1>2

\* Every step is one of the contract or none.
LEMMA NextImplements == NoColon /\ IInv /\ [Next]_vars => [Store!Next]_(Store!vars)
<1> SUFFICES ASSUME NoColon, IInv, [Next]_vars PROVE [Store!Next]_(Store!vars)
  OBVIOUS
<1>1. CASE Next
  BY <1>1, CreateWorkflowKeeps, ReceiveKeeps, CreateRecordImplements, UpdateRecordKeeps, MarkKeeps DEF Next
<1>2. CASE UNCHANGED vars
  BY <1>2 DEF vars, Store!vars, Elements
<1> QED
  BY <1>1, <1>2

\* The invariant holds always.
LEMMA Invariance == Spec => []IInv
BY InitHolds, NextKeeps, PTL DEF Spec

\* The counter gives no identifier twice, however many workflows, records and events
\* draw from it, so that MarkOutboxPublished and MarkOutboxFailed find their event.
THEOREM IdsAlwaysUnique == Spec => []IdsAreUnique
<1>1. IInv => IdsAreUnique
  BY DEF IInv
<1> QED
  BY <1>1, Invariance, PTL

\* Where no tenant has a colon, MemoryStore is the atomic store: every method is one
\* of its operations, or nothing that its callers could tell.
THEOREM MemoryImplementsStore ==
  ASSUME NoColon
  PROVE  Spec => ImplementsRecordStore
<1>1. IInv /\ [Next]_vars => [Store!Next]_(Store!vars)
  BY NextImplements
<1> QED
  BY <1>1, InitImplements, Invariance, PTL DEF Spec, ImplementsRecordStore, Store!Spec

-----------------------------------------------------------------------------
(* What RecordStore_proofs shows of the contract holds of MemoryStore. *)

StoreProofs == INSTANCE RecordStore_proofs WITH
  Faults <- FALSE, idempotency <- Entries, audit <- Elements(audit), outbox <- Announced

\* The assumptions of the contract hold of the constants of MemoryStore.
LEMMA StoreAssumed ==
  /\ NoKey \notin Keys
  /\ NoState \notin States
  /\ NoRecord \notin RecordIds
  /\ StateLists \subseteq Seq(States)
  /\ Calls \subseteq StoreProofs!CreateCalls \cup StoreProofs!UpdateCalls
  /\ NoCall \notin Calls
  /\ FALSE \in BOOLEAN
BY DomainAssumption
DEF CreateCalls, UpdateCalls, StoreProofs!CreateCalls, StoreProofs!UpdateCalls

\* Its documents, answers and questions are the same.
LEMMA SameContract ==
  /\ Store!EmptyMap = StoreProofs!EmptyMap
  /\ \A f, k, v : Store!Put(f, k, v) = StoreProofs!Put(f, k, v)
  /\ \A c : Store!Slot(c) = StoreProofs!Slot(c)
  /\ \A c, wf : Store!NewRecord(c, wf) = StoreProofs!NewRecord(c, wf)
  /\ \A c, rec : Store!Updated(rec, c) = StoreProofs!Updated(rec, c)
  /\ \A status : Store!Answer(status) = StoreProofs!Answer(status)
  /\ \A status, id, rec : Store!AnswerWith(status, id, rec) = StoreProofs!AnswerWith(status, id, rec)
  /\ \A wfs, id, t : Store!HasWorkflow(wfs, id, t) <=> StoreProofs!HasWorkflow(wfs, id, t)
  /\ \A c, wfs, recs : Store!UpdateRefusal(c, wfs, recs) = StoreProofs!UpdateRefusal(c, wfs, recs)
<1>1. \A f, k, v : Store!Put(f, k, v) = StoreProofs!Put(f, k, v)
  BY DEF Store!Put, StoreProofs!Put
<1>2. /\ \A c : Store!Slot(c) = StoreProofs!Slot(c)
      /\ \A c, wf : Store!NewRecord(c, wf) = StoreProofs!NewRecord(c, wf)
      /\ \A c, rec : Store!Updated(rec, c) = StoreProofs!Updated(rec, c)
  BY DEF Store!Slot, StoreProofs!Slot, Store!NewRecord, StoreProofs!NewRecord,
         Store!Updated, StoreProofs!Updated
<1>3. /\ Store!EmptyMap = StoreProofs!EmptyMap
      /\ \A status : Store!Answer(status) = StoreProofs!Answer(status)
      /\ \A status, id, rec :
           Store!AnswerWith(status, id, rec) = StoreProofs!AnswerWith(status, id, rec)
  BY DEF Store!EmptyMap, StoreProofs!EmptyMap, Store!Answer, StoreProofs!Answer,
         Store!AnswerWith, StoreProofs!AnswerWith
<1>4. /\ \A wfs, id, t : Store!HasWorkflow(wfs, id, t) <=> StoreProofs!HasWorkflow(wfs, id, t)
      /\ \A recs, id, t : Store!HasRecord(recs, id, t) <=> StoreProofs!HasRecord(recs, id, t)
      /\ \A wf, s : Store!Declares(wf, s) <=> StoreProofs!Declares(wf, s)
      /\ \A c, rec : Store!UpToDate(c, rec) <=> StoreProofs!UpToDate(c, rec)
  BY DEF Store!HasWorkflow, StoreProofs!HasWorkflow, Store!HasRecord, StoreProofs!HasRecord,
         Store!Declares, StoreProofs!Declares, Store!UpToDate, StoreProofs!UpToDate
<1>5. \A c, wfs, rec : Store!Allows(c, wfs, rec) <=> StoreProofs!Allows(c, wfs, rec)
  BY <1>4 DEF Store!Allows, StoreProofs!Allows
<1>6. \A c, wfs, recs : Store!UpdateRefusal(c, wfs, recs) = StoreProofs!UpdateRefusal(c, wfs, recs)
  BY <1>4, <1>5 DEF Store!UpdateRefusal, StoreProofs!UpdateRefusal
<1> QED
  BY <1>1, <1>2, <1>3, <1>4, <1>6

\* So are its steps.
LEMMA SameSteps ==
  /\ Store!Init => StoreProofs!Init
  /\ [Store!Next]_(Store!vars) => [StoreProofs!Next]_(StoreProofs!vars)
<1>1. \A r, op : /\ Store!Pending(r, op) <=> StoreProofs!Pending(r, op)
                 /\ Store!Unfinished(r, op) <=> StoreProofs!Unfinished(r, op)
  BY DEF Store!Pending, StoreProofs!Pending, Store!Unfinished, StoreProofs!Unfinished, Announced
<1>2. \A r, answer : Store!Respond(r, answer) <=> StoreProofs!Respond(r, answer)
  BY DEF Store!Respond, StoreProofs!Respond
<1>3. \A r, id, rec, type :
        Store!Journalled(r, id, rec, type) <=> StoreProofs!Journalled(r, id, rec, type)
  BY DEF Store!Journalled, StoreProofs!Journalled, Store!AuditOf, StoreProofs!AuditOf,
         Store!OutboxOf, StoreProofs!OutboxOf, Announced
<1>4. \A c : Store!KeyFree(c) <=> StoreProofs!KeyFree(c)
  BY SameContract DEF Store!KeyFree, StoreProofs!KeyFree, Entries
<1>5. Store!Init => StoreProofs!Init
  BY SameContract DEF Store!Init, StoreProofs!Init, Entries, Announced
<1>6. \A id, t, states : Store!CreateWorkflow(id, t, states) => StoreProofs!CreateWorkflow(id, t, states)
  BY SameContract DEF Store!CreateWorkflow, StoreProofs!CreateWorkflow, Entries, Announced
<1>7. Store!db = StoreProofs!db /\ Store!vars = StoreProofs!vars
      /\ (UNCHANGED Store!db <=> UNCHANGED StoreProofs!db)
      /\ (UNCHANGED Store!vars <=> UNCHANGED StoreProofs!vars)
  BY DEF Store!db, StoreProofs!db, Store!vars, StoreProofs!vars, Entries, Announced
<1>8. \A r, c : Store!Receive(r, c) => StoreProofs!Receive(r, c)
  BY SameContract, <1>2, <1>7 DEF Store!Receive, StoreProofs!Receive
<1>9. \A r, id : Store!Create(r, id) => StoreProofs!Create(r, id)
  BY SameContract, <1>1, <1>2, <1>3, <1>4 DEF Store!Create, StoreProofs!Create, Entries
<1>10. \A r : Store!Replay(r) => StoreProofs!Replay(r)
  BY SameContract, <1>1, <1>2, <1>7 DEF Store!Replay, StoreProofs!Replay, Entries
<1>11. \A r : Store!Update(r) => StoreProofs!Update(r)
  BY SameContract, <1>1, <1>2, <1>3 DEF Store!Update, StoreProofs!Update, Entries
<1>12. \A r : /\ Store!RefuseCreate(r) => StoreProofs!RefuseCreate(r)
              /\ Store!RefuseUpdate(r) => StoreProofs!RefuseUpdate(r)
  BY SameContract, <1>1, <1>2, <1>7
  DEF Store!RefuseCreate, StoreProofs!RefuseCreate, Store!RefuseUpdate, StoreProofs!RefuseUpdate
<1>13. \A r : Store!Fail(r) => StoreProofs!Fail(r)
  BY DEF Store!Fail
<1>14. Store!Next => StoreProofs!Next
  BY <1>6, <1>8, <1>9, <1>10, <1>11, <1>12, <1>13 DEF Store!Next, StoreProofs!Next
<1> QED
  BY <1>5, <1>7, <1>14

\* So the promises of the contract hold of the in-memory store where no tenant has
\* a colon: retries agree, answers are true and no update is lost.
THEOREM PromisesKept ==
  ASSUME NoColon
  PROVE  Spec => []StoreProofs!Promises
<1>1. Spec => StoreProofs!Spec
  BY MemoryImplementsStore, SameSteps, PTL
  DEF ImplementsRecordStore, Store!Spec, StoreProofs!Spec
<1>2. StoreProofs!Spec => []StoreProofs!Promises
  BY StoreAssumed, StoreProofs!PromisesKept
<1> QED
  BY <1>1, <1>2, PTL

-----------------------------------------------------------------------------
(* The types. *)

\* What the relay has noted on the events, counted up to the bound.
DeliveryNoted ==
  \A i \in DOMAIN outbox :
    outbox[i].published \in BOOLEAN /\ outbox[i].attempts \in 0..MaxAttempts

\* A new event has not been tried, and marking counts one attempt.
LEMMA NotesKeep ==
  ASSUME IInv, DeliveryNoted, [Next]_vars
  PROVE  DeliveryNoted'
<1>0. outbox \in Seq(Elements(outbox)) /\ counter \in Nat /\ MaxAttempts \in Nat
  BY MemoryAssumption DEF IInv
<1>1. CASE UNCHANGED outbox
  BY <1>1 DEF DeliveryNoted
<1>2. ASSUME NEW r, NEW id, NEW rec, NEW type, NEW drawn, Journalled(r, id, rec, type, drawn)
      PROVE  DeliveryNoted'
  <2>1. PICK entry : /\ outbox' = Append(outbox, entry)
                     /\ entry.published = FALSE /\ entry.attempts = 0
    BY <1>2 DEF Journalled
  <2>2. /\ Len(outbox) \in Nat /\ DOMAIN outbox = 1..Len(outbox)
        /\ DOMAIN outbox' = 1..(Len(outbox) + 1)
        /\ \A i \in DOMAIN outbox : outbox'[i] = outbox[i]
        /\ outbox'[Len(outbox) + 1] = entry
    BY <1>0, <2>1, Appended
  <2>3. ASSUME NEW i \in DOMAIN outbox', i \notin DOMAIN outbox
        PROVE  outbox'[i] = entry
    BY <2>2, <2>3
  <2>4. entry.published \in BOOLEAN
    BY <2>1
  <2>5. entry.attempts \in 0..MaxAttempts
    BY <1>0, <2>1
  <2>6. ASSUME NEW i \in DOMAIN outbox'
        PROVE  outbox'[i].published \in BOOLEAN /\ outbox'[i].attempts \in 0..MaxAttempts
    BY <2>2, <2>3, <2>4, <2>5, Zenon DEF DeliveryNoted
  <2> QED
    BY <2>6 DEF DeliveryNoted
<1>3. ASSUME NEW id, MarkOutboxPublished(id) \/ MarkOutboxFailed(id)
      PROVE  DeliveryNoted'
  <2>1. PICK i \in DOMAIN outbox :
          \/ outbox' = [outbox EXCEPT ![i].published = TRUE]
          \/ /\ outbox[i].attempts < MaxAttempts
             /\ outbox' = [outbox EXCEPT ![i].attempts = @ + 1]
    BY <1>3 DEF MarkOutboxPublished, MarkOutboxFailed
  <2>2. /\ DOMAIN outbox' = DOMAIN outbox
        /\ \A j \in DOMAIN outbox : j # i => outbox'[j] = outbox[j]
    BY <2>1
  <2>3. DOMAIN outbox[i] = {"event", "id", "published", "attempts"}
    BY DEF IInv
  <2>4. outbox[i].published \in BOOLEAN /\ outbox[i].attempts \in 0..MaxAttempts
    BY DEF DeliveryNoted
  <2>5. CASE outbox' = [outbox EXCEPT ![i].published = TRUE]
    <3>1. outbox'[i].published = TRUE /\ outbox'[i].attempts = outbox[i].attempts
      BY <2>3, <2>5
    <3> QED
      BY <2>2, <2>4, <3>1 DEF DeliveryNoted
  <2>6. CASE /\ outbox[i].attempts < MaxAttempts
             /\ outbox' = [outbox EXCEPT ![i].attempts = @ + 1]
    <3>1. outbox'[i].published = outbox[i].published
      BY <2>3, <2>6
    <3>2. outbox'[i].attempts = outbox[i].attempts + 1
      BY <2>3, <2>6
    <3>3. outbox'[i].attempts \in 0..MaxAttempts
      BY <1>0, <2>4, <2>6, <3>2
    <3> QED
      BY <2>2, <2>4, <3>1, <3>3 DEF DeliveryNoted
  <2> QED
    BY <2>1, <2>5, <2>6
<1>4. ASSUME NEW r \in Requests, CreateRecord(r) \/ UpdateRecord(r)
      PROVE  DeliveryNoted'
  BY <1>1, <1>2, <1>4 DEF CreateRecord, UpdateRecord
<1>5. CASE \/ \E t \in Tenants, states \in StateLists : CreateWorkflow(t, states)
           \/ \E r \in Requests, c \in Calls : Receive(r, c)
           \/ UNCHANGED vars
  BY <1>1, <1>5 DEF CreateWorkflow, Receive, vars
<1> QED
  BY <1>3, <1>4, <1>5 DEF Next

\* The contract's types are those of RecordStore_proofs.
LEMMA SameTypes == StoreProofs!TypeOK <=> Store!TypeOK
<1>1. /\ Store!Workflows = StoreProofs!Workflows /\ Store!Records = StoreProofs!Records
      /\ Store!AuditEvents = StoreProofs!AuditEvents
      /\ Store!OutboxEvents = StoreProofs!OutboxEvents
      /\ Store!Slots = StoreProofs!Slots /\ Store!Replies = StoreProofs!Replies
  BY DEF Store!Workflows, StoreProofs!Workflows, Store!Records, StoreProofs!Records,
         Store!AuditEvents, StoreProofs!AuditEvents, Store!OutboxEvents,
         StoreProofs!OutboxEvents, Store!EventTypes, StoreProofs!EventTypes,
         Store!Slots, StoreProofs!Slots, Store!Replies, StoreProofs!Replies,
         Store!Statuses, StoreProofs!Statuses
<1>2. \A f, S, T : Store!IsMap(f, S, T) <=> StoreProofs!IsMap(f, S, T)
  BY DEF Store!IsMap, StoreProofs!IsMap
<1> QED
  BY <1>1, <1>2 DEF Store!TypeOK, StoreProofs!TypeOK, Entries, Announced

\* Every variable keeps its type where no tenant has a colon; the contract's part of
\* it comes through the refinement.
THEOREM TypeCorrect ==
  ASSUME NoColon
  PROVE  Spec => []TypeOK
<1>1. Init => DeliveryNoted
  BY DEF Init, DeliveryNoted
<1>2. Spec => [](IInv /\ DeliveryNoted)
  BY <1>1, InitHolds, NextKeeps, NotesKeep, PTL DEF Spec
<1>3. Spec => StoreProofs!Spec
  BY MemoryImplementsStore, SameSteps, PTL
  DEF ImplementsRecordStore, Store!Spec, StoreProofs!Spec
<1>4. StoreProofs!Spec => []StoreProofs!TypeOK
  BY StoreAssumed, StoreProofs!TypeCorrect
<1>5. IInv /\ DeliveryNoted /\ StoreProofs!TypeOK => TypeOK
  BY SameTypes DEF IInv, DeliveryNoted, TypeOK
<1> QED
  BY <1>2, <1>3, <1>4, <1>5, PTL
=============================================================================
