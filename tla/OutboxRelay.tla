----------------------------- MODULE OutboxRelay -----------------------------
(***************************************************************************)
(* The outbox relay (cmd/outbox-relay) with the Kafka publisher it uses    *)
(* (internal/events/kafka.go) and the outbox methods of MongoStore.        *)
(*                                                                         *)
(* A relay lists unpublished events, publishes them to the topic and marks *)
(* them published; nothing makes these three one step.  A relay that dies  *)
(* is started again, and two relays run at once while one is replaced.     *)
(*                                                                         *)
(* Events of one record are numbered in the order of its versions.  Their  *)
(* createdAt comes from the clocks of several API processes, kept in       *)
(* milliseconds: it may be equal for two events, or the wrong way round.   *)
(* Attempt counters are left out: nothing reads them.                      *)
(***************************************************************************)
EXTENDS Integers, FiniteSets, Sequences, SequencesExt

CONSTANTS
  Events,         \* numbers: those of one record in the order of its versions
  Partitions,
  RecordOf,       \* event -> the record it is about, the key of its message
  CreatedAt,      \* event -> its createdAt
  PartitionOf,    \* record -> the partition that the Hash balancer gives it
  Relays,
  BatchSize,      \* outboxBatchSize
  Settings,       \* the settings to choose from: batched, whether PublishBatch and
                  \* MarkOutboxPublishedBatch are used; rejected, the events whose
                  \* message Kafka never accepts; lossy, whether a publish call may
                  \* lose messages
  MaxFaults       \* bound: how many calls fail and relays die

ASSUME RelayAssumption ==
  /\ Events \subseteq Nat
  /\ \A e \in Events : /\ RecordOf[e] \in DOMAIN PartitionOf
                       /\ PartitionOf[RecordOf[e]] \in Partitions
  /\ CreatedAt \in [Events -> Nat]
  /\ BatchSize \in Nat \ {0}
  /\ Settings \subseteq [batched: BOOLEAN, rejected: SUBSET Events, lossy: BOOLEAN]
  /\ MaxFaults \in Nat

VARIABLES
  setting,     \* the setting of this system, for good
  committed,   \* events in the outbox collection
  published,   \* events with a publishedAt
  lastError,   \* events with a lastError
  topic,       \* partition -> the events appended to it
  pc,          \* relay -> what it does next
  items,       \* relay -> the listed events it has not finished with
  sending,     \* relay -> events of its call that are still to be handled
  failed,      \* relays whose publish call has had an error
  faults

vars == <<setting, committed, published, lastError, topic, pc, items, sending, failed, faults>>

TypeOK ==
  /\ setting \in Settings
  /\ committed \subseteq Events
  /\ published \subseteq committed
  /\ lastError \subseteq committed
  /\ topic \in [Partitions -> Seq(committed)]
  /\ pc \in [Relays -> {"poll", "publish", "mark", "fail", "down"}]
  /\ items \in [Relays -> Seq(committed)]
  /\ sending \in [Relays -> Seq(committed)]
  /\ failed \subseteq Relays
  /\ faults \in 0..MaxFaults

Init ==
  /\ setting \in Settings
  /\ committed = {}
  /\ published = {}
  /\ lastError = {}
  /\ topic = [p \in Partitions |-> <<>>]
  /\ pc = [w \in Relays |-> "poll"]
  /\ items = [w \in Relays |-> <<>>]
  /\ sending = [w \in Relays |-> <<>>]
  /\ failed = {}
  /\ faults = 0

-----------------------------------------------------------------------------

Log(e) == PartitionOf[RecordOf[e]]

Appended(e) == topic' = [topic EXCEPT ![Log(e)] = Append(@, e)]

Fault == faults < MaxFaults /\ faults' = faults + 1

\* The lists that a sort by createdAt can give.
Sorted(events) ==
  {list \in SetToSeqs(events) :
     \A i, j \in DOMAIN list : i < j => CreatedAt[list[i]] <= CreatedAt[list[j]]}

Limited(lists) ==
  {SubSeq(list, 1, IF Len(list) < BatchSize THEN Len(list) ELSE BatchSize) : list \in lists}

\* Mutant: newest first.
PendingNewestFirst == Limited({Reverse(list) : list \in Sorted(committed \ published)})

\* Mutant: events of open transactions are listed too.
PendingUncommitted == Limited(Sorted(Events \ published))

\* ListPendingOutbox: unpublished, oldest first, no more than the batch size;
\* events with the same createdAt come in any order.
Pending == Limited(Sorted(committed \ published))

\* The events of one publish call: all that were listed, or one of them.
Call(list) == IF setting.batched \/ list = <<>> THEN list ELSE <<Head(list)>>


\* What is left of the list after that call; publishSequential goes on with the
\* next event whether or not this one failed.
AfterCall(list) == IF setting.batched THEN <<>> ELSE Tail(list)

\* The events that a call marks.
Marks(list) == ToSet(Call(list))

Marked(marked) ==
  /\ published' = published \cup marked
  /\ lastError' = lastError \ marked

\* A publish call begins.  WriteMessages first looks at every message and sends
\* none if one is too large.
Start(w, list) ==
  LET rejects == ToSet(Call(list)) \cap setting.rejected # {}
  IN /\ items' = [items EXCEPT ![w] = list]
     /\ sending' = [sending EXCEPT ![w] = Call(list)]
     /\ pc' = [pc EXCEPT ![w] = IF list = <<>> THEN "poll"
                                ELSE IF rejects THEN "fail" ELSE "publish"]
     /\ failed' = failed \ {w}

-----------------------------------------------------------------------------

\* The transaction of a record change commits.  Transactions on different
\* records may commit in any order; of one record they follow each other.
Commit(e) ==
  /\ e \notin committed
  /\ \A d \in Events : d < e /\ RecordOf[d] = RecordOf[e] => d \in committed
  /\ committed' = committed \cup {e}
  /\ UNCHANGED <<setting, published, lastError, topic, pc, items, sending, failed, faults>>

List(w) ==
  /\ pc[w] = "poll"
  /\ \E list \in Pending : list # <<>> /\ Start(w, list)
  /\ UNCHANGED <<setting, committed, published, lastError, topic, faults>>

\* One message of the call reaches its partition.
Write(w) ==
  /\ pc[w] = "publish"
  /\ sending[w] # <<>>
  /\ Appended(Head(sending[w]))
  /\ sending' = [sending EXCEPT ![w] = Tail(@)]
  /\ UNCHANGED <<setting, committed, published, lastError, pc, items, failed, faults>>

\* The acknowledgement is lost, and the writer sends again from an earlier message
\* of the call.
WriteAgain(w) ==
  LET sent == Len(Call(items[w])) - Len(sending[w])
  IN /\ Fault
     /\ pc[w] = "publish"
     /\ \E i \in 1..sent :
          sending' = [sending EXCEPT ![w] =
                        SubSeq(Call(items[w]), i, Len(Call(items[w])))]
     /\ UNCHANGED <<setting, committed, published, lastError, topic, pc, items, failed>>

\* The call will return an error: this message was not written, or was written
\* without an acknowledgement.
WriteError(w) ==
  /\ Fault
  /\ pc[w] = "publish"
  /\ sending[w] # <<>>
  /\ \/ setting.lossy /\ UNCHANGED topic
     \/ Appended(Head(sending[w]))
  /\ sending' = [sending EXCEPT ![w] = Tail(@)]
  /\ failed' = failed \cup {w}
  /\ UNCHANGED <<setting, committed, published, lastError, pc, items>>

\* Mutant: the error of the call is dropped.
WrittenInAnyCase(w) ==
  /\ pc[w] = "publish"
  /\ sending[w] = <<>>
  /\ pc' = [pc EXCEPT ![w] = "mark"]
  /\ sending' = [sending EXCEPT ![w] = Call(items[w])]
  /\ UNCHANGED <<setting, committed, published, lastError, topic, items, failed, faults>>

\* The publish call returns.
Written(w) ==
  /\ pc[w] = "publish"
  /\ sending[w] = <<>>
  /\ pc' = [pc EXCEPT ![w] = IF w \in failed THEN "fail" ELSE "mark"]
  /\ sending' = [sending EXCEPT ![w] = Call(items[w])]
  /\ UNCHANGED <<setting, committed, published, lastError, topic, items, failed, faults>>

\* MarkOutboxPublishedBatch or MarkOutboxPublished.
Mark(w) ==
  /\ pc[w] = "mark"
  /\ Marked(Marks(items[w]))
  /\ Start(w, AfterCall(items[w]))
  /\ UNCHANGED <<setting, committed, topic, faults>>

\* The update of the marks fails after it has reached some of the events.
MarkError(w) ==
  /\ Fault
  /\ pc[w] = "mark"
  /\ \E marked \in SUBSET Marks(items[w]) : Marked(marked)
  /\ Start(w, AfterCall(items[w]))
  /\ UNCHANGED <<setting, committed, topic>>

\* MarkOutboxFailed, event by event; its own errors are ignored.
MarkFailed(w) ==
  LET e    == Head(sending[w])
      last == Len(sending[w]) = 1
  IN /\ pc[w] = "fail"
     /\ \/ lastError' = lastError \cup {e} /\ UNCHANGED faults
        \/ Fault /\ UNCHANGED lastError
     /\ \/ last /\ Start(w, AfterCall(items[w]))
        \/ /\ ~last
           /\ sending' = [sending EXCEPT ![w] = Tail(@)]
           /\ UNCHANGED <<setting, pc, items, failed>>
     /\ UNCHANGED <<setting, committed, published, topic>>

Crash(w) ==
  /\ Fault
  /\ pc[w] # "down"
  /\ pc' = [pc EXCEPT ![w] = "down"]
  /\ items' = [items EXCEPT ![w] = <<>>]
  /\ sending' = [sending EXCEPT ![w] = <<>>]
  /\ failed' = failed \ {w}
  /\ UNCHANGED <<setting, committed, published, lastError, topic>>

Restart(w) ==
  /\ pc[w] = "down"
  /\ pc' = [pc EXCEPT ![w] = "poll"]
  /\ UNCHANGED <<setting, committed, published, lastError, topic, items, sending, failed, faults>>

Run(w) == List(w) \/ Write(w) \/ Written(w) \/ Mark(w) \/ MarkFailed(w) \/ Restart(w)

Next ==
  \/ \E e \in Events : Commit(e)
  \/ \E w \in Relays :
       Run(w) \/ WriteAgain(w) \/ WriteError(w) \/ MarkError(w) \/ Crash(w)

Spec == Init /\ [][Next]_vars

\* A relay polls for ever, its calls return, and it is started again.
Fairness == \A w \in Relays : WF_vars(Run(w))

FairSpec == Spec /\ Fairness

-----------------------------------------------------------------------------

InTopic(e) == e \in ToSet(topic[Log(e)])

\* No event is marked as published that is not in the topic, whatever fails and
\* however many relays run: "This avoids committing a database state change while
\* losing the intent to publish" (docs/architecture.md).
PublishedInTopic == \A e \in published : InTopic(e)

\* d is an earlier version of e's record, and its createdAt says so.
Precedes(d, e) == d < e /\ RecordOf[d] = RecordOf[e] /\ CreatedAt[d] < CreatedAt[e]

\* Every message that is given up in a call is given up with all that follow it:
\* no call loses messages, and sequential calls meet none that Kafka rejects.
Lossless == ~setting.lossy /\ (setting.batched \/ setting.rejected = {})

\* The messages of a record are in order: an event, also a repeated one, is only
\* found after every event that precedes it.  Consumers may see old events again
\* but never miss the ones in between.  It holds while no message is left out
\* (publishSequential goes on behind an event that Kafka rejects), and as far as
\* the clocks tell the versions apart.
RecordsInOrder ==
  Lossless =>
    \A p \in Partitions : \A i \in DOMAIN topic[p] : \A d \in Events :
      Precedes(d, topic[p][i]) => \E j \in 1..(i - 1) : topic[p][j] = d

\* When calls do lose messages, batches repair the order: an event that is marked
\* as published is in the topic after every event that precedes it, though it may
\* be there before them too.  (PublishBatch fails as a whole, and the next list
\* starts with what was lost.  The sequential path goes on behind an error.)
PublishedInOrder ==
  setting.batched =>
    \A e \in published : \A d \in Events :
      Precedes(d, e) => \E j \in DOMAIN topic[Log(e)] : \E i \in 1..(j - 1) :
                          topic[Log(e)][i] = d /\ topic[Log(e)][j] = e

Accepted(e) == e \in committed /\ e \notin setting.rejected

\* Every committed event that Kafka accepts is published in the end: neither
\* crashes, nor errors, nor a rejected event of another record keep it back.
\* "expected 99 successfully published events from first batch"
\* (cmd/outbox-relay/main_test.go, where one event of a hundred fails).
AcceptedEventsPublished == \A e \in Events : Accepted(e) ~> e \in published

=============================================================================
