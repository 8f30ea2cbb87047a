---------------------------- MODULE EventDelivery ----------------------------
(***************************************************************************)
(* What the pipeline from the outbox to the notifications promises: an     *)
(* event of the outbox is sent to its partition, perhaps more than once,   *)
(* and only then marked as published; the messages of a partition are      *)
(* processed in order, repetitions apart; an offset is committed only over *)
(* processed messages, but may go back.  The order of the partition itself *)
(* is only promised by a system that loses none of its messages: ordered   *)
(* says, for good, whether this one does.                                  *)
(***************************************************************************)
EXTENDS Integers, Sequences

CONSTANTS
  Events,
  Partitions,
  LogOf,        \* event -> the partition of its record
  Before        \* pairs of events that an ordered system keeps in order

ASSUME DeliveryAssumption ==
  /\ LogOf \in [Events -> Partitions]
  /\ Before \subseteq Events \X Events
  /\ \A b \in Before : LogOf[b[1]] = LogOf[b[2]]

VARIABLES
  ordered,      \* whether messages are sent in order, for good
  outbox,       \* events whose transaction committed
  published,    \* events marked as published
  topic,        \* partition -> its messages
  offset,       \* partition -> how many messages are committed
  notified,     \* events with a notification
  deadLetters   \* events in the dead-letter topic

vars == <<ordered, outbox, published, topic, offset, notified, deadLetters>>

Processed(e) == e \in notified \cup deadLetters

Init ==
  /\ ordered \in BOOLEAN
  /\ outbox = {}
  /\ published = {}
  /\ topic = [p \in Partitions |-> <<>>]
  /\ offset = [p \in Partitions |-> 0]
  /\ notified = {}
  /\ deadLetters = {}

Accept(e) ==
  /\ e \notin outbox
  /\ outbox' = outbox \cup {e}
  /\ UNCHANGED <<ordered, published, topic, offset, notified, deadLetters>>

\* In an ordered system first in order, later any number of times.
Send(e) ==
  /\ e \in outbox
  /\ ordered =>
       \A d \in Events : <<d, e>> \in Before => \E i \in DOMAIN topic[LogOf[e]] : topic[LogOf[e]][i] = d
  /\ topic' = [topic EXCEPT ![LogOf[e]] = Append(@, e)]
  /\ UNCHANGED <<ordered, outbox, published, offset, notified, deadLetters>>

Settle(events) ==
  /\ \A e \in events : \E i \in DOMAIN topic[LogOf[e]] : topic[LogOf[e]][i] = e
  /\ published' = published \cup events
  /\ UNCHANGED <<ordered, outbox, topic, offset, notified, deadLetters>>

\* The event of a message behind processed ones becomes a notification, a dead
\* letter, or both.
Process(p, i) ==
  /\ \A j \in 1..(i - 1) : Processed(topic[p][j])
  /\ \/ notified' = notified \cup {topic[p][i]} /\ UNCHANGED deadLetters
     \/ deadLetters' = deadLetters \cup {topic[p][i]} /\ UNCHANGED notified
  /\ UNCHANGED <<ordered, outbox, published, topic, offset>>

CommitOffset(p, n) ==
  /\ \A i \in 1..n : Processed(topic[p][i])
  /\ offset' = [offset EXCEPT ![p] = n]
  /\ UNCHANGED <<ordered, outbox, published, topic, notified, deadLetters>>

Next ==
  \/ \E e \in Events : Accept(e) \/ Send(e)
  \/ \E events \in SUBSET outbox : Settle(events)
  \/ \E p \in Partitions :
       \/ \E i \in DOMAIN topic[p] : Process(p, i)
       \/ \E n \in 0..Len(topic[p]) : CommitOffset(p, n)

Spec == Init /\ [][Next]_vars

-----------------------------------------------------------------------------

\* In an ordered system, of two events that are kept in order the later one is never
\* notified, nor given up on, before the earlier one.
ProcessedInOrder ==
  ordered => \A b \in Before : Processed(b[2]) => Processed(b[1])
=============================================================================
