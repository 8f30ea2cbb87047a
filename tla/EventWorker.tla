----------------------------- MODULE EventWorker -----------------------------
(***************************************************************************)
(* The event workers (cmd/event-worker, internal/events/consumer.go): a    *)
(* Kafka consumer group that turns the events of the topic into            *)
(* notifications, or into dead letters when that fails.                    *)
(*                                                                         *)
(* A worker takes one message at a time from the partitions the group gave *)
(* it: handle, with retries; else publish to the dead-letter topic; then   *)
(* commit the offset.  Any error of the last two ends the process, which   *)
(* is started again.  A rebalance of the group does not reach the message  *)
(* a worker has in hand.                                                   *)
(*                                                                         *)
(* Only relays append to the topic: EventPipeline adds them.               *)
(***************************************************************************)
EXTENDS Integers, FiniteSets, Sequences

CONSTANTS
  Partitions,
  Workers,
  Events,
  LogOf,         \* event -> the partition of its record
  Undecodable,   \* events whose message is not the JSON of an event
  NoMessage,
  MaxAttempts,   \* maxAttempts
  MaxFaults      \* bound: crashes, shutdowns, lost replies, spare rebalances

ASSUME WorkerAssumption ==
  /\ LogOf \in [Events -> Partitions]
  /\ Undecodable \subseteq Events
  /\ Workers # {}
  /\ MaxAttempts \in Nat \ {0}
  /\ MaxFaults \in Nat

VARIABLES
  topic,          \* partition -> the events appended to it, some more than once
  committed,      \* partition -> how many messages are committed
  position,       \* partition -> how many messages its reader has fetched
  owner,          \* partition -> the worker it is assigned to
  notifications,  \* the notification documents, in the order of insertion
  deadLetters,    \* events in the dead-letter topic
  pc,             \* worker -> what it does next
  inHand,         \* worker -> the message it is working on
  attempt,        \* worker -> failed attempts to handle that message
  faults

log == <<topic, committed, position, owner>>
vars == <<topic, committed, position, owner, notifications, deadLetters,
          pc, inHand, attempt, faults>>

TypeOK ==
  /\ topic \in [Partitions -> Seq(Events)]
  /\ \A p \in Partitions :
       /\ committed[p] \in 0..Len(topic[p])
       /\ position[p] \in 0..Len(topic[p])
  /\ DOMAIN committed = Partitions
  /\ DOMAIN position = Partitions
  /\ owner \in [Partitions -> Workers]
  /\ notifications \in Seq(Events)
  /\ deadLetters \subseteq Events
  /\ pc \in [Workers -> {"fetch", "handle", "deadLetter", "commit", "down"}]
  /\ attempt \in [Workers -> 0..(MaxAttempts - 1)]
  /\ faults \in 0..MaxFaults
  /\ DOMAIN inHand = Workers
  /\ \A w \in Workers :
       IF pc[w] \in {"fetch", "down"} THEN inHand[w] = NoMessage
       ELSE /\ inHand[w] \in [partition: Partitions, offset: Nat \ {0}]
            /\ inHand[w].offset <= Len(topic[inHand[w].partition])

Init ==
  /\ topic = [p \in Partitions |-> <<>>]
  /\ committed = [p \in Partitions |-> 0]
  /\ position = [p \in Partitions |-> 0]
  /\ owner \in [Partitions -> Workers]
  /\ notifications = <<>>
  /\ deadLetters = {}
  /\ pc = [w \in Workers |-> "fetch"]
  /\ inHand = [w \in Workers |-> NoMessage]
  /\ attempt = [w \in Workers |-> 0]
  /\ faults = 0

-----------------------------------------------------------------------------

Fault == faults < MaxFaults /\ faults' = faults + 1

Event(m) == topic[m.partition][m.offset]

Goto(w, step) == pc' = [pc EXCEPT ![w] = step]

Notified == {notifications[i] : i \in DOMAIN notifications}

\* Mutant: the document gets an id of its own.
StoreAnotherNotification(e) == notifications' = Append(notifications, e)

\* StoreNotification: the event id is the id of the document, so a second insert
\* is refused, which is no error.
StoreNotification(e) ==
  notifications' = IF e \in Notified THEN notifications ELSE Append(notifications, e)

\* Mutant: the message survives the process.
ExitWithMessage(w) ==
  /\ Goto(w, "down")
  /\ attempt' = [attempt EXCEPT ![w] = 0]
  /\ UNCHANGED inHand

\* The process ends, whatever it was doing.
Exit(w) ==
  /\ Goto(w, "down")
  /\ inHand' = [inHand EXCEPT ![w] = NoMessage]
  /\ attempt' = [attempt EXCEPT ![w] = 0]

-----------------------------------------------------------------------------

\* A message that cannot be decoded goes to the dead letters without an attempt.
FetchMessage(w, p) ==
  LET m == [partition |-> p, offset |-> position[p] + 1]
  IN /\ pc[w] = "fetch"
     /\ owner[p] = w
     /\ position[p] < Len(topic[p])
     /\ position' = [position EXCEPT ![p] = @ + 1]
     /\ inHand' = [inHand EXCEPT ![w] = m]
     /\ Goto(w, IF Event(m) \in Undecodable THEN "deadLetter" ELSE "handle")
     /\ UNCHANGED <<topic, committed, owner, notifications, deadLetters, attempt, faults>>

Handle(w) ==
  /\ pc[w] = "handle"
  /\ StoreNotification(Event(inHand[w]))
  /\ Goto(w, "commit")
  /\ attempt' = [attempt EXCEPT ![w] = 0]
  /\ UNCHANGED <<log, deadLetters, inHand, faults>>

\* Mutant: after the last attempt it starts over.
HandleErrorForEver(w) ==
  /\ pc[w] = "handle"
  /\ \/ UNCHANGED notifications
     \/ StoreNotification(Event(inHand[w]))
  /\ attempt' = [attempt EXCEPT ![w] = IF @ + 1 >= MaxAttempts THEN 0 ELSE @ + 1]
  /\ UNCHANGED <<log, deadLetters, pc, inHand, faults>>

\* An attempt fails, before or after the insert.
HandleError(w) ==
  LET last == attempt[w] + 1 >= MaxAttempts
  IN /\ pc[w] = "handle"
     /\ \/ UNCHANGED notifications
        \/ StoreNotification(Event(inHand[w]))
     /\ Goto(w, IF last THEN "deadLetter" ELSE "handle")
     /\ attempt' = [attempt EXCEPT ![w] = IF last THEN 0 ELSE @ + 1]
     /\ UNCHANGED <<log, deadLetters, inHand, faults>>

\* The process is asked to stop while an attempt runs or a retry waits: retry
\* returns the context's error, and the dead letter that follows, sent under the
\* same context, ends in an error whether or not it is written.
StopWhileHandling(w) ==
  /\ Fault
  /\ pc[w] = "handle"
  /\ deadLetters' \in {deadLetters, deadLetters \cup {Event(inHand[w])}}
  /\ Exit(w)
  /\ UNCHANGED <<log, notifications>>

PublishDeadLetter(w) ==
  /\ pc[w] = "deadLetter"
  /\ deadLetters' = deadLetters \cup {Event(inHand[w])}
  /\ Goto(w, "commit")
  /\ UNCHANGED <<log, notifications, inHand, attempt, faults>>

PublishDeadLetterError(w) ==
  /\ Fault
  /\ pc[w] = "deadLetter"
  /\ deadLetters' \in {deadLetters, deadLetters \cup {Event(inHand[w])}}
  /\ Exit(w)
  /\ UNCHANGED <<log, notifications>>

\* Mutant: all that was fetched from the partition is committed.
CommittedFetched(w) ==
  committed' = [committed EXCEPT ![inHand[w].partition] = position[inHand[w].partition]]

\* The group takes the offset from any member, also when the partition has gone
\* to another one since: the committed offset may go back.
CommittedMessage(w) ==
  committed' = [committed EXCEPT ![inHand[w].partition] = inHand[w].offset]

CommitMessage(w) ==
  /\ pc[w] = "commit"
  /\ CommittedMessage(w)
  /\ Goto(w, "fetch")
  /\ inHand' = [inHand EXCEPT ![w] = NoMessage]
  /\ UNCHANGED <<topic, position, owner, notifications, deadLetters, attempt, faults>>

CommitError(w) ==
  /\ Fault
  /\ pc[w] = "commit"
  /\ UNCHANGED committed \/ CommittedMessage(w)
  /\ Exit(w)
  /\ UNCHANGED <<topic, position, owner, notifications, deadLetters>>

Crash(w) ==
  /\ Fault
  /\ pc[w] # "down"
  /\ Exit(w)
  /\ UNCHANGED <<log, notifications, deadLetters>>

\* Mutant: the new owner reads on where the old one was.
ReassignedWithPosition(members) ==
  /\ owner' \in [Partitions -> members]
  /\ UNCHANGED position

\* A new generation of the group: its members read on from the committed offsets.
Reassigned(members) ==
  /\ owner' \in [Partitions -> members]
  /\ position' = committed

Members == {w \in Workers : pc[w] # "down"}

\* The group notices that a member is gone.
Rebalance ==
  /\ Members # {}
  /\ \E p \in Partitions : owner[p] \notin Members
  /\ Reassigned(Members)
  /\ UNCHANGED <<topic, committed, notifications, deadLetters, pc, inHand, attempt, faults>>

\* A rebalance without cause: a member was slow to answer.
SpareRebalance ==
  /\ Fault
  /\ Members # {}
  /\ Reassigned(Members)
  /\ UNCHANGED <<topic, committed, notifications, deadLetters, pc, inHand, attempt>>

\* The process is started again and joins the group.
Restart(w) ==
  /\ pc[w] = "down"
  /\ Goto(w, "fetch")
  /\ Reassigned(Members \cup {w})
  /\ UNCHANGED <<topic, committed, notifications, deadLetters, inHand, attempt, faults>>

Run(w) ==
  \/ \E p \in Partitions : FetchMessage(w, p)
  \/ Handle(w)
  \/ HandleError(w)
  \/ PublishDeadLetter(w)
  \/ CommitMessage(w)
  \/ Restart(w)

Consume ==
  \/ Rebalance
  \/ SpareRebalance
  \/ \E w \in Workers :
       \/ Run(w)
       \/ StopWhileHandling(w)
       \/ PublishDeadLetterError(w)
       \/ CommitError(w)
       \/ Crash(w)

\* A worker goes on, is started again when it ended, and the group notices members
\* that are gone.  A worker that owns several partitions serves each of them.
Fairness ==
  /\ WF_vars(Rebalance)
  /\ \A w \in Workers :
       /\ WF_vars(Run(w))
       /\ \A p \in Partitions : SF_vars(FetchMessage(w, p))

-----------------------------------------------------------------------------

Processed(e) == e \in Notified \/ e \in deadLetters

\* No message is passed over: when an offset is committed, every message before it
\* has become a notification or a dead letter, in spite of crashes, rebalances and
\* the commits of workers that lost their partition.  "commits the Kafka message
\* only after successful handling or successful DLQ publication"
\* (docs/architecture.md).
CommittedAreProcessed ==
  \A p \in Partitions : \A i \in 1..committed[p] : Processed(topic[p][i])

\* However often an event is delivered and its insert retried, there is one
\* notification of it: "Kafka redelivery cannot create duplicate notifications"
\* (internal/domain/notification.go).
OneNotificationPerEvent ==
  \A i, j \in DOMAIN notifications : notifications[i] = notifications[j] => i = j
=============================================================================
