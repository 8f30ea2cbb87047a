---------------------------- MODULE EventPipeline ----------------------------
(***************************************************************************)
(* The pipeline from the outbox to the notifications: relays               *)
(* (OutboxRelay) and workers (EventWorker) over one topic.  It implements  *)
(* EventDelivery.                                                          *)
(***************************************************************************)
EXTENDS EventWorker

CONSTANTS
  RecordOf, CreatedAt, PartitionOf, Relays, BatchSize,
  Settings, MaxRelayFaults

VARIABLES
  setting, outbox, published, lastError, relayPc, items, sending, failed,
  relayFaults

relayVars == <<setting, outbox, published, lastError, relayPc, items, sending,
               failed, relayFaults>>
workerVars == <<committed, position, owner, notifications, deadLetters, pc,
                inHand, attempt, faults>>
pipelineVars == <<relayVars, topic, workerVars>>

Relay == INSTANCE OutboxRelay WITH
  committed <- outbox, pc <- relayPc, faults <- relayFaults,
  MaxFaults <- MaxRelayFaults

\* The two sides fit together: one topic, and constants that are the relays'.
ASSUME PipelineAssumption ==
  /\ Events \subseteq Nat
  /\ \A e \in Events : RecordOf[e] \in DOMAIN PartitionOf
  /\ CreatedAt \in [Events -> Nat]
  /\ BatchSize \in Nat \ {0}
  /\ MaxRelayFaults \in Nat
  /\ LogOf = [e \in Events |-> Relay!Log(e)]
  /\ Settings \subseteq [batched: BOOLEAN, rejected: SUBSET Events, lossy: BOOLEAN]

PipelineInit == Relay!Init /\ Init

PipelineNext ==
  \/ Relay!Next /\ UNCHANGED workerVars
  \/ Consume /\ UNCHANGED relayVars

PipelineSpec == PipelineInit /\ [][PipelineNext]_pipelineVars

FairPipelineSpec == PipelineSpec /\ Relay!Fairness /\ Fairness

-----------------------------------------------------------------------------

Before == {b \in Events \X Events : Relay!Precedes(b[1], b[2])}

\* It is ordered where no message is given up without those that follow it.
Delivery == INSTANCE EventDelivery WITH
  ordered <- Relay!Lossless, offset <- committed, notified <- Notified

\* Relays and workers together keep the promises of EventDelivery, with crashes on
\* both sides, messages that get lost, and events that Kafka rejects: whatever is
\* shown of EventDelivery holds of them.
ImplementsEventDelivery == Delivery!Spec

\* Where no message is given up without those that follow it (Relay!Lossless), the
\* versions of a record are notified in order, from the commit of the transaction to
\* the notification.  It needs both sides: the relay's order of the topic, with its
\* repetitions, and the workers' order of processing.  A call that fills several of
\* the writer's batches may lose one of them and write the next; then a later version
\* may be notified first.
ProcessedInOrder == Delivery!ProcessedInOrder

\* Every change that was committed and that Kafka accepts becomes a notification or a
\* dead letter in the end, in batches if it accepts them all: no event is lost on the
\* way, though messages may be, and one that nobody can decode or handle does not hold
\* up those behind it.  "This avoids committing a database state change
\* while losing the intent to publish its corresponding event"
\* (docs/architecture.md).  (Not "is committed for good": a stale commit may set the
\* offset of an idle partition back, where it stays.)
EveryChangeAnnounced ==
  \A e \in Events :
    Relay!Accepted(e) /\ (setting.batched => setting.rejected = {}) ~> Processed(e)
=============================================================================
