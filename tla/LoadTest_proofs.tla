---------------------------- MODULE LoadTest_proofs ----------------------------
(***************************************************************************)
(* The load generator counts every request, and what its probe infers from *)
(* answers that were read at different moments is true of the pipeline:    *)
(* for any requests, workers, partitions and bounds.  It needs of the      *)
(* pipeline what EventDelivery implies, which comes first and holds of     *)
(* everything that implements EventDelivery.                               *)
(***************************************************************************)
EXTENDS LoadTest, FiniteSetTheorems, TLAPS

-----------------------------------------------------------------------------
(* The inductive invariant of EventDelivery. *)

\* Types, and the order of the topic of an ordered system: every message, also a
\* repeated one, comes after all events that are kept before it.  Send sees to it, and
\* Process needs it.
Inv ==
  /\ topic \in [Partitions -> Seq(Events)]
  /\ offset \in [Partitions -> Nat]
  /\ ordered =>
       \A p \in Partitions : \A i \in DOMAIN topic[p] : \A b \in Before :
         topic[p][i] = b[2] => \E j \in 1..(i - 1) : topic[p][j] = b[1]

\* No message is passed over, and an ordered system processes the events in order.
CommittedProcessed(p) ==
  offset[p] <= Len(topic[p]) /\ \A i \in 1..offset[p] : Processed(topic[p][i])

Promise == ProcessedInOrder /\ \A p \in Partitions : CommittedProcessed(p)

\* Before any event there are no messages.
LEMMA InitHolds == Init => Inv /\ Promise
<1> SUFFICES ASSUME Init PROVE Inv /\ Promise
  OBVIOUS
<1>1. \A p \in Partitions : topic[p] = <<>> /\ offset[p] = 0
  BY DEF Init
<1>2. Inv
  BY <1>1 DEF Inv, Init
<1>3. Promise
  BY <1>1, DeliveryAssumption DEF Promise, ProcessedInOrder, CommittedProcessed, Processed, Init
<1> QED
  BY <1>2, <1>3

\* The order of a partition is kept by every message that is sent to it.
LEMMA SendKeepsOrder ==
  ASSUME Inv, Promise, NEW e \in Events, Send(e)
  PROVE  Inv' /\ Promise'
<1> DEFINE log == LogOf[e]
<1>1. log \in Partitions
  BY DeliveryAssumption
<1>2. topic' \in [Partitions -> Seq(Events)] /\ offset' \in [Partitions -> Nat]
  BY <1>1 DEF Inv, Send
<1>3. ASSUME NEW p \in Partitions
      PROVE  /\ Len(topic[p]) <= Len(topic'[p])
             /\ \A i \in 1..Len(topic[p]) : topic'[p][i] = topic[p][i]
             /\ \A i \in DOMAIN topic'[p] :
                  i \in DOMAIN topic[p]
                  \/ (p = log /\ i = Len(topic[p]) + 1 /\ topic'[p][i] = e)
  <2>1. CASE p = log
    <3>1. topic'[p] = Append(topic[p], e) /\ topic[p] \in Seq(Events)
      BY <2>1, <1>1 DEF Inv, Send
    <3> QED
      BY <3>1, <2>1
  <2>2. CASE p # log
    BY <2>2, <1>1 DEF Inv, Send
  <2> QED
    BY <2>1, <2>2
<1>4. ASSUME ordered, NEW p \in Partitions, NEW i \in DOMAIN topic'[p], NEW b \in Before,
             topic'[p][i] = b[2]
      PROVE  \E j \in 1..(i - 1) : topic'[p][j] = b[1]
  <2>0. topic[p] \in Seq(Events) /\ DOMAIN topic[p] = 1..Len(topic[p]) /\ Len(topic[p]) \in Nat
    BY DEF Inv
  <2>1. CASE i \in DOMAIN topic[p]
    <3>1. topic[p][i] = b[2]
      BY <1>3, <1>4, <2>0, <2>1
    <3>2. PICK j \in 1..(i - 1) : topic[p][j] = b[1]
      BY <1>4, <3>1, <2>1 DEF Inv
    <3>3. j \in 1..Len(topic[p])
      BY <2>0, <2>1
    <3> QED
      BY <3>2, <3>3, <1>3
  <2>2. CASE p = log /\ i = Len(topic[p]) + 1 /\ topic'[p][i] = e
    <3>1. <<b[1], e>> \in Before /\ b[1] \in Events
      BY <2>2, <1>4, DeliveryAssumption
    <3>2. PICK j \in DOMAIN topic[p] : topic[p][j] = b[1]
      BY <1>4, <3>1, <2>2 DEF Send
    <3> QED
      BY <3>2, <2>0, <2>2, <1>3
  <2> QED
    BY <2>1, <2>2, <1>3
<1>5. Inv'
  BY <1>2, <1>4 DEF Inv, Send
<1>6. ProcessedInOrder'
  BY DEF Promise, ProcessedInOrder, Processed, Send
<1>7. ASSUME NEW p \in Partitions
      PROVE  CommittedProcessed(p)'
  <2>1. /\ offset'[p] = offset[p] /\ offset[p] \in Nat /\ offset[p] <= Len(topic[p])
        /\ Len(topic[p]) \in Nat /\ Len(topic'[p]) \in Nat
    BY <1>2 DEF Inv, Promise, CommittedProcessed, Send
  <2>2. ASSUME NEW i \in 1..offset[p] PROVE Processed(topic[p][i])'
    <3>1. i \in 1..Len(topic[p])
      BY <2>1
    <3>2. topic'[p][i] = topic[p][i]
      BY <3>1, <1>3
    <3> QED
      BY <3>2 DEF Promise, CommittedProcessed, Processed, Send
  <2> QED
    BY <2>1, <2>2, <1>3 DEF CommittedProcessed
<1> QED
  BY <1>5, <1>6, <1>7 DEF Promise

\* A message whose predecessors in the partition are processed completes no pair of
\* events the wrong way round.
LEMMA ProcessKeepsOrder ==
  ASSUME Inv, Promise, NEW p \in Partitions, NEW i \in DOMAIN topic[p], Process(p, i)
  PROVE  Inv' /\ Promise'
<1>1. \A e : Processed(e) => Processed(e)'
  BY DEF Process, Processed
<1>2. \A e : Processed(e)' => Processed(e) \/ e = topic[p][i]
  BY DEF Process, Processed
<1>3. Inv'
  BY DEF Inv, Process
<1>4. ASSUME ordered, NEW b \in Before, Processed(b[2])' PROVE Processed(b[1])'
  <2>1. CASE Processed(b[2])
    BY <1>4, <2>1, <1>1 DEF Promise, ProcessedInOrder
  <2>2. CASE b[2] = topic[p][i]
    <3>1. PICK j \in 1..(i - 1) : topic[p][j] = b[1]
      BY <1>4, <2>2 DEF Inv
    <3> QED
      BY <3>1, <1>1 DEF Process
  <2> QED
    BY <2>1, <2>2, <1>2, <1>4
<1>5. ProcessedInOrder'
  BY <1>4 DEF ProcessedInOrder, Process
<1>6. \A q \in Partitions : CommittedProcessed(q)'
  BY <1>1 DEF Promise, CommittedProcessed, Process
<1> QED
  BY <1>3, <1>5, <1>6 DEF Promise

\* An offset is committed over processed messages only.
LEMMA CommitKeepsPromise ==
  ASSUME Inv, Promise, NEW p \in Partitions, NEW n \in 0..Len(topic[p]), CommitOffset(p, n)
  PROVE  Inv' /\ Promise'
<1>1. topic[p] \in Seq(Events) /\ n \in Nat /\ n <= Len(topic[p])
  BY DEF Inv
<1>2. Inv'
  BY <1>1 DEF Inv, CommitOffset
<1>3. ProcessedInOrder'
  BY DEF Promise, ProcessedInOrder, Processed, CommitOffset
<1>4. ASSUME NEW q \in Partitions
      PROVE  CommittedProcessed(q)'
  <2>1. CASE q = p
    BY <2>1, <1>1 DEF Inv, CommittedProcessed, CommitOffset, Processed
  <2>2. CASE q # p
    BY <2>2 DEF Inv, Promise, CommittedProcessed, CommitOffset, Processed
  <2> QED
    BY <2>1, <2>2
<1> QED
  BY <1>2, <1>3, <1>4 DEF Promise

\* Accept, Settle and a stutter leave what the promise is about alone.
LEMMA OthersKeepPromise ==
  ASSUME Inv, Promise, UNCHANGED <<ordered, topic, offset, notified, deadLetters>>
  PROVE  Inv' /\ Promise'
BY DEF Inv, Promise, ProcessedInOrder, CommittedProcessed, Processed

\* The promise is kept by whatever implements EventDelivery.
LEMMA DeliveryKeepsPromise == Spec => [](Inv /\ Promise)
<1>1. Inv /\ Promise /\ [Next]_vars => (Inv /\ Promise)'
  <2> SUFFICES ASSUME Inv, Promise, [Next]_vars PROVE Inv' /\ Promise'
    OBVIOUS
  <2>1. ASSUME NEW e \in Events, Accept(e) PROVE Inv' /\ Promise'
    BY <2>1, OthersKeepPromise DEF Accept
  <2>2. ASSUME NEW e \in Events, Send(e) PROVE Inv' /\ Promise'
    BY <2>2, SendKeepsOrder
  <2>3. ASSUME NEW events \in SUBSET outbox, Settle(events) PROVE Inv' /\ Promise'
    BY <2>3, OthersKeepPromise DEF Settle
  <2>4. ASSUME NEW p \in Partitions, NEW i \in DOMAIN topic[p], Process(p, i)
        PROVE  Inv' /\ Promise'
    BY <2>4, ProcessKeepsOrder
  <2>5. ASSUME NEW p \in Partitions, NEW n \in 0..Len(topic[p]), CommitOffset(p, n)
        PROVE  Inv' /\ Promise'
    BY <2>5, CommitKeepsPromise
  <2>6. CASE UNCHANGED vars
    BY <2>6, OthersKeepPromise DEF vars
  <2> QED
    BY <2>1, <2>2, <2>3, <2>4, <2>5, <2>6 DEF Next
<1> QED
  BY <1>1, InitHolds, PTL DEF Spec

\* In an ordered system, of two events that are kept in order the later one is never
\* notified, nor given up on, before the earlier one.
THEOREM ProcessedInOrderAlways == Spec => []ProcessedInOrder
BY DeliveryKeepsPromise, PTL DEF Promise

\* Every message below a committed offset has become a notification or a dead
\* letter: what the group will not deliver again is done.
THEOREM CommittedAlwaysProcessed == Spec => [](\A p \in Partitions : CommittedProcessed(p))
BY DeliveryKeepsPromise, PTL DEF Promise

-----------------------------------------------------------------------------
(* The inductive invariant of the load test. *)

\* The requests that workers hold, and those that have had their result.
Held == {r \in Requests : \E w \in Workers : worker[w] = r}
Resolved == Requests \ (jobs \cup Held)

\* What the pipeline keeps of its own accord.
PipelineInv ==
  /\ outbox \subseteq Events /\ IsFiniteSet(outbox) /\ published \subseteq outbox
  /\ \A p \in Partitions : Len(topic[p]) <= MaxLog
  /\ \A e \in published : \E i \in DOMAIN topic[LogOf[e]] : topic[LogOf[e]][i] = e

\* Every request is a job, at one worker, or has one result; and while no result is
\* a failure, each of these results is a record.
DriverInv ==
  /\ jobs \subseteq Requests /\ jobsOpen \in BOOLEAN /\ resultsOpen \in BOOLEAN
  /\ worker \in [Workers -> Requests \cup {"idle", "done"}]
  /\ results \in [created: Nat, other: Nat] /\ counted \in [created: Nat, other: Nat]
  /\ \A w \in Workers : worker[w] \notin jobs
  /\ \A v, w \in Workers : worker[v] = worker[w] /\ worker[w] \in Requests => v = w
  /\ results.created + results.other + counted.created + counted.other = Cardinality(Resolved)
  /\ results.other + counted.other = 0 => Resolved \subseteq outbox
  /\ ~jobsOpen => jobs = {}
  /\ \A w \in Workers : worker[w] = "done" => ~jobsOpen
  /\ ~resultsOpen => ~jobsOpen /\ \A w \in Workers : worker[w] = "done"

\* After the collector only successful runs go on.
AfterLoad == main \in {"finished", "complete", "polling", "waiting", "timed out"}

StageInv ==
  /\ main \in {"starting", "baseline", "collecting", "polling", "waiting", "finished",
               "complete", "timed out", "failed"}
  /\ AfterLoad => ~resultsOpen /\ results = NoResults /\ counted.other = 0

\* Every event of the load that the outbox says is published is within the ends
\* that were read after it.
WithinEnds(r, ends) ==
  \E i \in 1..ends[LogOf[r]] : i \in DOMAIN topic[LogOf[r]] /\ topic[LogOf[r]][i] = r

\* What the answers of the snapshot being taken still say of the pipeline.
ProbeInv ==
  /\ probe \in Snapshots /\ baseline \in Snapshots \cup {NoSnapshot}
  /\ main \notin {"baseline", "polling"} => probe = NoSnapshot
  /\ probe.ids \subseteq outbox
  /\ probe.next > 4 => probe.notifications <= Cardinality(probe.ids \cap notified)
  /\ main = "polling" /\ probe.next > 2 /\ probe.unpublished = 0 => Requests \subseteq published
  /\ main = "polling" /\ probe.next = 6
       /\ (probe.unpublished = 0 \/ milestones.outboxPublished > 0)
       => \A r \in Requests : WithinEnds(r, probe.ends)

\* What the milestones say of the pipeline, and of each other.
MilestoneInv ==
  /\ milestones \in [DOMAIN NoMilestones -> 0..MaxPolls + 1] /\ polls \in 0..MaxPolls
  /\ milestones.outboxPublished > 0 => AfterLoad /\ Requests \subseteq published
  /\ milestones.kafkaCaughtUp > 0 =>
       /\ \A r \in Requests : Processed(r)
       /\ 0 < milestones.outboxPublished
       /\ milestones.outboxPublished <= milestones.kafkaCaughtUp
  /\ \A name \in {"outboxPublished", "kafkaCaughtUp", "notificationsComplete"} :
       milestones[name] <= polls + 1

LoadInv == PipelineInv /\ DriverInv /\ StageInv /\ ProbeInv /\ MilestoneInv
             /\ StagesInOrder /\ CompleteMeansNotified

-----------------------------------------------------------------------------
(* The pipeline. *)

\* Every step of the load or of the pipeline is one of EventDelivery or none.
LEMMA StepsAreDelivery == LoadNext => [Next]_vars
<1> SUFFICES ASSUME LoadNext PROVE [Next]_vars
  OBVIOUS
<1>1. CASE Load
  BY <1>1 DEF Load, Start, TakeJob, Answered, WorkerDone, CloseJobs, CloseResults, Collect, Collected
<1>2. CASE Probe
  BY <1>2 DEF Probe, Ask, TakeBaseline, Observe, SnapshotFailed, Tick, TimedOut
<1>3. CASE Pipeline
  BY <1>3 DEF Pipeline, Next
<1>4. CASE \E r \in Requests : CreateRecord(r)
  BY <1>4, LoadAssumption DEF CreateRecord, Next
<1> QED
  BY <1>1, <1>2, <1>3, <1>4 DEF LoadNext

\* What has happened in the pipeline stays so.
LEMMA PipelineGrows ==
  ASSUME Inv, [Next]_vars
  PROVE  /\ outbox \subseteq outbox' /\ published \subseteq published'
         /\ notified \subseteq notified' /\ deadLetters \subseteq deadLetters'
         /\ \A p \in Partitions :
              /\ DOMAIN topic[p] \subseteq DOMAIN topic'[p]
              /\ \A i \in DOMAIN topic[p] : topic'[p][i] = topic[p][i]
<1>1. ASSUME NEW e \in Events, Accept(e) PROVE outbox \subseteq outbox'
  BY <1>1 DEF Accept
<1>2. ASSUME NEW e \in Events, Send(e), NEW p \in Partitions
      PROVE  /\ DOMAIN topic[p] \subseteq DOMAIN topic'[p]
             /\ \A i \in DOMAIN topic[p] : topic'[p][i] = topic[p][i]
  <2>1. topic[p] \in Seq(Events) /\ LogOf[e] \in Partitions
    BY DeliveryAssumption DEF Inv
  <2>2. topic'[p] = IF p = LogOf[e] THEN Append(topic[p], e) ELSE topic[p]
    BY <1>2 DEF Inv, Send
  <2> QED
    BY <2>1, <2>2
<1>3. CASE \E e \in Events : Accept(e)
  BY <1>3 DEF Accept
<1>4. CASE \E e \in Events : Send(e)
  BY <1>4, <1>2 DEF Send
<1>5. CASE \E events \in SUBSET outbox : Settle(events)
  BY <1>5 DEF Settle
<1>6. CASE \E p \in Partitions : \E i \in DOMAIN topic[p] : Process(p, i)
  BY <1>6 DEF Process
<1>7. CASE \E p \in Partitions : \E n \in 0..Len(topic[p]) : CommitOffset(p, n)
  BY <1>7 DEF CommitOffset
<1>8. CASE UNCHANGED vars
  BY <1>8 DEF vars
<1> QED
  BY <1>3, <1>4, <1>5, <1>6, <1>7, <1>8 DEF Next

\* Only sent events are published, and the topic keeps to its bound.
LEMMA PipelineInvKept ==
  ASSUME Inv, PipelineInv, [LoadNext]_loadVars
  PROVE  PipelineInv'
<1> USE DEF PipelineInv
<1>0. \A e \in Events : LogOf[e] \in Partitions
  BY DeliveryAssumption
<1>1. ASSUME NEW e \in Events, Accept(e) PROVE PipelineInv'
  <2>1. IsFiniteSet(outbox')
    BY <1>1, FS_AddElement DEF Accept
  <2> QED
    BY <1>1, <2>1 DEF Accept
<1>2. ASSUME NEW e \in Events, Len(topic[LogOf[e]]) < MaxLog, Send(e) PROVE PipelineInv'
  <2>1. ASSUME NEW p \in Partitions
        PROVE  /\ Len(topic'[p]) <= MaxLog
               /\ DOMAIN topic[p] \subseteq DOMAIN topic'[p]
               /\ \A i \in DOMAIN topic[p] : topic'[p][i] = topic[p][i]
    <3>1. topic[p] \in Seq(Events) /\ Len(topic[p]) \in Nat /\ MaxLog \in Nat
      BY LoadAssumption DEF Inv
    <3>2. topic'[p] = IF p = LogOf[e] THEN Append(topic[p], e) ELSE topic[p]
      BY <1>2 DEF Inv, Send
    <3> QED
      BY <1>2, <3>1, <3>2
  <2>2. UNCHANGED <<outbox, published>>
    BY <1>2 DEF Send
  <2>3. ASSUME NEW d \in published' PROVE \E i \in DOMAIN topic'[LogOf[d]] : topic'[LogOf[d]][i] = d
    <3>1. PICK i \in DOMAIN topic[LogOf[d]] : topic[LogOf[d]][i] = d
      BY <2>2, <2>3
    <3> QED
      BY <3>1, <2>1, <2>2, <2>3, <1>0
  <2> QED
    BY <2>1, <2>2, <2>3
<1>3. ASSUME NEW events \in SUBSET outbox, Settle(events) PROVE PipelineInv'
  BY <1>3 DEF Settle
<1>4. ASSUME UNCHANGED <<outbox, published, topic>> PROVE PipelineInv'
  BY <1>4
<1>5. CASE Pipeline
  BY <1>5, <1>1, <1>2, <1>3, <1>4 DEF Pipeline, Process, CommitOffset
<1>6. CASE \E r \in Requests : CreateRecord(r)
  BY <1>6, <1>1, LoadAssumption DEF CreateRecord
<1>7. CASE Load
  BY <1>7, <1>4 DEF Load, Start, TakeJob, Answered, WorkerDone, CloseJobs, CloseResults, Collect,
                    Collected, vars
<1>8. CASE Probe
  BY <1>8, <1>4 DEF Probe, Ask, TakeBaseline, Observe, SnapshotFailed, Tick, TimedOut, vars
<1>9. CASE UNCHANGED loadVars
  BY <1>9, <1>4 DEF loadVars, vars
<1> QED
  BY <1>5, <1>6, <1>7, <1>8, <1>9 DEF LoadNext

-----------------------------------------------------------------------------
(* The driver. *)

\* There are never more results than requests.
LEMMA ResolvedIsFinite ==
  /\ IsFiniteSet(Resolved) /\ Cardinality(Resolved) \in Nat
  /\ Expected \in Nat /\ Cardinality(Resolved) <= Expected
<1>1. Resolved \in SUBSET Requests /\ IsFiniteSet(Requests)
  BY LoadAssumption DEF Resolved
<1> QED
  BY <1>1, FS_Subset, FS_CardinalityType DEF Expected

\* A request that is handed out is at its worker.
LEMMA TakeJobKeeps ==
  ASSUME DriverInv, NEW w \in Workers, NEW r \in Requests, TakeJob(w, r)
  PROVE  DriverInv'
<1> USE DEF DriverInv, TakeJob, loadVars
<1>1. /\ \A v \in Workers : worker'[v] = IF v = w THEN r ELSE worker[v]
      /\ worker[w] = "idle" /\ "idle" \notin Requests /\ "done" \notin Requests
  BY LoadAssumption
<1>2. Held' = Held \cup {r}
  BY <1>1 DEF Held
<1>3. Resolved' = Resolved
  BY <1>2 DEF Resolved
<1>4. \A v \in Workers : worker'[v] \notin jobs'
  BY <1>1
<1>5. \A u, v \in Workers : worker'[v] = worker'[u] /\ worker'[u] \in Requests => v = u
  BY <1>1
<1>6. worker' \in [Workers -> Requests \cup {"idle", "done"}]
  OBVIOUS
<1>7. \A v \in Workers : worker'[v] = "done" => worker[v] = "done"
  BY <1>1
<1> QED
  BY <1>3, <1>4, <1>5, <1>6, <1>7 DEF vars

\* A request has one result, and a result that says "created" has its record.
LEMMA AnsweredKeeps ==
  ASSUME DriverInv, NEW w \in Workers, NEW kind \in DOMAIN NoResults, Answered(w, kind)
  PROVE  DriverInv'
<1> USE DEF DriverInv, Answered
<1> DEFINE r == worker[w]
<1>1. /\ \A v \in Workers : worker'[v] = IF v = w THEN "idle" ELSE worker[v]
      /\ r \in Requests /\ "idle" \notin Requests /\ r \notin jobs
      /\ kind \in {"created", "other"} /\ jobs \subseteq Requests
  BY LoadAssumption DEF NoResults
<1>2. Held' = Held \ {r}
  BY <1>1 DEF Held
<1>3. Resolved' = Resolved \cup {r} /\ r \notin Resolved
  BY <1>1, <1>2 DEF Resolved, Held
<1>4. Cardinality(Resolved') = Cardinality(Resolved) + 1
  BY <1>3, ResolvedIsFinite, FS_AddElement
<1>5. /\ results' \in [created: Nat, other: Nat]
      /\ results'.created + results'.other = results.created + results.other + 1
      /\ results'.other = 0 => results.other = 0 /\ kind = "created"
  BY <1>1
<1>6. results'.other + counted'.other = 0 => Resolved' \subseteq outbox'
  BY <1>3, <1>5 DEF vars
<1>7. results'.created + results'.other + counted'.created + counted'.other = Cardinality(Resolved')
  BY <1>4, <1>5, ResolvedIsFinite
<1>8. \A v \in Workers : worker'[v] \notin jobs'
  <2>1. "idle" \notin jobs
    BY <1>1
  <2> QED
    BY <1>1, <2>1
<1>9. \A u, v \in Workers : worker'[v] = worker'[u] /\ worker'[u] \in Requests => v = u
  BY <1>1
<1>10. worker' \in [Workers -> Requests \cup {"idle", "done"}]
  OBVIOUS
<1>11. \A v \in Workers : worker'[v] = "done" => worker[v] = "done"
  BY <1>1
<1> HIDE DEF r
<1> QED
  BY <1>5, <1>6, <1>7, <1>8, <1>9, <1>10, <1>11

\* The channels are closed, and the workers stop, one after the other.
LEMMA ClosingKeeps ==
  ASSUME DriverInv,
         CloseJobs \/ CloseResults \/ \E w \in Workers : WorkerDone(w)
  PROVE  DriverInv'
<1> USE DEF DriverInv
<1>1. CASE CloseJobs
  BY <1>1 DEF CloseJobs, Held, Resolved, vars
<1>2. CASE CloseResults
  BY <1>2 DEF CloseResults, Held, Resolved, vars
<1>3. ASSUME NEW w \in Workers, WorkerDone(w) PROVE DriverInv'
  <2> USE <1>3 DEF WorkerDone
  <2>1. /\ \A v \in Workers : worker'[v] = IF v = w THEN "done" ELSE worker[v]
        /\ worker[w] = "idle" /\ "idle" \notin Requests /\ "done" \notin Requests
    BY LoadAssumption
  <2>2. Held' = Held
    BY <2>1 DEF Held
  <2>3. Resolved' = Resolved
    BY <2>2 DEF Resolved
  <2>4. \A v \in Workers : worker'[v] \notin jobs'
    BY <2>1
  <2>5. \A u, v \in Workers : worker'[v] = worker'[u] /\ worker'[u] \in Requests => v = u
    BY <2>1
  <2>6. worker' \in [Workers -> Requests \cup {"idle", "done"}]
    OBVIOUS
  <2> QED
    BY <2>1, <2>3, <2>4, <2>5, <2>6 DEF vars
<1> QED
  BY <1>1, <1>2, <1>3

\* A result that is counted leaves the buffer.
LEMMA CollectKeeps ==
  ASSUME DriverInv, NEW kind \in DOMAIN NoResults, Collect(kind)
  PROVE  DriverInv'
<1> USE DEF DriverInv, Collect
<1>1. kind \in {"created", "other"}
  BY DEF NoResults
<1>2. /\ results' \in [created: Nat, other: Nat] /\ counted' \in [created: Nat, other: Nat]
      /\ results'.created + results'.other + counted'.created + counted'.other
           = results.created + results.other + counted.created + counted.other
      /\ results'.other + counted'.other = results.other + counted.other
  BY <1>1
<1>3. Resolved' = Resolved
  BY DEF Held, Resolved
<1> QED
  BY <1>2, <1>3 DEF vars

\* The driver's invariant, step by step.
LEMMA DriverInvKept ==
  ASSUME DriverInv, Inv, [LoadNext]_loadVars
  PROVE  DriverInv'
<1>1. ASSUME UNCHANGED driver PROVE DriverInv'
  <2>1. Held' = Held /\ Resolved' = Resolved
    BY <1>1 DEF Held, Resolved, driver
  <2>2. outbox \subseteq outbox'
    <3>1. [Next]_vars
      BY StepsAreDelivery DEF loadVars
    <3> QED
      BY <3>1, PipelineGrows
  <2> QED
    BY <1>1, <2>1, <2>2 DEF DriverInv, driver
<1>2. CASE Load
  BY <1>1, <1>2, TakeJobKeeps, AnsweredKeeps, ClosingKeeps, CollectKeeps DEF Load, Start, Collected
<1>3. CASE Probe
  BY <1>1, <1>3 DEF Probe, Ask, TakeBaseline, Observe, SnapshotFailed, Tick, TimedOut
<1>4. CASE Pipeline \/ \E r \in Requests : CreateRecord(r)
  BY <1>1, <1>4 DEF Pipeline, CreateRecord
<1>5. CASE UNCHANGED loadVars
  BY <1>1, <1>5 DEF loadVars
<1> QED
  BY <1>2, <1>3, <1>4, <1>5 DEF LoadNext

-----------------------------------------------------------------------------
(* The stages. *)

\* A channel of results that is closed and empty has brought every result.
LEMMA StageInvKept ==
  ASSUME StageInv, DriverInv, [LoadNext]_loadVars
  PROVE  StageInv'
<1> USE DEF StageInv, AfterLoad
<1>1. ASSUME UNCHANGED <<results, resultsOpen, counted>>, main' = main PROVE StageInv'
  BY <1>1
<1>2. CASE Load
  <2>1. CASE Start
    BY <2>1 DEF Start, driver, prober
  <2>2. CASE Collected
    <3>1. /\ main' \in {"failed", "finished", "polling"}
          /\ counted.other = 0 \/ main' = "failed"
      BY <2>2 DEF Collected
    <3>2. ~resultsOpen' /\ results' = NoResults /\ counted' = counted
      BY <2>2 DEF Collected, driver
    <3> QED
      BY <3>1, <3>2
  <2>3. ASSUME NEW w \in Workers, NEW r \in Requests, TakeJob(w, r) PROVE StageInv'
    BY <2>3, <1>1 DEF TakeJob
  <2>4. ASSUME NEW w \in Workers, NEW kind \in DOMAIN NoResults, Answered(w, kind) PROVE StageInv'
    <3>1. ~AfterLoad /\ main' = main
      <4>1. worker[w] # "done" /\ resultsOpen
        BY <2>4, LoadAssumption DEF Answered
      <4> QED
        BY <2>4, <4>1 DEF Answered
    <3> QED
      BY <3>1
  <2>5. ASSUME NEW w \in Workers, WorkerDone(w) PROVE StageInv'
    BY <2>5, <1>1 DEF WorkerDone
  <2>6. CASE CloseJobs
    BY <2>6, <1>1 DEF CloseJobs
  <2>7. CASE CloseResults
    BY <2>7 DEF CloseResults
  <2>8. ASSUME NEW kind \in DOMAIN NoResults, Collect(kind) PROVE StageInv'
    BY <2>8 DEF Collect
  <2> QED
    BY <1>2, <2>1, <2>2, <2>3, <2>4, <2>5, <2>6, <2>7, <2>8 DEF Load
<1>3. CASE Probe
  <2>1. UNCHANGED driver
    BY <1>3 DEF Probe, Ask, TakeBaseline, Observe, SnapshotFailed, Tick, TimedOut
  <2>2. CASE Ask
    BY <2>2, <1>1 DEF Ask, driver
  <2>3. CASE TakeBaseline
    BY <2>3, <2>1 DEF TakeBaseline, driver
  <2>4. CASE Observe
    <3>1. main = "polling" /\ main' \in {"complete", "waiting"}
      BY <2>4, Zenon DEF Observe
    <3> QED
      BY <3>1, <2>1 DEF driver
  <2>5. CASE SnapshotFailed \/ Tick \/ TimedOut
    BY <2>5, <2>1 DEF SnapshotFailed, Tick, TimedOut, driver
  <2> QED
    BY <1>3, <2>2, <2>3, <2>4, <2>5 DEF Probe
<1>4. CASE Pipeline \/ \E r \in Requests : CreateRecord(r)
  BY <1>1, <1>4 DEF Pipeline, CreateRecord, driver
<1>5. CASE UNCHANGED loadVars
  BY <1>1, <1>5 DEF loadVars, driver
<1> QED
  BY <1>2, <1>3, <1>4, <1>5 DEF LoadNext

\* When the channel is closed, every request has had its result.
LEMMA AllCounted ==
  ASSUME StageInv, DriverInv, AfterLoad
  PROVE  counted.created = Expected /\ Requests \subseteq outbox
<1>1. ~resultsOpen /\ results.created = 0 /\ results.other = 0 /\ counted.other = 0
  <2>1. ~resultsOpen /\ results = NoResults /\ counted.other = 0
    BY Zenon DEF StageInv
  <2> QED
    BY <2>1 DEF NoResults
<1>2. jobs = {} /\ Held = {}
  BY <1>1, LoadAssumption DEF DriverInv, Held
<1>3. Resolved = Requests
  BY <1>2 DEF Resolved
<1>4. Cardinality(Requests) = counted.created
  BY <1>1, <1>3 DEF DriverInv
<1> QED
  BY <1>1, <1>3, <1>4 DEF DriverInv, Expected

-----------------------------------------------------------------------------
(* The probe. *)

\* Without a lag every message up to the end that was read is committed.
LEMMA NoLag ==
  ASSUME NEW ends \in [Partitions -> 0..MaxLog], Inv
  PROVE  /\ Lag(ends) \in Nat
         /\ Lag(ends) = 0 => \A p \in Partitions : ends[p] <= offset[p]
<1>1. IsFiniteSet(Partitions \X (1..MaxLog))
  <2>1. IsFiniteSet(1..MaxLog) /\ IsFiniteSet(Partitions)
    BY LoadAssumption, FS_Interval
  <2> QED
    BY <2>1, FS_Product
<1>2. Behind(ends) \subseteq Partitions \X (1..MaxLog)
  <2> SUFFICES ASSUME NEW m \in Behind(ends) PROVE m \in Partitions \X (1..MaxLog)
    OBVIOUS
  <2>1. PICK p \in Partitions : m \in {p} \X ((offset[p] + 1)..ends[p])
    BY DEF Behind
  <2>2. (offset[p] + 1)..ends[p] \subseteq 1..MaxLog
    BY LoadAssumption DEF Inv
  <2> QED
    BY <2>1, <2>2
<1>3. IsFiniteSet(Behind(ends)) /\ Lag(ends) \in Nat
  BY <1>1, <1>2, FS_Subset, FS_CardinalityType DEF Lag
<1>4. ASSUME Lag(ends) = 0, NEW p \in Partitions, ~(ends[p] <= offset[p]) PROVE FALSE
  <2>1. Behind(ends) = {}
    BY <1>3, <1>4, FS_EmptySet DEF Lag
  <2>2. ends[p] \in (offset[p] + 1)..ends[p]
    BY <1>4, LoadAssumption DEF Inv
  <2>3. <<p, ends[p]>> \in Behind(ends)
    BY <2>2 DEF Behind
  <2> QED
    BY <2>1, <2>3
<1> QED
  BY <1>3, <1>4

\* There are six queries.
LEMMA SixQueries == Len(Queries) = 6
BY DEF Queries

\* The answer to each of the queries, of its type.
LEMMA SampledIs ==
  ASSUME Inv, PipelineInv, probe \in Snapshots, probe.ids \subseteq outbox
  PROVE  /\ Sampled \in Snapshots
         /\ Sampled.next = IF probe.next = 6 THEN 6 ELSE probe.next + 1
         /\ Sampled.unpublished = IF probe.next = 2
                                  THEN Cardinality((outbox \cap OfWorkflow) \ published)
                                  ELSE probe.unpublished
         /\ Sampled.ids = IF probe.next = 3 THEN outbox \cap OfWorkflow ELSE probe.ids
         /\ Sampled.notifications = IF probe.next = 4 THEN Cardinality(probe.ids \cap notified)
                                    ELSE probe.notifications
         /\ Sampled.ends = IF probe.next = 5 THEN [p \in Partitions |-> Len(topic[p])]
                           ELSE probe.ends
         /\ probe.next = 6 => Sampled.lag = Lag(probe.ends)
<1>1. /\ Queries[1] = "records" /\ Queries[2] = "unpublished" /\ Queries[3] = "ids"
      /\ Queries[4] = "notifications" /\ Queries[5] = "ends" /\ Queries[6] = "committed"
  BY DEF Queries
<1>2. probe.next \in 1..6 /\ probe.ends \in [Partitions -> 0..MaxLog]
  BY SixQueries DEF Snapshots
<1>3. /\ Cardinality(outbox \cap OfWorkflow) \in Nat
      /\ Cardinality((outbox \cap OfWorkflow) \ published) \in Nat
      /\ Cardinality(probe.ids \cap notified) \in Nat
  BY FS_Subset, FS_CardinalityType DEF PipelineInv
<1>4. CASE probe.next = 1
  <2> DEFINE a == Cardinality(outbox \cap OfWorkflow)
  <2>1. Queries[probe.next] = "records"
    BY <1>1, <1>4
  <2>2. probe.next # 2 /\ probe.next # 3 /\ probe.next # 4 /\ probe.next # 5 /\ probe.next # 6
    BY <1>4
  <2>3. PICK n \in 1..6 : n = 2
    OBVIOUS
  <2>4. Sampled = [probe EXCEPT !.next = n, !.records = a]
    BY <2>1, <2>2, <2>3, Zenon DEF Sampled
  <2>5. a \in Nat
    BY <1>3
  <2> HIDE DEF a
  <2>6. Sampled \in Snapshots
    BY <2>3, <2>4, <2>5, SixQueries DEF Snapshots
  <2>7. /\ Sampled.next = n /\ Sampled.records = a
        /\ Sampled.unpublished = probe.unpublished /\ Sampled.ids = probe.ids
        /\ Sampled.notifications = probe.notifications /\ Sampled.ends = probe.ends
    BY <2>3, <2>4, SixQueries DEF Snapshots
  <2> QED
    BY <1>4, <2>3, <2>6, <2>7 DEF a
<1>5. CASE probe.next = 2
  <2> DEFINE a == Cardinality((outbox \cap OfWorkflow) \ published)
  <2>1. Queries[probe.next] = "unpublished"
    BY <1>1, <1>5
  <2>2. probe.next # 1 /\ probe.next # 3 /\ probe.next # 4 /\ probe.next # 5 /\ probe.next # 6
    BY <1>5
  <2>3. PICK n \in 1..6 : n = 3
    OBVIOUS
  <2>4. Sampled = [probe EXCEPT !.next = n, !.unpublished = a]
    BY <2>1, <2>2, <2>3, Zenon DEF Sampled
  <2>5. a \in Nat
    BY <1>3
  <2> HIDE DEF a
  <2>6. Sampled \in Snapshots
    BY <2>3, <2>4, <2>5, SixQueries DEF Snapshots
  <2>7. /\ Sampled.next = n /\ Sampled.unpublished = a
        /\ Sampled.ids = probe.ids /\ Sampled.notifications = probe.notifications
        /\ Sampled.ends = probe.ends
    BY <2>3, <2>4, SixQueries DEF Snapshots
  <2> QED
    BY <1>5, <2>3, <2>6, <2>7 DEF a
<1>6. CASE probe.next = 3
  <2> DEFINE a == outbox \cap OfWorkflow
  <2>1. Queries[probe.next] = "ids"
    BY <1>1, <1>6
  <2>2. probe.next # 1 /\ probe.next # 2 /\ probe.next # 4 /\ probe.next # 5 /\ probe.next # 6
    BY <1>6
  <2>3. PICK n \in 1..6 : n = 4
    OBVIOUS
  <2>4. Sampled = [probe EXCEPT !.next = n, !.ids = a]
    BY <2>1, <2>2, <2>3, Zenon DEF Sampled
  <2>5. a \in SUBSET OfWorkflow
    OBVIOUS
  <2> HIDE DEF a
  <2>6. Sampled \in Snapshots
    BY <2>3, <2>4, <2>5, SixQueries DEF Snapshots
  <2>7. /\ Sampled.next = n /\ Sampled.ids = a
        /\ Sampled.unpublished = probe.unpublished /\ Sampled.notifications = probe.notifications
        /\ Sampled.ends = probe.ends
    BY <2>3, <2>4, SixQueries DEF Snapshots
  <2> QED
    BY <1>6, <2>3, <2>6, <2>7 DEF a
<1>7. CASE probe.next = 4
  <2> DEFINE a == Cardinality(probe.ids \cap notified)
  <2>1. Queries[probe.next] = "notifications"
    BY <1>1, <1>7
  <2>2. probe.next # 1 /\ probe.next # 2 /\ probe.next # 3 /\ probe.next # 5 /\ probe.next # 6
    BY <1>7
  <2>3. PICK n \in 1..6 : n = 5
    OBVIOUS
  <2>4. Sampled = [probe EXCEPT !.next = n, !.notifications = a]
    BY <2>1, <2>2, <2>3, Zenon DEF Sampled
  <2>5. a \in Nat
    BY <1>3
  <2> HIDE DEF a
  <2>6. Sampled \in Snapshots
    BY <2>3, <2>4, <2>5, SixQueries DEF Snapshots
  <2>7. /\ Sampled.next = n /\ Sampled.notifications = a
        /\ Sampled.unpublished = probe.unpublished /\ Sampled.ids = probe.ids
        /\ Sampled.ends = probe.ends
    BY <2>3, <2>4, SixQueries DEF Snapshots
  <2> QED
    BY <1>7, <2>3, <2>6, <2>7 DEF a
<1>8. CASE probe.next = 5
  <2> DEFINE a == [p \in Partitions |-> Len(topic[p])]
  <2>1. Queries[probe.next] = "ends"
    BY <1>1, <1>8
  <2>2. probe.next # 1 /\ probe.next # 2 /\ probe.next # 3 /\ probe.next # 4 /\ probe.next # 6
    BY <1>8
  <2>3. PICK n \in 1..6 : n = 6
    OBVIOUS
  <2>4. Sampled = [probe EXCEPT !.next = n, !.ends = a]
    BY <2>1, <2>2, <2>3, Zenon DEF Sampled
  <2>5. a \in [Partitions -> 0..MaxLog]
    BY LoadAssumption DEF Inv, PipelineInv
  <2> HIDE DEF a
  <2>6. Sampled \in Snapshots
    BY <2>3, <2>4, <2>5, SixQueries DEF Snapshots
  <2>7. /\ Sampled.next = n /\ Sampled.ends = a
        /\ Sampled.unpublished = probe.unpublished /\ Sampled.ids = probe.ids
        /\ Sampled.notifications = probe.notifications
    BY <2>3, <2>4, SixQueries DEF Snapshots
  <2> QED
    BY <1>8, <2>3, <2>6, <2>7 DEF a
<1>9. CASE probe.next = 6
  <2> DEFINE a == Lag(probe.ends)
  <2>1. Queries[probe.next] = "committed"
    BY <1>1, <1>9
  <2>2. probe.next # 1 /\ probe.next # 2 /\ probe.next # 3 /\ probe.next # 4 /\ probe.next # 5
    BY <1>9
  <2>4. Sampled = [probe EXCEPT !.lag = a]
    BY <2>1, <2>2, Zenon DEF Sampled
  <2>5. a \in Nat
    BY <1>2, NoLag
  <2> HIDE DEF a
  <2>6. Sampled \in Snapshots
    BY <2>4, <2>5, SixQueries DEF Snapshots
  <2>7. /\ Sampled.next = probe.next /\ Sampled.lag = a
        /\ Sampled.unpublished = probe.unpublished /\ Sampled.ids = probe.ids
        /\ Sampled.notifications = probe.notifications /\ Sampled.ends = probe.ends
    BY <2>4, SixQueries DEF Snapshots
  <2> QED
    BY <1>9, <2>6, <2>7 DEF a
<1> QED
  BY <1>2, <1>4, <1>5, <1>6, <1>7, <1>8, <1>9

\* A query keeps what the earlier answers of the snapshot say, and adds its own.
LEMMA AskKeeps ==
  ASSUME Inv, PipelineInv, DriverInv, StageInv, ProbeInv, MilestoneInv, Ask
  PROVE  ProbeInv'
<1>1. /\ probe \in Snapshots /\ probe.ids \subseteq outbox
      /\ probe.next > 4 => probe.notifications <= Cardinality(probe.ids \cap notified)
  BY DEF ProbeInv
<1>2. /\ probe' = Sampled /\ main \in {"baseline", "polling"} /\ probe.next \in 1..5
      /\ UNCHANGED <<main, baseline, milestones, outbox, published, topic, notified>>
  BY <1>1, SixQueries DEF Ask, Snapshots, vars
<1>3. /\ probe' \in Snapshots /\ probe'.next = probe.next + 1
      /\ probe'.unpublished = IF probe.next = 2
                              THEN Cardinality((outbox \cap OfWorkflow) \ published)
                              ELSE probe.unpublished
      /\ probe'.ids = IF probe.next = 3 THEN outbox \cap OfWorkflow ELSE probe.ids
      /\ probe'.notifications = IF probe.next = 4 THEN Cardinality(probe.ids \cap notified)
                                ELSE probe.notifications
      /\ probe'.ends = IF probe.next = 5 THEN [p \in Partitions |-> Len(topic[p])] ELSE probe.ends
  BY <1>1, <1>2, SampledIs
<1>4. probe'.ids \subseteq outbox'
  BY <1>1, <1>2, <1>3
<1>5. probe'.next > 4 => probe'.notifications <= Cardinality(probe'.ids \cap notified')
  <2>1. ASSUME probe.next = 4 PROVE probe'.notifications <= Cardinality(probe'.ids \cap notified')
    <3>1. IsFiniteSet(probe.ids \cap notified)
      BY <1>1, FS_Subset DEF PipelineInv
    <3>2. Cardinality(probe.ids \cap notified) \in Nat
      BY <3>1, FS_CardinalityType
    <3>3. /\ probe'.notifications = Cardinality(probe.ids \cap notified)
          /\ probe'.ids \cap notified' = probe.ids \cap notified
      BY <2>1, <1>2, <1>3
    <3> QED
      BY <3>2, <3>3
  <2>2. ASSUME probe.next > 4 PROVE probe'.notifications <= Cardinality(probe'.ids \cap notified')
    <3>1. probe'.notifications = probe.notifications /\ probe'.ids \cap notified' = probe.ids \cap notified
      BY <2>2, <1>2, <1>3
    <3> QED
      BY <3>1, <2>2, <1>1
  <2> QED
    BY <1>2, <1>3, <2>1, <2>2
<1>6. ASSUME main = "polling", probe'.next > 2, probe'.unpublished = 0
      PROVE  Requests \subseteq published
  <2>1. Requests \subseteq outbox \cap OfWorkflow
    BY <1>6, AllCounted DEF AfterLoad, OfWorkflow
  <2>2. CASE probe.next = 2
    <3>1. IsFiniteSet((outbox \cap OfWorkflow) \ published)
      BY FS_Subset DEF PipelineInv
    <3>2. Cardinality((outbox \cap OfWorkflow) \ published) = 0
      BY <2>2, <1>6, <1>3
    <3>3. (outbox \cap OfWorkflow) \ published = {}
      BY <3>1, <3>2, FS_EmptySet
    <3> QED
      BY <2>1, <3>3
  <2>3. CASE probe.next > 2
    BY <2>3, <1>6, <1>3 DEF ProbeInv
  <2> QED
    BY <2>2, <2>3, <1>2, <1>3, <1>6
<1>7. ASSUME main = "polling", probe'.next = 6, NEW r \in Requests,
             probe'.unpublished = 0 \/ milestones.outboxPublished > 0
      PROVE  WithinEnds(r, probe.ends)'
  <2>1. r \in published /\ r \in Events /\ LogOf[r] \in Partitions
    BY <1>6, <1>7, LoadAssumption, DeliveryAssumption DEF MilestoneInv
  <2>2. /\ topic[LogOf[r]] \in Seq(Events) /\ topic' = topic
        /\ probe'.ends[LogOf[r]] = Len(topic[LogOf[r]])
    BY <1>2, <1>3, <1>7, <2>1 DEF Inv
  <2>3. PICK i \in DOMAIN topic[LogOf[r]] : topic[LogOf[r]][i] = r
    BY <2>1 DEF PipelineInv
  <2>4. i \in 1..probe'.ends[LogOf[r]]
    BY <2>2
  <2> QED
    BY <2>2, <2>3, <2>4 DEF WithinEnds
<1> QED
  BY <1>2, <1>3, <1>4, <1>5, <1>6, <1>7 DEF ProbeInv

\* What an answer said of the pipeline stays true while the pipeline goes on.
LEMMA AnswersStand ==
  ASSUME Inv, PipelineInv, PipelineInv', ProbeInv, [Next]_vars,
         UNCHANGED <<main, probe, baseline, milestones>>
  PROVE  ProbeInv'
<1>1. /\ outbox \subseteq outbox' /\ published \subseteq published' /\ notified \subseteq notified'
      /\ \A p \in Partitions :
           /\ DOMAIN topic[p] \subseteq DOMAIN topic'[p]
           /\ \A i \in DOMAIN topic[p] : topic'[p][i] = topic[p][i]
  BY PipelineGrows
<1>2. probe.ids \subseteq outbox /\ probe \in Snapshots
  BY DEF ProbeInv
<1>3. Cardinality(probe.ids \cap notified) <= Cardinality(probe.ids \cap notified')
  <2>1. IsFiniteSet(probe.ids \cap notified')
    BY <1>2, FS_Subset DEF PipelineInv
  <2> QED
    BY <2>1, <1>1, FS_Subset
<1>4. Cardinality(probe.ids \cap notified) \in Nat /\ Cardinality(probe.ids \cap notified') \in Nat
  BY <1>2, FS_Subset, FS_CardinalityType DEF PipelineInv
<1>5. probe.next > 4 => probe.notifications <= Cardinality(probe.ids \cap notified')
  <2>1. probe.notifications \in Nat
    BY <1>2 DEF Snapshots
  <2> QED
    BY <1>3, <1>4, <2>1 DEF ProbeInv
<1>6. ASSUME NEW r \in Requests, WithinEnds(r, probe.ends) PROVE WithinEnds(r, probe.ends)'
  <2>1. LogOf[r] \in Partitions
    BY LoadAssumption, DeliveryAssumption
  <2> QED
    BY <1>1, <1>6, <2>1 DEF WithinEnds
<1> QED
  BY <1>1, <1>5, <1>6 DEF ProbeInv

\* The snapshot without answers is one.
LEMMA NoSnapshotIs ==
  NoSnapshot.next = 1 /\ NoSnapshot.ids = {} /\ NoSnapshot \in Snapshots
<1>1. [p \in Partitions |-> 0] \in [Partitions -> 0..MaxLog]
  BY LoadAssumption
<1>2. PICK n \in 1..6 : n = 1
  OBVIOUS
<1> QED
  BY <1>1, <1>2, SixQueries DEF NoSnapshot, Snapshots

\* A snapshot that has no answers yet says nothing.
LEMMA NothingAsked ==
  ASSUME probe' = NoSnapshot, baseline' \in Snapshots \cup {NoSnapshot}
  PROVE  ProbeInv'
BY NoSnapshotIs DEF ProbeInv

\* The snapshot and the baseline, step by step.
LEMMA ProbeInvKept ==
  ASSUME Inv, PipelineInv, PipelineInv', DriverInv, StageInv, ProbeInv, MilestoneInv,
         [LoadNext]_loadVars
  PROVE  ProbeInv'
<1>1. [Next]_vars
  BY StepsAreDelivery DEF loadVars
<1>2. ASSUME UNCHANGED <<main, probe, baseline, milestones>> PROVE ProbeInv'
  BY <1>1, <1>2, AnswersStand
<1>3. ASSUME probe' = NoSnapshot, UNCHANGED baseline PROVE ProbeInv'
  BY <1>3, NothingAsked DEF ProbeInv
<1>4. CASE Load
  <2>1. CASE Start \/ Collected
    <3>1. probe' = NoSnapshot /\ UNCHANGED baseline
      BY <2>1 DEF Start, Collected, prober, ProbeInv
    <3> QED
      BY <3>1, <1>3
  <2>2. CASE ~(Start \/ Collected)
    BY <2>2, <1>4, <1>2 DEF Load, TakeJob, Answered, WorkerDone, CloseJobs, CloseResults, Collect,
                            prober
  <2> QED
    BY <2>1, <2>2
<1>5. CASE Probe
  <2>1. CASE Ask
    BY <2>1, AskKeeps
  <2>2. CASE TakeBaseline
    <3>1. probe' = NoSnapshot /\ baseline' = Sampled
      BY <2>2 DEF TakeBaseline
    <3>2. Sampled \in Snapshots
      BY SampledIs DEF ProbeInv
    <3> QED
      BY <3>1, <3>2, NothingAsked
  <2>3. CASE Observe
    <3>1. probe' = NoSnapshot /\ UNCHANGED baseline
      BY <2>3, Zenon DEF Observe
    <3> QED
      BY <3>1, <1>3
  <2>4. CASE SnapshotFailed
    BY <2>4, <1>3 DEF SnapshotFailed
  <2>5. CASE Tick \/ TimedOut
    <3>1. probe' = NoSnapshot /\ UNCHANGED baseline
      BY <2>5 DEF Tick, TimedOut, ProbeInv
    <3> QED
      BY <3>1, <1>3
  <2> QED
    BY <1>5, <2>1, <2>2, <2>3, <2>4, <2>5 DEF Probe
<1>6. CASE Pipeline \/ \E r \in Requests : CreateRecord(r)
  BY <1>2, <1>6 DEF Pipeline, CreateRecord, prober
<1>7. CASE UNCHANGED loadVars
  BY <1>2, <1>7 DEF loadVars, prober
<1> QED
  BY <1>4, <1>5, <1>6, <1>7 DEF LoadNext

-----------------------------------------------------------------------------
(* The milestones. *)

Times == [DOMAIN NoMilestones -> 0..MaxPolls + 1]

\* A milestone is noted once, the others are left alone.
LEMMA SeenIs ==
  ASSUME NEW ms \in Times, NEW name \in DOMAIN NoMilestones, NEW condition \in BOOLEAN,
         NEW elapsed \in 0..MaxPolls + 1
  PROVE  /\ Seen(ms, name, condition, elapsed) \in Times
         /\ \A other \in DOMAIN NoMilestones :
              Seen(ms, name, condition, elapsed)[other]
                = IF other = name /\ ms[other] = 0 /\ condition THEN elapsed ELSE ms[other]
BY DEF Seen, Times

\* What a poll notes.
LEMMA ObservedIs ==
  ASSUME milestones \in Times, NEW s, NEW elapsed \in 0..MaxPolls + 1,
         NEW m, m = ObservePipelineMilestones(s, elapsed)
  PROVE  /\ m \in Times
         /\ m.outboxPublished
              = IF milestones.outboxPublished = 0 /\ RecordsComplete(s) /\ s.unpublished = 0
                THEN elapsed ELSE milestones.outboxPublished
         /\ m.notificationsComplete
              = IF milestones.notificationsComplete = 0 /\ NotificationsComplete(s)
                THEN elapsed ELSE milestones.notificationsComplete
         /\ m.kafkaCaughtUp
              = IF milestones.kafkaCaughtUp = 0 /\ m.outboxPublished > 0 /\ s.lag = 0
                THEN elapsed ELSE milestones.kafkaCaughtUp
<1> DEFINE records == RecordsComplete(s) /\ s.unpublished = 0
           outboxSeen == Seen(milestones, "outboxPublished", records, elapsed)
           notifications == NotificationsComplete(s)
           first == Seen(outboxSeen, "notificationsComplete", notifications, elapsed)
           caughtUp == first.outboxPublished > 0 /\ s.lag = 0
<1>1. /\ "outboxPublished" \in DOMAIN NoMilestones /\ "kafkaCaughtUp" \in DOMAIN NoMilestones
      /\ "notificationsComplete" \in DOMAIN NoMilestones
  BY DEF NoMilestones
<1>2. records \in BOOLEAN /\ notifications \in BOOLEAN /\ caughtUp \in BOOLEAN
  BY DEF NotificationsComplete
<1>3. m = Seen(first, "kafkaCaughtUp", caughtUp, elapsed)
  BY DEF ObservePipelineMilestones, FirstSeen
<1> HIDE DEF records, notifications, caughtUp
<1>4. /\ outboxSeen \in Times
      /\ \A other \in DOMAIN NoMilestones :
           outboxSeen[other] = IF other = "outboxPublished" /\ milestones[other] = 0 /\ records
                               THEN elapsed ELSE milestones[other]
  BY <1>1, <1>2, SeenIs
<1> HIDE DEF outboxSeen
<1>5. /\ first \in Times
      /\ \A other \in DOMAIN NoMilestones :
           first[other] = IF other = "notificationsComplete" /\ outboxSeen[other] = 0 /\ notifications
                          THEN elapsed ELSE outboxSeen[other]
  BY <1>1, <1>2, <1>4, SeenIs
<1> HIDE DEF first
<1>6. /\ m \in Times
      /\ \A other \in DOMAIN NoMilestones :
           m[other] = IF other = "kafkaCaughtUp" /\ first[other] = 0 /\ caughtUp
                      THEN elapsed ELSE first[other]
  <2>1. first \in Times /\ caughtUp \in BOOLEAN /\ "kafkaCaughtUp" \in DOMAIN NoMilestones
    BY <1>1, <1>2, <1>5
  <2> QED
    BY <1>3, <2>1, SeenIs
<1>7. m.outboxPublished = first.outboxPublished
      /\ first.outboxPublished = IF milestones.outboxPublished = 0 /\ records
                                THEN elapsed ELSE milestones.outboxPublished
  BY <1>1, <1>4, <1>5, <1>6
<1>8. m.notificationsComplete = IF milestones.notificationsComplete = 0 /\ notifications
                                THEN elapsed ELSE milestones.notificationsComplete
  BY <1>1, <1>4, <1>5, <1>6
<1>9. m.kafkaCaughtUp = IF milestones.kafkaCaughtUp = 0 /\ caughtUp
                        THEN elapsed ELSE milestones.kafkaCaughtUp
  BY <1>1, <1>4, <1>5, <1>6
<1> QED
  BY <1>6, <1>7, <1>8, <1>9 DEF records, notifications, caughtUp

\* The committed offsets were read last: what was within the ends when these were
\* read, and is not behind an offset that was read after them, has been processed.
LEMMA NoLagMeansProcessed ==
  ASSUME Inv, Promise, PipelineInv, ProbeInv, main = "polling", probe.next = 6, Sampled.lag = 0,
         probe.unpublished = 0 \/ milestones.outboxPublished > 0, NEW r \in Requests
  PROVE  Processed(r)
<1>1. WithinEnds(r, probe.ends) /\ LogOf[r] \in Partitions
  BY LoadAssumption, DeliveryAssumption DEF ProbeInv
<1>2. probe.ends \in [Partitions -> 0..MaxLog] /\ Lag(probe.ends) = 0
  BY SampledIs DEF ProbeInv, Snapshots
<1>3. probe.ends[LogOf[r]] <= offset[LogOf[r]]
  BY <1>1, <1>2, NoLag
<1>4. PICK i \in 1..probe.ends[LogOf[r]] : topic[LogOf[r]][i] = r
  BY <1>1 DEF WithinEnds
<1>5. i \in 1..offset[LogOf[r]]
  <2>1. probe.ends[LogOf[r]] \in Int /\ offset[LogOf[r]] \in Int
    BY <1>1, <1>2 DEF Inv
  <2> QED
    BY <2>1, <1>3
<1> QED
  BY <1>1, <1>4, <1>5 DEF Promise, CommittedProcessed

\* The notifications of others, as far as the probe may have counted them.
OfOthers == outbox \cap Others \cap notified

\* As many new notifications as requests: what is missing of the requests has come
\* from others.
LEMMA AllNotified ==
  ASSUME Inv, PipelineInv, ProbeInv, probe.next = 6, NotificationsComplete(Sampled)
  PROVE  Cardinality(Requests \ notified) + baseline.notifications <= Cardinality(OfOthers)
<1>1. probe \in Snapshots /\ probe.ids \in SUBSET OfWorkflow /\ probe.ids \subseteq outbox
  BY DEF ProbeInv, Snapshots
<1>2. baseline.notifications \in Nat /\ probe.notifications \in Nat
  BY <1>1, NoSnapshotIs DEF ProbeInv, Snapshots
<1>3. Sampled.notifications = probe.notifications
  BY <1>1, SampledIs
<1>4. Expected \in Nat /\ Expected + baseline.notifications <= probe.notifications
  BY <1>2, <1>3, ResolvedIsFinite DEF NotificationsComplete
<1> DEFINE counted1 == probe.ids \cap notified
           own == Requests \cap notified
<1>5. /\ IsFiniteSet(counted1) /\ IsFiniteSet(own) /\ IsFiniteSet(OfOthers)
      /\ IsFiniteSet(Requests) /\ IsFiniteSet(Requests \ notified) /\ IsFiniteSet(own \cup OfOthers)
  BY <1>1, LoadAssumption, FS_Subset, FS_Union DEF OfOthers, PipelineInv
<1>6. /\ Cardinality(counted1) \in Nat /\ Cardinality(own) \in Nat /\ Cardinality(OfOthers) \in Nat
      /\ Cardinality(Requests \ notified) \in Nat /\ Cardinality(own \cup OfOthers) \in Nat
  BY <1>5, FS_CardinalityType
<1>7. Cardinality(counted1) <= Cardinality(own \cup OfOthers)
  <2>1. counted1 \subseteq own \cup OfOthers
    BY <1>1 DEF OfWorkflow, OfOthers
  <2> QED
    BY <1>5, <2>1, FS_Subset
<1>8. Cardinality(own \cup OfOthers) = Cardinality(own) + Cardinality(OfOthers)
  <2>1. own \cap OfOthers = {} /\ Cardinality({}) = 0
    BY LoadAssumption, FS_EmptySet DEF OfOthers
  <2>2. Cardinality(own \cup OfOthers)
          = Cardinality(own) + Cardinality(OfOthers) - Cardinality(own \cap OfOthers)
    BY <1>5, FS_Union
  <2>3. Cardinality(own \cap OfOthers) = 0
    BY <2>1
  <2> HIDE DEF own
  <2> QED
    BY <1>6, <2>2, <2>3
<1>9. Cardinality(Requests \ notified) = Expected - Cardinality(own)
  BY <1>5, FS_Difference DEF Expected
<1>10. probe.notifications <= Cardinality(counted1)
  BY DEF ProbeInv
<1> QED
  BY <1>2, <1>4, <1>6, <1>7, <1>8, <1>9, <1>10

\* And it stays so: notifications are never taken back.
LEMMA NotifiedStay ==
  ASSUME PipelineInv', ProbeInv, CompleteMeansNotified,
         outbox \subseteq outbox', notified \subseteq notified',
         main' = "complete" => main = "complete" /\ baseline' = baseline
  PROVE  CompleteMeansNotified'
<1> SUFFICES ASSUME main' = "complete"
             PROVE  Cardinality(Requests \ notified') + baseline.notifications
                      <= Cardinality(OfOthers')
  BY DEF CompleteMeansNotified, OfOthers
<1>1. Cardinality(Requests \ notified) + baseline.notifications <= Cardinality(OfOthers)
  BY DEF CompleteMeansNotified, OfOthers
<1>2. /\ IsFiniteSet(Requests \ notified) /\ IsFiniteSet(Requests \ notified')
      /\ IsFiniteSet(OfOthers) /\ IsFiniteSet(OfOthers')
  BY LoadAssumption, FS_Subset DEF OfOthers, PipelineInv
<1>3. /\ Cardinality(Requests \ notified') <= Cardinality(Requests \ notified)
      /\ Cardinality(OfOthers) <= Cardinality(OfOthers')
  <2>1. Requests \ notified' \subseteq Requests \ notified /\ OfOthers \subseteq OfOthers'
    BY DEF OfOthers
  <2> QED
    BY <1>2, <2>1, FS_Subset
<1>4. /\ Cardinality(Requests \ notified) \in Nat /\ Cardinality(Requests \ notified') \in Nat
      /\ Cardinality(OfOthers) \in Nat /\ Cardinality(OfOthers') \in Nat
  BY <1>2, FS_CardinalityType
<1>5. baseline.notifications \in Nat
  BY NoSnapshotIs DEF ProbeInv, Snapshots
<1> QED
  BY <1>1, <1>3, <1>4, <1>5

\* A poll notes only what is so.
LEMMA ObserveKeeps ==
  ASSUME Inv, Promise, PipelineInv, StageInv, ProbeInv, MilestoneInv, Observe
  PROVE  MilestoneInv' /\ StagesInOrder' /\ CompleteMeansNotified'
<1> DEFINE s == Sampled
           seen == ObservePipelineMilestones(s, polls + 1)
<1>1. /\ main = "polling" /\ probe.next = 6
      /\ UNCHANGED <<outbox, published, notified, deadLetters, polls>>
  BY Zenon, SixQueries DEF Observe, vars
<1>2. /\ PipelineComplete(s) => main' = "complete" /\ milestones' = [seen EXCEPT !.endToEnd = polls + 1]
      /\ ~PipelineComplete(s) => main' = "waiting" /\ milestones' = seen
  BY Zenon DEF Observe
<1>3. /\ polls \in 0..MaxPolls /\ milestones \in Times /\ polls + 1 \in 0..MaxPolls + 1
      /\ milestones.outboxPublished \in Nat /\ milestones.kafkaCaughtUp \in Nat
      /\ milestones.notificationsComplete \in Nat
      /\ milestones.outboxPublished <= polls + 1 /\ milestones.kafkaCaughtUp <= polls + 1
      /\ milestones.notificationsComplete <= polls + 1
  BY LoadAssumption DEF MilestoneInv, Times, NoMilestones
<1>4. /\ seen \in Times
      /\ seen.outboxPublished
              = IF milestones.outboxPublished = 0 /\ RecordsComplete(s) /\ s.unpublished = 0
                THEN polls + 1 ELSE milestones.outboxPublished
      /\ seen.notificationsComplete
              = IF milestones.notificationsComplete = 0 /\ NotificationsComplete(s)
                THEN polls + 1 ELSE milestones.notificationsComplete
      /\ seen.kafkaCaughtUp
              = IF milestones.kafkaCaughtUp = 0 /\ seen.outboxPublished > 0 /\ s.lag = 0
                THEN polls + 1 ELSE milestones.kafkaCaughtUp
  BY <1>3, ObservedIs
<1>5. s.unpublished = probe.unpublished
  BY <1>1, SampledIs DEF ProbeInv
<1>6. probe.unpublished = 0 => Requests \subseteq published
  BY <1>1 DEF ProbeInv
<1>7. s.lag = 0 /\ seen.outboxPublished > 0 => \A r \in Requests : Processed(r)
  BY <1>1, <1>3, <1>4, <1>5, NoLagMeansProcessed
<1> HIDE DEF s, seen
<1>8. /\ milestones' \in Times
      /\ milestones'.outboxPublished = seen.outboxPublished
      /\ milestones'.notificationsComplete = seen.notificationsComplete
      /\ milestones'.kafkaCaughtUp = seen.kafkaCaughtUp
      /\ main' = "complete" => milestones'.endToEnd = polls + 1
  BY <1>2, <1>3, <1>4 DEF Times, NoMilestones
<1>9. MilestoneInv'
  <2>1. AfterLoad' /\ \A r : Processed(r)' = Processed(r)
    BY <1>1, <1>2 DEF AfterLoad, Processed
  <2>2. milestones'.outboxPublished > 0 => Requests \subseteq published'
    BY <1>1, <1>3, <1>4, <1>5, <1>6, <1>8 DEF MilestoneInv
  <2>3. milestones'.kafkaCaughtUp > 0 =>
          /\ \A r \in Requests : Processed(r)
          /\ 0 < milestones'.outboxPublished
          /\ milestones'.outboxPublished <= milestones'.kafkaCaughtUp
    <3>1. CASE milestones.kafkaCaughtUp = 0
      BY <3>1, <1>3, <1>4, <1>7, <1>8
    <3>2. CASE milestones.kafkaCaughtUp > 0
      BY <3>2, <1>3, <1>4, <1>8 DEF MilestoneInv
    <3> QED
      BY <3>1, <3>2, <1>3
  <2>4. \A name \in {"outboxPublished", "kafkaCaughtUp", "notificationsComplete"} :
          milestones'[name] <= polls' + 1
    BY <1>1, <1>3, <1>4, <1>8
  <2> QED
    BY <1>1, <1>3, <1>8, <2>1, <2>2, <2>3, <2>4 DEF MilestoneInv, Times
<1>10. StagesInOrder'
  <2> SUFFICES ASSUME main' = "complete" PROVE StagesInOrder'
    BY DEF StagesInOrder
  <2>1. /\ RecordsComplete(s) /\ s.unpublished = 0 /\ NotificationsComplete(s) /\ s.lag = 0
        /\ milestones'.endToEnd = polls + 1
    BY <1>2, <1>8 DEF PipelineComplete
  <2>2. 0 < seen.outboxPublished /\ 0 < seen.notificationsComplete
    BY <2>1, <1>3, <1>4
  <2>3. seen.outboxPublished <= seen.kafkaCaughtUp
    <3>1. CASE milestones.kafkaCaughtUp = 0
      BY <3>1, <2>1, <2>2, <1>3, <1>4
    <3>2. CASE milestones.kafkaCaughtUp > 0
      BY <3>2, <1>3, <1>4 DEF MilestoneInv
    <3> QED
      BY <3>1, <3>2, <1>3
  <2>4. seen.kafkaCaughtUp <= polls + 1 /\ seen.notificationsComplete <= polls + 1
    BY <1>3, <1>4
  <2> QED
    BY <1>8, <2>1, <2>2, <2>3, <2>4 DEF StagesInOrder
<1>11. CompleteMeansNotified'
  <2> SUFFICES ASSUME main' = "complete" PROVE CompleteMeansNotified'
    BY DEF CompleteMeansNotified
  <2>1. NotificationsComplete(s)
    BY <1>2 DEF PipelineComplete
  <2>2. Cardinality(Requests \ notified) + baseline.notifications <= Cardinality(OfOthers)
    BY <1>1, <2>1, AllNotified DEF s
  <2>3. baseline' = baseline
    BY Zenon DEF Observe
  <2> QED
    BY <1>1, <2>2, <2>3 DEF CompleteMeansNotified, OfOthers
<1> QED
  BY <1>9, <1>10, <1>11

\* The milestones, and what they mean at the end, step by step.
LEMMA MilestoneInvKept ==
  ASSUME Inv, Promise, PipelineInv, PipelineInv', StageInv, StageInv', ProbeInv, MilestoneInv,
         StagesInOrder, CompleteMeansNotified, [LoadNext]_loadVars
  PROVE  MilestoneInv' /\ StagesInOrder' /\ CompleteMeansNotified'
<1>1. /\ outbox \subseteq outbox' /\ published \subseteq published'
      /\ \A r : Processed(r) => Processed(r)'
      /\ notified \subseteq notified'
  <2>1. [Next]_vars
    BY StepsAreDelivery DEF loadVars
  <2> QED
    BY <2>1, PipelineGrows DEF Processed
<1>2. /\ polls \in 0..MaxPolls /\ milestones \in Times /\ MaxPolls \in Nat
      /\ \A name \in DOMAIN NoMilestones : milestones[name] \in Nat
  BY LoadAssumption DEF MilestoneInv, Times
<1>3. ASSUME UNCHANGED <<milestones, polls>>, AfterLoad => AfterLoad',
             main' = "complete" => main = "complete" /\ baseline' = baseline
      PROVE  MilestoneInv' /\ StagesInOrder' /\ CompleteMeansNotified'
  <2>1. MilestoneInv'
    BY <1>1, <1>3 DEF MilestoneInv
  <2>2. StagesInOrder'
    BY <1>3 DEF StagesInOrder
  <2>3. CompleteMeansNotified'
    BY <1>1, <1>3, NotifiedStay
  <2> QED
    BY <2>1, <2>2, <2>3
<1>4. CASE Load
  <2>1. CASE Start
    BY <2>1, <1>3 DEF Start, AfterLoad, prober
  <2>2. CASE Collected
    BY <2>2, <1>3 DEF Collected, AfterLoad, prober
  <2>3. CASE ~(Start \/ Collected)
    <3>1. UNCHANGED <<main, milestones, polls, baseline>>
      BY <2>3, <1>4 DEF Load, TakeJob, Answered, WorkerDone, CloseJobs, CloseResults, Collect, prober
    <3> QED
      BY <3>1, <1>3 DEF AfterLoad
  <2> QED
    BY <2>1, <2>2, <2>3
<1>5. CASE Probe
  <2>1. CASE Ask \/ TakeBaseline \/ SnapshotFailed
    BY <2>1, <1>3 DEF Ask, TakeBaseline, SnapshotFailed, AfterLoad
  <2>2. CASE Observe
    BY <2>2, ObserveKeeps
  <2>3. CASE Tick
    <3>1. /\ milestones' = milestones /\ polls' = polls + 1 /\ polls' \in 0..MaxPolls
          /\ main' = "polling"
      BY <2>3, <1>2 DEF Tick
    <3>2. \A name \in {"outboxPublished", "kafkaCaughtUp", "notificationsComplete"} :
            milestones'[name] <= polls' + 1
      BY <3>1, <1>2 DEF MilestoneInv, NoMilestones
    <3>3. MilestoneInv'
      BY <3>1, <3>2, <1>1 DEF MilestoneInv, AfterLoad
    <3> QED
      BY <3>1, <3>3 DEF StagesInOrder, CompleteMeansNotified
  <2>4. CASE TimedOut
    <3>1. /\ milestones' = [milestones EXCEPT !.endToEnd = polls + 1] /\ polls' = polls
          /\ main' = "timed out"
      BY <2>4 DEF TimedOut
    <3>2. /\ milestones' \in Times
          /\ \A name \in {"outboxPublished", "kafkaCaughtUp", "notificationsComplete"} :
               milestones'[name] = milestones[name]
      <4>1. polls + 1 \in 0..MaxPolls + 1
        BY <1>2
      <4> QED
        BY <3>1, <4>1, <1>2 DEF Times, NoMilestones
    <3>3. MilestoneInv'
      <4>1. milestones' \in [DOMAIN NoMilestones -> 0..MaxPolls + 1] /\ polls' \in 0..MaxPolls
        BY <3>1, <3>2, <1>2 DEF Times
      <4>2. /\ milestones'.outboxPublished = milestones.outboxPublished
            /\ milestones'.kafkaCaughtUp = milestones.kafkaCaughtUp
        BY <3>2
      <4>3. AfterLoad'
        BY <3>1 DEF AfterLoad
      <4> QED
        BY <3>1, <3>2, <4>1, <4>2, <4>3, <1>1 DEF MilestoneInv
    <3> QED
      BY <3>1, <3>3 DEF StagesInOrder, CompleteMeansNotified
  <2> QED
    BY <1>5, <2>1, <2>2, <2>3, <2>4 DEF Probe
<1>6. CASE Pipeline \/ \E r \in Requests : CreateRecord(r)
  BY <1>3, <1>6 DEF Pipeline, CreateRecord, prober, AfterLoad
<1>7. CASE UNCHANGED loadVars
  BY <1>3, <1>7 DEF loadVars, prober, AfterLoad
<1> QED
  BY <1>4, <1>5, <1>6, <1>7 DEF LoadNext

-----------------------------------------------------------------------------
(* The theorems. *)

\* Before the load there are no results, answers or milestones.
LEMMA LoadInitHolds == LoadInit => LoadInv
<1> SUFFICES ASSUME LoadInit PROVE LoadInv
  OBVIOUS
<1> USE DEF LoadInit
<1>1. PipelineInv
  <2>1. \A p \in Partitions : Len(topic[p]) <= MaxLog
    BY LoadAssumption DEF Init
  <2> QED
    BY <2>1, FS_EmptySet DEF PipelineInv, Init
<1>2. DriverInv
  <2>1. Held = {}
    BY LoadAssumption DEF Held
  <2>2. Resolved = {} /\ Cardinality(Resolved) = 0
    BY <2>1, FS_EmptySet DEF Resolved
  <2>3. worker \in [Workers -> Requests \cup {"idle", "done"}] /\ \A w \in Workers : worker[w] = "idle"
    OBVIOUS
  <2> QED
    BY <2>2, <2>3, LoadAssumption DEF DriverInv, NoResults
<1>3. StageInv
  BY DEF StageInv, AfterLoad
<1>4. ProbeInv
  BY NoSnapshotIs DEF ProbeInv
<1>5. MilestoneInv
  BY LoadAssumption DEF MilestoneInv, NoMilestones
<1> QED
  BY <1>1, <1>2, <1>3, <1>4, <1>5 DEF LoadInv, StagesInOrder, CompleteMeansNotified

\* The load and its probe use the pipeline as EventDelivery describes it, and nothing
\* else of it.
LEMMA LoadImplementsDelivery == LoadSpec => Spec
<1>1. LoadInit => Init
  BY DEF LoadInit
<1>2. [LoadNext]_loadVars => [Next]_vars
  BY StepsAreDelivery DEF loadVars
<1> QED
  BY <1>1, <1>2, PTL DEF LoadSpec, Spec

\* The inductive invariant.
LEMMA LoadInvAlways == LoadSpec => [](LoadInv /\ Inv /\ Promise)
<1>1. LoadInv /\ Inv /\ Promise /\ [LoadNext]_loadVars => LoadInv'
  <2> SUFFICES ASSUME LoadInv, Inv, Promise, [LoadNext]_loadVars PROVE LoadInv'
    OBVIOUS
  <2>1. PipelineInv' /\ DriverInv'
    BY PipelineInvKept, DriverInvKept DEF LoadInv
  <2>2. StageInv'
    BY StageInvKept DEF LoadInv
  <2>3. ProbeInv'
    BY <2>1, ProbeInvKept DEF LoadInv
  <2>4. MilestoneInv' /\ StagesInOrder' /\ CompleteMeansNotified'
    BY <2>1, <2>2, MilestoneInvKept DEF LoadInv
  <2> QED
    BY <2>1, <2>2, <2>3, <2>4 DEF LoadInv
<1> QED
  BY <1>1, LoadInitHolds, LoadImplementsDelivery, DeliveryKeepsPromise, PTL DEF LoadSpec

\* The types of the load's variables; that there are never more results, buffered or
\* counted, than requests follows from where each request is.
THEOREM LoadTypeCorrect == LoadSpec => []LoadTypeOK
<1>1. LoadInv => LoadTypeOK
  <2> SUFFICES ASSUME LoadInv PROVE LoadTypeOK
    OBVIOUS
  <2>1. /\ results.created \in Nat /\ results.other \in Nat
        /\ counted.created \in Nat /\ counted.other \in Nat
        /\ results.created + results.other + counted.created + counted.other <= Expected
    BY ResolvedIsFinite DEF LoadInv, DriverInv
  <2>2. /\ results.created \in 0..Expected /\ results.other \in 0..Expected
        /\ counted.created \in 0..Expected /\ counted.other \in 0..Expected
    BY <2>1, ResolvedIsFinite
  <2>3. results \in Counts /\ counted \in Counts
    BY <2>2 DEF LoadInv, DriverInv, Counts
  <2> QED
    BY <2>3 DEF LoadInv, DriverInv, StageInv, ProbeInv, MilestoneInv, LoadTypeOK
<1> QED
  BY <1>1, LoadInvAlways, PTL

\* When the collector stops, the result of every request is counted, and every request
\* counted as created is a record: no result is lost between the channels.
THEOREM EveryRequestCounted == LoadSpec => []CountsEveryRequest
<1>1. LoadInv => CountsEveryRequest
  BY AllCounted DEF LoadInv, CountsEveryRequest, StageInv, AfterLoad
<1> QED
  BY <1>1, LoadInvAlways, PTL

\* Once "kafka lag reached zero" is recorded, every event of the load is processed,
\* although the probe asked for the outbox, the ends and the offsets one after the other.
THEOREM CaughtUpIsTrue == LoadSpec => []CaughtUpMeansProcessed
<1>1. LoadInv => CaughtUpMeansProcessed
  BY DEF LoadInv, MilestoneInv, CaughtUpMeansProcessed
<1> QED
  BY <1>1, LoadInvAlways, PTL

\* A complete run has seen every stage, none before those it waits for.
THEOREM StagesAlwaysInOrder == LoadSpec => []StagesInOrder
BY LoadInvAlways, PTL DEF LoadInv

\* A complete run has as many new notifications as requests: every record of the load
\* has its own, or somebody else's record has got one in its place.
THEOREM CompleteIsNotified == LoadSpec => []CompleteMeansNotified
BY LoadInvAlways, PTL DEF LoadInv
=============================================================================
