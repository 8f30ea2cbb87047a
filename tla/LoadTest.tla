------------------------------- MODULE LoadTest -------------------------------
(***************************************************************************)
(* The load generator and its probe (cmd/loadtest) against the pipeline,   *)
(* of which EventDelivery says all that the probe may rely on.  A feeder   *)
(* hands requests to workers, a collector counts their results, and the    *)
(* probe then samples the pipeline, one query after the other while it     *)
(* goes on, until a sample says that the requests are through.             *)
(*                                                                         *)
(* A request and the event of the record it creates have the same name.    *)
(* Times are counted in polls; time 0 is "not observed".                   *)
(***************************************************************************)
EXTENDS EventDelivery, FiniteSets, FiniteSetsExt

CONSTANTS
  Requests,     \* the requests of this load
  Others,       \* creations that other people make in the same workflow
  Workers,
  MaxPolls,     \* bound: the pipeline timeout, in polls
  MaxLog        \* bound: the messages of a partition

ASSUME LoadAssumption ==
  /\ Requests \subseteq Events /\ Others \subseteq Events
  /\ Requests \cap Others = {}
  /\ Requests # {} /\ Workers # {}
  /\ IsFiniteSet(Requests) /\ IsFiniteSet(Partitions)
  /\ {"idle", "done"} \cap Requests = {}
  /\ MaxPolls \in Nat \ {0} /\ MaxLog \in Nat

Expected == Cardinality(Requests)
OfWorkflow == Requests \cup Others

VARIABLES
  main,         \* where main() is
  jobs,         \* requests that were not handed out yet
  jobsOpen,     \* whether the channel of jobs is open
  worker,       \* worker -> "idle", "done" or its request
  results,      \* the buffered results: how many created, how many others
  resultsOpen,  \* whether the channel of results is open
  counted,      \* the results counted by the collector
  probe,        \* the snapshot that is being taken
  baseline,     \* the snapshot of before the load
  milestones,   \* when what was first observed
  polls         \* the snapshots of the wait

driver == <<jobs, jobsOpen, worker, results, resultsOpen, counted>>
prober == <<probe, baseline, milestones, polls>>
loadVars == <<vars, main, driver, prober>>

NoResults == [created |-> 0, other |-> 0]
Queries == <<"records", "unpublished", "ids", "notifications", "ends", "committed">>
NoSnapshot == [next |-> 1, records |-> 0, unpublished |-> 0, ids |-> {},
               notifications |-> 0, ends |-> [p \in Partitions |-> 0], lag |-> 0]
NoMilestones == [outboxPublished |-> 0, kafkaCaughtUp |-> 0, notificationsComplete |-> 0,
                 endToEnd |-> 0]

Counts == [created: 0..Expected, other: 0..Expected]
Snapshots == [next: 1..Len(Queries), records: Nat, unpublished: Nat, ids: SUBSET OfWorkflow,
              notifications: Nat, ends: [Partitions -> 0..MaxLog], lag: Nat]

\* Type invariant.
LoadTypeOK ==
  /\ main \in {"starting", "baseline", "collecting", "polling", "waiting", "finished",
               "complete", "timed out", "failed"}
  /\ jobs \subseteq Requests
  /\ jobsOpen \in BOOLEAN /\ resultsOpen \in BOOLEAN
  /\ worker \in [Workers -> Requests \cup {"idle", "done"}]
  /\ results \in Counts /\ counted \in Counts
  /\ probe \in Snapshots /\ baseline \in Snapshots \cup {NoSnapshot}
  /\ milestones \in [DOMAIN NoMilestones -> 0..MaxPolls + 1]
  /\ polls \in 0..MaxPolls

LoadInit ==
  /\ Init
  /\ main = "starting"
  /\ jobs = Requests /\ jobsOpen = TRUE
  /\ worker = [w \in Workers |-> "idle"]
  /\ results = NoResults /\ resultsOpen = TRUE
  /\ counted = NoResults
  /\ probe = NoSnapshot /\ baseline = NoSnapshot
  /\ milestones = NoMilestones /\ polls = 0

-----------------------------------------------------------------------------
(* The load. *)

\* The workflow is made, if none is named, and the flags say whether to wait for
\* the pipeline.
Start ==
  /\ main = "starting"
  /\ main' \in {"baseline", "collecting", "failed"}
  /\ UNCHANGED <<vars, driver, prober>>

Loading == main \notin {"starting", "baseline", "failed"}

\* The feeder hands a request to a worker that waits for one.
TakeJob(w, r) ==
  /\ Loading
  /\ worker[w] = "idle" /\ r \in jobs
  /\ jobs' = jobs \ {r}
  /\ worker' = [worker EXCEPT ![w] = r]
  /\ UNCHANGED <<vars, main, jobsOpen, results, resultsOpen, counted, prober>>

\* The server creates the record, perhaps after the client has given up.
CreateRecord(r) ==
  /\ r \in Requests \ jobs
  /\ Accept(r)
  /\ UNCHANGED <<main, driver, prober>>

\* The answer, an error of the transport or the client's timeout ends a request.
Answered(w, kind) ==
  /\ worker[w] \in Requests
  /\ kind = "created" => worker[w] \in outbox
  /\ resultsOpen /\ results.created + results.other < Expected
  /\ results' = [results EXCEPT ![kind] = @ + 1]
  /\ worker' = [worker EXCEPT ![w] = "idle"]
  /\ UNCHANGED <<vars, main, jobs, jobsOpen, resultsOpen, counted, prober>>

\* Mutant: the channel stays open.
CloseJobsNever == FALSE /\ UNCHANGED loadVars

CloseJobs ==
  /\ Loading /\ jobs = {} /\ jobsOpen
  /\ jobsOpen' = FALSE
  /\ UNCHANGED <<vars, main, jobs, worker, results, resultsOpen, counted, prober>>

WorkerDone(w) ==
  /\ worker[w] = "idle" /\ ~jobsOpen
  /\ worker' = [worker EXCEPT ![w] = "done"]
  /\ UNCHANGED <<vars, main, jobs, jobsOpen, results, resultsOpen, counted, prober>>

\* Mutant: without wg.Wait.
CloseResultsEarly ==
  /\ ~jobsOpen /\ resultsOpen
  /\ resultsOpen' = FALSE
  /\ UNCHANGED <<vars, main, jobs, jobsOpen, worker, results, counted, prober>>

CloseResults ==
  /\ ~jobsOpen /\ resultsOpen
  /\ \A w \in Workers : worker[w] = "done"
  /\ resultsOpen' = FALSE
  /\ UNCHANGED <<vars, main, jobs, jobsOpen, worker, results, counted, prober>>

Collect(kind) ==
  /\ main = "collecting" /\ results[kind] > 0
  /\ results' = [results EXCEPT ![kind] = @ - 1]
  /\ counted' = [counted EXCEPT ![kind] = @ + 1]
  /\ UNCHANGED <<vars, main, jobs, jobsOpen, worker, resultsOpen, prober>>

\* One failed request and the process exits; so it does where there is no probe.
Collected ==
  /\ main = "collecting" /\ ~resultsOpen /\ results = NoResults
  /\ \/ counted.other > 0 /\ main' = "failed"
     \/ counted.other = 0 /\ main' = IF baseline = NoSnapshot THEN "finished" ELSE "polling"
  /\ UNCHANGED <<vars, driver, prober>>

-----------------------------------------------------------------------------
(* The probe.  Snapshot and its helpers ask one thing after the other. *)

\* Mutant: offsets beyond the end count against the lag of other partitions.
LagUnclamped(ends) == MapThenSumSet(LAMBDA p : ends[p] - offset[p], Partitions)

\* The messages between the committed offsets and the ends that were read: none in a
\* partition whose offset is beyond its end.
Behind(ends) == UNION {{p} \X ((offset[p] + 1)..ends[p]) : p \in Partitions}

\* calculateKafkaLag.
Lag(ends) == Cardinality(Behind(ends))

\* The answer to the next query of the snapshot.
Sampled ==
  LET inOutbox == outbox \cap OfWorkflow
  IN CASE Queries[probe.next] = "records" ->
            [probe EXCEPT !.next = 2, !.records = Cardinality(inOutbox)]
       [] Queries[probe.next] = "unpublished" ->
            [probe EXCEPT !.next = 3, !.unpublished = Cardinality(inOutbox \ published)]
       [] Queries[probe.next] = "ids" ->
            [probe EXCEPT !.next = 4, !.ids = inOutbox]
       [] Queries[probe.next] = "notifications" ->
            [probe EXCEPT !.next = 5, !.notifications = Cardinality(probe.ids \cap notified)]
       [] Queries[probe.next] = "ends" ->
            [probe EXCEPT !.next = 6, !.ends = [p \in Partitions |-> Len(topic[p])]]
       [] OTHER -> [probe EXCEPT !.lag = Lag(probe.ends)]

Ask ==
  /\ main \in {"baseline", "polling"}
  /\ probe.next < Len(Queries)
  /\ probe' = Sampled
  /\ UNCHANGED <<vars, main, driver, baseline, milestones, polls>>

\* The last answer of the baseline starts the load.
TakeBaseline ==
  /\ main = "baseline" /\ probe.next = Len(Queries)
  /\ baseline' = Sampled
  /\ probe' = NoSnapshot
  /\ main' = "collecting"
  /\ UNCHANGED <<vars, driver, milestones, polls>>

RecordsComplete(s) == s.records - baseline.records >= Expected
NotificationsComplete(s) == s.notifications - baseline.notifications >= Expected

\* Mutant: the notifications are not compared.
PipelineCompleteUnnotified(s) == RecordsComplete(s) /\ s.unpublished = 0 /\ s.lag = 0

PipelineComplete(s) ==
  RecordsComplete(s) /\ s.unpublished = 0 /\ NotificationsComplete(s) /\ s.lag = 0

\* A milestone keeps the time at which its condition was first seen.
Seen(ms, name, condition, elapsed) ==
  [ms EXCEPT ![name] = IF @ = 0 /\ condition THEN elapsed ELSE @]

FirstSeen(s, elapsed) ==
  LET outboxSeen == Seen(milestones, "outboxPublished",
                         RecordsComplete(s) /\ s.unpublished = 0, elapsed)
  IN Seen(outboxSeen, "notificationsComplete", NotificationsComplete(s), elapsed)

\* Mutant: a lag of zero counts before the outbox was seen empty.
ObservedEarly(s, elapsed) ==
  Seen(FirstSeen(s, elapsed), "kafkaCaughtUp", s.lag = 0, elapsed)

\* Mutant: the lag is compared with what earlier polls saw of the outbox.
ObservedLagFirst(s, elapsed) ==
  Seen(FirstSeen(s, elapsed), "kafkaCaughtUp",
       milestones.outboxPublished > 0 /\ s.lag = 0, elapsed)

ObservePipelineMilestones(s, elapsed) ==
  LET seen == FirstSeen(s, elapsed)
  IN Seen(seen, "kafkaCaughtUp", seen.outboxPublished > 0 /\ s.lag = 0, elapsed)

\* The last answer of a poll: the wait is over or goes on.
Observe ==
  /\ main = "polling" /\ probe.next = Len(Queries)
  /\ LET seen == ObservePipelineMilestones(Sampled, polls + 1)
     IN IF PipelineComplete(Sampled)
        THEN main' = "complete" /\ milestones' = [seen EXCEPT !.endToEnd = polls + 1]
        ELSE main' = "waiting" /\ milestones' = seen
  /\ probe' = NoSnapshot
  /\ UNCHANGED <<vars, driver, baseline, polls>>

\* A query fails.  Without a baseline there is no run; a poll is done again.
SnapshotFailed ==
  /\ main \in {"baseline", "polling"}
  /\ main' = IF main = "baseline" THEN "failed" ELSE "waiting"
  /\ probe' = NoSnapshot
  /\ UNCHANGED <<vars, driver, baseline, milestones, polls>>

Tick ==
  /\ main = "waiting" /\ polls + 1 < MaxPolls
  /\ main' = "polling" /\ polls' = polls + 1
  /\ UNCHANGED <<vars, driver, probe, baseline, milestones>>

TimedOut ==
  /\ main = "waiting"
  /\ main' = "timed out"
  /\ milestones' = [milestones EXCEPT !.endToEnd = polls + 1]
  /\ UNCHANGED <<vars, driver, probe, baseline, polls>>

-----------------------------------------------------------------------------

\* The pipeline goes on meanwhile; other people create records too.
Pipeline ==
  /\ \/ \E e \in Events \ Requests : Accept(e)
     \/ \E e \in Events : Len(topic[LogOf[e]]) < MaxLog /\ Send(e)
     \/ \E events \in SUBSET outbox : Settle(events)
     \/ \E p \in Partitions :
          \/ \E i \in DOMAIN topic[p] : Process(p, i)
          \/ \E n \in 0..Len(topic[p]) : CommitOffset(p, n)
  /\ UNCHANGED <<main, driver, prober>>

Load ==
  \/ Start
  \/ \E w \in Workers : \/ \E r \in Requests : TakeJob(w, r)
                        \/ \E kind \in DOMAIN NoResults : Answered(w, kind)
                        \/ WorkerDone(w)
  \/ CloseJobs
  \/ CloseResults
  \/ \E kind \in DOMAIN NoResults : Collect(kind)
  \/ Collected

Probe == Ask \/ TakeBaseline \/ Observe \/ SnapshotFailed \/ Tick \/ TimedOut

LoadNext == Load \/ Probe \/ Pipeline \/ \E r \in Requests : CreateRecord(r)

LoadSpec == LoadInit /\ [][LoadNext]_loadVars

\* The generator goes on: each request has a timeout, each query one too, and the
\* wait as a whole.  Nothing is assumed of the server or the pipeline.
FairLoadSpec == LoadSpec /\ WF_loadVars(Load \/ Probe)

-----------------------------------------------------------------------------

\* When the collector stops, the result of every request is counted, and every
\* request counted as created is a record: the channel of results is closed neither
\* too early nor before its buffer is empty.
CountsEveryRequest ==
  main \notin {"starting", "baseline", "collecting", "failed"} =>
    counted.created = Expected /\ Requests \subseteq outbox

\* The generator stops, whatever the server and the pipeline do: no worker waits for
\* a job, nor the collector for a result, for ever.
Terminates == <>(main \in {"finished", "complete", "timed out", "failed"})

\* "`kafka lag reached zero` is only recorded after the outbox has first been
\* observed fully published, so an earlier transient zero-lag reading cannot be
\* mistaken for downstream completion" (docs/windows-validation.md): once it is
\* recorded, every event of this load has been processed, although the outbox, the
\* end offsets and the committed offsets were read at different moments.
CaughtUpMeansProcessed ==
  milestones.kafkaCaughtUp > 0 => \A r \in Requests : Processed(r)

\* A complete run has observed each of its stages, none before the stages that it
\* waits for.
StagesInOrder ==
  main = "complete" =>
    /\ 0 < milestones.outboxPublished
    /\ milestones.outboxPublished <= milestones.kafkaCaughtUp
    /\ milestones.kafkaCaughtUp <= milestones.endToEnd
    /\ 0 < milestones.notificationsComplete
    /\ milestones.notificationsComplete <= milestones.endToEnd

\* "all notification projections written" (docs/windows-validation.md): a complete run
\* has as many new notifications as it has requests.  In a workflow that nobody else
\* uses they are those of its own records.  Otherwise the count is of the workflow:
\* for each record of the load that ended as a dead letter, somebody else's record
\* has got a notification since the baseline.
CompleteMeansNotified ==
  main = "complete" =>
    Cardinality(Requests \ notified) + baseline.notifications
      <= Cardinality(outbox \cap Others \cap notified)
=============================================================================
