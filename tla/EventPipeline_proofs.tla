------------------------- MODULE EventPipeline_proofs -------------------------
(***************************************************************************)
(* The pipeline implements EventDelivery, for any number of relays,        *)
(* workers, events and faults; and what the workers keep of their own.     *)
(*                                                                         *)
(* A worker's knowledge is old as well: the message in its hand may be one *)
(* of a partition it has lost, and its commit may take the offset back.    *)
(* It does no harm, because a worker only ever takes a message in hand     *)
(* when everything before that message is processed, and what is processed *)
(* stays so.                                                               *)
(***************************************************************************)
EXTENDS EventPipeline, SequenceTheorems, TLAPS

-----------------------------------------------------------------------------
(* The inductive invariant of the workers. *)

Busy(w) == pc[w] \notin {"fetch", "down"}

\* Every message before the one in a worker's hand is processed, even if the
\* partition has gone to another worker since.
TakenInTurn(w) ==
  Busy(w) =>
    \A i \in 1..(inHand[w].offset - 1) : Processed(topic[inHand[w].partition][i])

\* A worker commits only what is processed.
DoneBeforeCommit(w) == pc[w] = "commit" => Processed(Event(inHand[w]))

\* Of what was fetched from a partition since its last assignment, nothing but the
\* message in its owner's hand is open.  An owner that is down has dropped its
\* message; it reads on from the committed offset when it comes back.
FetchedInTurn(p) ==
  pc[owner[p]] # "down" =>
    \A i \in 1..position[p] :
      \/ Processed(topic[p][i])
      \/ Busy(owner[p]) /\ inHand[owner[p]] = [partition |-> p, offset |-> i]

WInv ==
  /\ TypeOK
  /\ CommittedAreProcessed
  /\ OneNotificationPerEvent
  /\ \A w \in Workers : TakenInTurn(w) /\ DoneBeforeCommit(w)
  /\ \A p \in Partitions : FetchedInTurn(p)

-----------------------------------------------------------------------------
(* The workers. *)

\* What was processed stays processed, and the messages stay where they are.
Forward ==
  /\ \A e \in Events : Processed(e) => Processed(e)'
  /\ \A p \in Partitions :
       /\ topic'[p] \in Seq(Events) /\ Len(topic[p]) <= Len(topic'[p])
       /\ \A i \in 1..Len(topic[p]) : topic'[p][i] = topic[p][i]

\* Before the first event nothing is fetched, committed or notified.
LEMMA WorkersInit == PipelineInit => WInv
<1> SUFFICES ASSUME PipelineInit PROVE WInv
  OBVIOUS
<1>1. \A p \in Partitions : topic[p] = <<>> /\ position[p] = 0 /\ committed[p] = 0
  BY DEF PipelineInit, Init
<1>2. \A w \in Workers : pc[w] = "fetch"
  BY DEF PipelineInit, Init
<1>3. TypeOK
  BY WorkerAssumption, <1>1, <1>2 DEF PipelineInit, Init, TypeOK
<1>4. CommittedAreProcessed /\ OneNotificationPerEvent
  BY <1>1 DEF PipelineInit, Init, CommittedAreProcessed, OneNotificationPerEvent
<1>5. \A w \in Workers : TakenInTurn(w) /\ DoneBeforeCommit(w)
  BY <1>2 DEF TakenInTurn, DoneBeforeCommit, Busy
<1>6. \A p \in Partitions : FetchedInTurn(p)
  BY <1>1 DEF FetchedInTurn
<1> QED
  BY <1>3, <1>4, <1>5, <1>6 DEF WInv

\* Where a worker's message is.
LEMMA MessageInHand ==
  ASSUME TypeOK, NEW w \in Workers, Busy(w)
  PROVE  /\ inHand[w] \in [partition: Partitions, offset: Nat \ {0}]
         /\ inHand[w].partition \in Partitions
         /\ inHand[w].offset \in 1..Len(topic[inHand[w].partition])
         /\ inHand[w] = [partition |-> inHand[w].partition, offset |-> inHand[w].offset]
         /\ Event(inHand[w]) \in Events
<1>1. /\ inHand[w] \in [partition: Partitions, offset: Nat \ {0}]
      /\ inHand[w].offset <= Len(topic[inHand[w].partition])
  BY DEF TypeOK, Busy
<1>2. PICK m \in [partition: Partitions, offset: Nat \ {0}] : m = inHand[w]
  BY <1>1
<1>3. topic[m.partition] \in Seq(Events) /\ m.partition \in Partitions /\ m.offset \in Nat \ {0}
  BY <1>2 DEF TypeOK
<1>4. m.offset \in 1..Len(topic[m.partition])
  BY <1>1, <1>2, <1>3
<1>5. topic[m.partition][m.offset] \in Events
  BY <1>3, <1>4
<1>6. m = [partition |-> m.partition, offset |-> m.offset]
  OBVIOUS
<1> QED
  BY <1>1, <1>2, <1>3, <1>4, <1>5, <1>6 DEF Event

\* An insert adds the event to the notifications, unless it is there.
LEMMA StoreOnce ==
  ASSUME notifications \in Seq(Events), OneNotificationPerEvent,
         NEW e \in Events, StoreNotification(e)
  PROVE  /\ notifications' \in Seq(Events)
         /\ Notified' = Notified \cup {e}
         /\ OneNotificationPerEvent'
<1>1. CASE e \in Notified
  BY <1>1 DEF StoreNotification, Notified, OneNotificationPerEvent
<1>2. CASE e \notin Notified
  <2>1. notifications' = Append(notifications, e)
    BY <1>2 DEF StoreNotification
  <2>2. PICK n \in Nat : n = Len(notifications)
    OBVIOUS
  <2>3. /\ notifications' \in Seq(Events) /\ Len(notifications') = n + 1
        /\ DOMAIN notifications = 1..n /\ DOMAIN notifications' = 1..(n + 1)
        /\ \A i \in 1..n : notifications'[i] = notifications[i]
        /\ notifications'[n + 1] = e
    BY <2>1, <2>2
  <2>4. \A i \in 1..(n + 1) : i \in 1..n \/ i = n + 1
    BY <2>2
  <2>5. \A i \in 1..n : i \in 1..(n + 1) /\ n + 1 \in 1..(n + 1)
    BY <2>2
  <2>6. Notified' = Notified \cup {e}
    BY <2>2, <2>3, <2>4, <2>5 DEF Notified
  <2>7. ASSUME NEW i \in 1..n PROVE notifications[i] # e
    BY <1>2, <2>3, <2>7 DEF Notified
  <2>8. ASSUME NEW i \in 1..(n + 1), NEW j \in 1..(n + 1), notifications'[i] = notifications'[j]
        PROVE  i = j
    BY <2>3, <2>4, <2>7, <2>8 DEF OneNotificationPerEvent
  <2>9. OneNotificationPerEvent'
    BY <2>3, <2>8 DEF OneNotificationPerEvent
  <2> QED
    BY <2>3, <2>6, <2>9
<1> QED
  BY <1>1, <1>2

\* The messages up to a committed offset stay processed.
LEMMA CommittedStay ==
  ASSUME WInv, Forward, UNCHANGED committed
  PROVE  CommittedAreProcessed'
<1> SUFFICES ASSUME NEW p \in Partitions, NEW i \in 1..committed[p]
             PROVE  Processed(topic[p][i])'
  BY DEF CommittedAreProcessed
<1>1. topic[p] \in Seq(Events) /\ committed[p] \in 0..Len(topic[p]) /\ Len(topic[p]) \in Nat
  BY DEF WInv, TypeOK
<1>2. i \in 1..Len(topic[p]) /\ topic[p][i] \in Events
  BY <1>1
<1>3. Processed(topic[p][i]) /\ topic'[p][i] = topic[p][i]
  BY <1>2 DEF WInv, CommittedAreProcessed, Forward
<1>4. PICK e \in Events : e = topic[p][i]
  BY <1>2
<1> QED
  BY <1>3, <1>4 DEF Forward

\* A worker that does not act keeps its message and the order of it.
LEMMA IdleWorker ==
  ASSUME WInv, Forward, NEW v \in Workers, pc'[v] = pc[v], inHand'[v] = inHand[v]
  PROVE  TakenInTurn(v)' /\ DoneBeforeCommit(v)'
<1>1. CASE ~Busy(v)
  BY <1>1 DEF Busy, TakenInTurn, DoneBeforeCommit
<1>2. CASE Busy(v)
  <2>1. PICK p \in Partitions, n \in Nat :
          /\ p = inHand[v].partition /\ n = inHand[v].offset /\ n \in 1..Len(topic[p])
    BY <1>2, MessageInHand DEF WInv
  <2>2. topic[p] \in Seq(Events) /\ Len(topic[p]) \in Nat
    BY DEF WInv, TypeOK
  <2>3. ASSUME NEW i \in 1..n, Processed(topic[p][i])
        PROVE  Processed(topic[p][i])'
    <3>1. i \in 1..Len(topic[p])
      BY <2>1, <2>2
    <3>2. PICK e \in Events : e = topic[p][i]
      BY <2>2, <3>1
    <3> QED
      BY <2>3, <3>1, <3>2 DEF Forward
  <2>4. TakenInTurn(v)'
    <3>1. \A i \in 1..(n - 1) : Processed(topic[p][i]) /\ i \in 1..n
      BY <1>2, <2>1 DEF WInv, TakenInTurn
    <3> QED
      BY <2>1, <2>3, <3>1 DEF TakenInTurn
  <2>5. DoneBeforeCommit(v)'
    <3>1. n \in 1..n /\ inHand'[v] = inHand[v] /\ pc'[v] = pc[v]
      BY <2>1
    <3>2. SUFFICES ASSUME pc[v] = "commit"
                   PROVE  Processed(topic[p][n])'
      BY <2>1, <3>1 DEF DoneBeforeCommit, Event
    <3>3. Processed(topic[p][n])
      BY <2>1, <3>2 DEF WInv, DoneBeforeCommit, Event
    <3> QED
      BY <2>3, <3>1, <3>3
  <2> QED
    BY <2>4, <2>5
<1> QED
  BY <1>1, <1>2

\* A partition whose owner does not act is read on as before.
LEMMA IdleOwner ==
  ASSUME WInv, Forward, NEW p \in Partitions,
         owner'[p] = owner[p], position'[p] = position[p],
         pc'[owner[p]] = pc[owner[p]], inHand'[owner[p]] = inHand[owner[p]]
  PROVE  FetchedInTurn(p)'
<1> SUFFICES ASSUME pc[owner[p]] # "down", NEW i \in 1..position[p]
             PROVE  \/ Processed(topic[p][i])'
                    \/ Busy(owner[p])' /\ inHand[owner[p]] = [partition |-> p, offset |-> i]
  BY DEF FetchedInTurn
<1>1. topic[p] \in Seq(Events) /\ Len(topic[p]) \in Nat /\ position[p] \in 0..Len(topic[p])
  BY DEF WInv, TypeOK
<1>2. i \in 1..Len(topic[p])
  BY <1>1
<1>3. PICK e \in Events : e = topic[p][i] /\ e = topic'[p][i]
  BY <1>1, <1>2 DEF Forward
<1>4. CASE Processed(topic[p][i])
  BY <1>3, <1>4 DEF Forward
<1>5. CASE Busy(owner[p]) /\ inHand[owner[p]] = [partition |-> p, offset |-> i]
  BY <1>5 DEF Busy
<1> QED
  BY <1>4, <1>5 DEF WInv, FetchedInTurn

\* What keeps the invariant when a worker takes a step with its message: it keeps
\* the message, or has done with it, or drops it and goes down.
LEMMA WorkerStep ==
  ASSUME WInv, Forward, UNCHANGED <<topic, position, owner>>, NEW w \in Workers,
         \A v \in Workers \ {w} : pc'[v] = pc[v] /\ inHand'[v] = inHand[v],
         \/ pc'[w] = "down"
         \/ Busy(w) /\ Busy(w)' /\ inHand'[w] = inHand[w] /\ DoneBeforeCommit(w)'
         \/ pc[w] = "commit" /\ pc'[w] = "fetch"
  PROVE  /\ \A v \in Workers : TakenInTurn(v)' /\ DoneBeforeCommit(v)'
         /\ \A p \in Partitions : FetchedInTurn(p)'
<1>1. \A v \in Workers \ {w} : TakenInTurn(v)' /\ DoneBeforeCommit(v)'
  BY IdleWorker
<1>2. ASSUME NEW p \in Partitions, owner[p] # w PROVE FetchedInTurn(p)'
  <2>1. owner[p] \in Workers \ {w}
    BY <1>2 DEF WInv, TypeOK
  <2> QED
    BY <2>1, IdleOwner
<1>3. CASE pc'[w] = "down"
  <2>1. TakenInTurn(w)' /\ DoneBeforeCommit(w)'
    BY <1>3 DEF TakenInTurn, DoneBeforeCommit, Busy
  <2>2. \A p \in Partitions : owner[p] = w => FetchedInTurn(p)'
    BY <1>3 DEF FetchedInTurn
  <2> QED
    BY <1>1, <1>2, <2>1, <2>2
<1>4. CASE Busy(w) /\ Busy(w)' /\ inHand'[w] = inHand[w] /\ DoneBeforeCommit(w)'
  <2>1. PICK q \in Partitions, n \in Nat :
          /\ q = inHand[w].partition /\ n = inHand[w].offset /\ n \in 1..Len(topic[q])
    BY <1>4, MessageInHand DEF WInv
  <2>2. topic[q] \in Seq(Events) /\ Len(topic[q]) \in Nat
    BY DEF WInv, TypeOK
  <2>3. ASSUME NEW i \in 1..(n - 1) PROVE Processed(topic[q][i])'
    <3>1. Processed(topic[q][i]) /\ i \in 1..Len(topic[q])
      BY <1>4, <2>1, <2>2 DEF WInv, TakenInTurn
    <3>2. PICK e \in Events : e = topic[q][i]
      BY <2>2, <3>1
    <3> QED
      BY <3>1, <3>2 DEF Forward
  <2>4. TakenInTurn(w)'
    BY <1>4, <2>1, <2>3 DEF TakenInTurn
  <2>5. ASSUME NEW p \in Partitions, owner[p] = w PROVE FetchedInTurn(p)'
    <3> SUFFICES ASSUME NEW i \in 1..position[p]
                 PROVE  \/ Processed(topic[p][i])'
                        \/ inHand[w] = [partition |-> p, offset |-> i]
      BY <1>4, <2>5 DEF FetchedInTurn
    <3>1. i \in 1..Len(topic[p]) /\ topic[p] \in Seq(Events)
      BY DEF WInv, TypeOK
    <3>2. PICK e \in Events : e = topic[p][i]
      BY <3>1
    <3>3. Processed(e) \/ inHand[w] = [partition |-> p, offset |-> i]
      BY <1>4, <2>5, <3>2 DEF WInv, FetchedInTurn, Busy
    <3> QED
      BY <3>2, <3>3 DEF Forward
  <2> QED
    BY <1>1, <1>2, <1>4, <2>4, <2>5
<1>5. CASE pc[w] = "commit" /\ pc'[w] = "fetch"
  <2>1. TakenInTurn(w)' /\ DoneBeforeCommit(w)'
    BY <1>5 DEF TakenInTurn, DoneBeforeCommit, Busy
  <2>2. Processed(Event(inHand[w]))
    BY <1>5 DEF WInv, DoneBeforeCommit
  <2>3. ASSUME NEW p \in Partitions, owner[p] = w PROVE FetchedInTurn(p)'
    <3> SUFFICES ASSUME NEW i \in 1..position[p]
                 PROVE  Processed(topic[p][i])'
      BY DEF FetchedInTurn
    <3>1. i \in 1..Len(topic[p]) /\ topic[p] \in Seq(Events)
      BY DEF WInv, TypeOK
    <3>2. PICK e \in Events : e = topic[p][i]
      BY <3>1
    <3>3. Processed(e) \/ inHand[w] = [partition |-> p, offset |-> i]
      BY <1>5, <2>3, <3>2 DEF WInv, FetchedInTurn
    <3>4. inHand[w] = [partition |-> p, offset |-> i] => e = Event(inHand[w])
      BY <3>2 DEF Event
    <3> QED
      BY <2>2, <3>2, <3>3, <3>4 DEF Forward
  <2> QED
    BY <1>1, <1>2, <2>1, <2>3
<1> QED
  BY <1>3, <1>4, <1>5

\* A step that spends a fault had one left, and leaves a number of them.
LEMMA SpareFaults ==
  ASSUME TypeOK, Fault
  PROVE  faults' \in 0..MaxFaults
BY WorkerAssumption DEF TypeOK, Fault

\* The types of what a worker changes on its own.
LEMMA WorkerTypes ==
  ASSUME TypeOK, UNCHANGED <<topic, position, owner>>, NEW w \in Workers,
         \A p \in Partitions : committed'[p] \in 0..Len(topic[p]), DOMAIN committed' = Partitions,
         notifications' \in Seq(Events), deadLetters' \subseteq Events,
         NEW step \in {"handle", "deadLetter", "commit", "fetch", "down"},
         pc' = [pc EXCEPT ![w] = step],
         \/ step \in {"fetch", "down"} /\ inHand' = [inHand EXCEPT ![w] = NoMessage]
         \/ step \notin {"fetch", "down"} /\ Busy(w) /\ UNCHANGED inHand,
         attempt' \in [Workers -> 0..(MaxAttempts - 1)], faults' \in 0..MaxFaults
  PROVE  TypeOK'
<1>1. pc' \in [Workers -> {"fetch", "handle", "deadLetter", "commit", "down"}]
  BY DEF TypeOK
<1>2. DOMAIN inHand' = Workers
  BY DEF TypeOK
<1>3. ASSUME NEW v \in Workers
      PROVE  IF pc'[v] \in {"fetch", "down"} THEN inHand'[v] = NoMessage
             ELSE /\ inHand'[v] \in [partition: Partitions, offset: Nat \ {0}]
                  /\ inHand'[v].offset <= Len(topic'[inHand'[v].partition])
  <2>1. CASE v = w
    BY <2>1, MessageInHand DEF TypeOK, Busy
  <2>2. CASE v # w
    BY <2>2 DEF TypeOK
  <2> QED
    BY <2>1, <2>2
<1> QED
  BY <1>1, <1>2, <1>3 DEF TypeOK

\* A step with the message in hand: it may become a notification or a dead letter,
\* and is kept or, when the process ends, dropped.
LEMMA MessageStep ==
  ASSUME WInv, UNCHANGED log, NEW w \in Workers, Busy(w),
         notifications' = notifications \/ StoreNotification(Event(inHand[w])),
         deadLetters' \in {deadLetters, deadLetters \cup {Event(inHand[w])}},
         NEW step \in {"handle", "deadLetter", "commit", "down"},
         pc' = [pc EXCEPT ![w] = step],
         inHand' = IF step = "down" THEN [inHand EXCEPT ![w] = NoMessage] ELSE inHand,
         step = "commit" =>
           Event(inHand[w]) \in deadLetters' \/ StoreNotification(Event(inHand[w])),
         attempt' \in [Workers -> 0..(MaxAttempts - 1)], faults' \in 0..MaxFaults
  PROVE  WInv'
<1>1. PICK e \in Events : e = Event(inHand[w])
  BY MessageInHand DEF WInv
<1>2. /\ notifications' \in Seq(Events) /\ OneNotificationPerEvent'
      /\ Notified \subseteq Notified'
      /\ StoreNotification(e) => e \in Notified'
  <2>1. notifications \in Seq(Events) /\ OneNotificationPerEvent
    BY DEF WInv, TypeOK
  <2>2. CASE StoreNotification(e)
    BY <2>1, <2>2, StoreOnce
  <2>3. CASE notifications' = notifications /\ ~StoreNotification(e)
    BY <2>1, <2>3 DEF OneNotificationPerEvent, Notified
  <2> QED
    BY <1>1, <2>2, <2>3
<1>3. deadLetters' \subseteq Events /\ deadLetters \subseteq deadLetters'
  BY <1>1 DEF WInv, TypeOK
<1>4. Forward
  <2>1. \A x : Processed(x) => Processed(x)'
    BY <1>2, <1>3 DEF Processed
  <2> QED
    BY <2>1 DEF Forward, WInv, TypeOK, log
<1>5. CommittedAreProcessed'
  BY <1>4, CommittedStay DEF log
<1>6. TypeOK'
  <2>1. \/ step \in {"fetch", "down"} /\ inHand' = [inHand EXCEPT ![w] = NoMessage]
        \/ step \notin {"fetch", "down"} /\ Busy(w) /\ UNCHANGED inHand
    OBVIOUS
  <2>2. /\ TypeOK /\ UNCHANGED <<topic, position, owner>>
        /\ \A p \in Partitions : committed'[p] \in 0..Len(topic[p])
        /\ DOMAIN committed' = Partitions
    BY DEF WInv, TypeOK, log
  <2> QED
    BY <1>2, <1>3, <2>1, <2>2, WorkerTypes
<1>7. pc'[w] = step /\ \A v \in Workers \ {w} : pc'[v] = pc[v] /\ inHand'[v] = inHand[v]
  BY DEF WInv, TypeOK
<1>8. CASE step = "down"
  BY <1>2, <1>4, <1>5, <1>6, <1>7, <1>8, WorkerStep DEF WInv, log
<1>9. CASE step # "down"
  <2>1. Busy(w)' /\ inHand'[w] = inHand[w]
    BY <1>7, <1>9 DEF Busy
  <2>2. DoneBeforeCommit(w)'
    <3>1. step = "commit" => e \in Notified' \/ e \in deadLetters'
      BY <1>1, <1>2
    <3>2. Event(inHand[w])' = e
      BY <1>1, <1>9 DEF Event, log
    <3> QED
      BY <1>7, <3>1, <3>2 DEF DoneBeforeCommit, Processed
  <2> QED
    BY <1>2, <1>4, <1>5, <1>6, <1>7, <2>1, <2>2, WorkerStep DEF WInv, log
<1> QED
  BY <1>8, <1>9

\* A message is taken in hand behind processed ones: the worker has nothing else in
\* hand, and what it fetched before is done.
LEMMA FetchKeeps ==
  ASSUME WInv, NEW w \in Workers, NEW p \in Partitions, FetchMessage(w, p)
  PROVE  WInv'
<1> DEFINE m == [partition |-> p, offset |-> position[p] + 1]
<1>1. /\ pc[w] = "fetch" /\ owner[p] = w
      /\ position[p] \in Nat /\ position[p] < Len(topic[p]) /\ Len(topic[p]) \in Nat
      /\ UNCHANGED <<topic, committed, owner, notifications, deadLetters, attempt, faults>>
      /\ inHand' = [inHand EXCEPT ![w] = m] /\ position' = [position EXCEPT ![p] = @ + 1]
  BY DEF FetchMessage, WInv, TypeOK
<1>2. /\ inHand'[w] = m /\ pc'[w] \in {"deadLetter", "handle"}
      /\ pc' \in [Workers -> {"fetch", "handle", "deadLetter", "commit", "down"}]
      /\ DOMAIN inHand' = Workers /\ DOMAIN position' = Partitions
      /\ \A v \in Workers \ {w} : pc'[v] = pc[v] /\ inHand'[v] = inHand[v]
      /\ position'[p] = position[p] + 1
      /\ \A q \in Partitions \ {p} : position'[q] = position[q]
  BY <1>1 DEF FetchMessage, Goto, WInv, TypeOK
<1>3. Forward
  BY <1>1 DEF Forward, Processed, Notified, WInv, TypeOK
<1>4. TypeOK'
  <2>1. m \in [partition: Partitions, offset: Nat \ {0}] /\ m.offset <= Len(topic[m.partition])
    BY <1>1
  <2> HIDE DEF m
  <2>2. \A v \in Workers :
          IF pc'[v] \in {"fetch", "down"} THEN inHand'[v] = NoMessage
          ELSE /\ inHand'[v] \in [partition: Partitions, offset: Nat \ {0}]
               /\ inHand'[v].offset <= Len(topic'[inHand'[v].partition])
    BY <1>1, <1>2, <2>1 DEF WInv, TypeOK
  <2>3. \A q \in Partitions : position'[q] \in 0..Len(topic'[q])
    BY <1>1, <1>2 DEF WInv, TypeOK
  <2> QED
    BY <1>1, <1>2, <2>2, <2>3 DEF WInv, TypeOK
<1>5. CommittedAreProcessed' /\ OneNotificationPerEvent'
  BY <1>1, <1>3, CommittedStay DEF WInv, OneNotificationPerEvent
<1>6. \A i \in 1..position[p] : Processed(topic[p][i])'
  <2>1. \A i \in 1..position[p] : Processed(topic[p][i])
    BY <1>1 DEF WInv, FetchedInTurn, Busy
  <2> QED
    BY <1>1, <2>1 DEF Processed, Notified
<1>7. TakenInTurn(w)' /\ DoneBeforeCommit(w)'
  <2>1. inHand'[w].partition = p /\ inHand'[w].offset - 1 = position[p]
    BY <1>1, <1>2
  <2> QED
    BY <1>2, <1>6, <2>1 DEF TakenInTurn, DoneBeforeCommit
<1>8. \A v \in Workers \ {w} : TakenInTurn(v)' /\ DoneBeforeCommit(v)'
  BY <1>2, <1>3, IdleWorker
<1>9. ASSUME NEW q \in Partitions PROVE FetchedInTurn(q)'
  <2>1. CASE q = p
    <3>1. Busy(w)'
      BY <1>2 DEF Busy
    <3>2. \A i \in 1..position'[p] : i \in 1..position[p] \/ i = position[p] + 1
      BY <1>1, <1>2
    <3> QED
      BY <1>1, <1>2, <1>6, <2>1, <3>1, <3>2 DEF FetchedInTurn
  <2>2. CASE q # p /\ owner[q] = w
    <3>1. \A i \in 1..position[q] : Processed(topic[q][i])
      BY <1>1, <2>2 DEF WInv, FetchedInTurn, Busy
    <3> QED
      BY <1>1, <1>2, <2>2, <3>1 DEF FetchedInTurn, Processed, Notified
  <2>3. CASE q # p /\ owner[q] # w
    <3>1. owner[q] \in Workers \ {w}
      BY <2>3 DEF WInv, TypeOK
    <3> QED
      BY <1>1, <1>2, <1>3, <2>3, <3>1, IdleOwner
  <2> QED
    BY <2>1, <2>2, <2>3
<1> QED
  BY <1>4, <1>5, <1>7, <1>8, <1>9 DEF WInv

\* An attempt, a dead letter, or the end of the process in the middle of them.
LEMMA HandlingKeeps ==
  ASSUME WInv, NEW w \in Workers,
         \/ Handle(w) \/ HandleError(w) \/ StopWhileHandling(w)
         \/ PublishDeadLetter(w) \/ PublishDeadLetterError(w)
  PROVE  WInv'
<1>1. TypeOK /\ attempt \in [Workers -> 0..(MaxAttempts - 1)] /\ faults \in 0..MaxFaults
  BY DEF WInv, TypeOK
<1>2. 0 \in 0..(MaxAttempts - 1) /\ MaxAttempts \in Nat \ {0}
  BY WorkerAssumption
<1>3. CASE Handle(w)
  <2>1. Busy(w) /\ UNCHANGED log
    BY <1>3 DEF Handle, Busy
  <2>2. attempt' \in [Workers -> 0..(MaxAttempts - 1)] /\ faults' \in 0..MaxFaults
    BY <1>1, <1>2, <1>3 DEF Handle
  <2>3. /\ StoreNotification(Event(inHand[w])) /\ deadLetters' = deadLetters
        /\ pc' = [pc EXCEPT ![w] = "commit"] /\ inHand' = inHand
    BY <1>3 DEF Handle, Goto
  <2> QED
    BY <2>1, <2>2, <2>3, MessageStep
<1>4. CASE HandleError(w)
  <2>1. Busy(w) /\ UNCHANGED log
    BY <1>4 DEF HandleError, Busy
  <2>2. PICK step : /\ step \in {"handle", "deadLetter"}
                    /\ pc' = [pc EXCEPT ![w] = step]
    BY <1>4 DEF HandleError, Goto
  <2>3. attempt' \in [Workers -> 0..(MaxAttempts - 1)] /\ faults' \in 0..MaxFaults
    <3>1. PICK n : n = IF attempt[w] + 1 >= MaxAttempts THEN 0 ELSE attempt[w] + 1
      OBVIOUS
    <3>2. n \in 0..(MaxAttempts - 1)
      BY <1>1, <1>2, <3>1
    <3>3. attempt' = [attempt EXCEPT ![w] = n] /\ faults' = faults
      BY <1>4, <3>1 DEF HandleError
    <3> QED
      BY <1>1, <3>2, <3>3
  <2>4. /\ notifications' = notifications \/ StoreNotification(Event(inHand[w]))
        /\ deadLetters' = deadLetters /\ inHand' = inHand
    BY <1>4 DEF HandleError
  <2> QED
    BY <2>1, <2>2, <2>3, <2>4, MessageStep
<1>5. CASE StopWhileHandling(w) \/ PublishDeadLetterError(w)
  <2>1. Busy(w) /\ UNCHANGED log
    BY <1>5 DEF StopWhileHandling, PublishDeadLetterError, Busy
  <2>2. attempt' \in [Workers -> 0..(MaxAttempts - 1)] /\ faults' \in 0..MaxFaults
    BY <1>1, <1>2, <1>5, SpareFaults DEF StopWhileHandling, PublishDeadLetterError, Exit
  <2>3. /\ notifications' = notifications
        /\ deadLetters' \in {deadLetters, deadLetters \cup {Event(inHand[w])}}
        /\ pc' = [pc EXCEPT ![w] = "down"] /\ inHand' = [inHand EXCEPT ![w] = NoMessage]
    BY <1>5 DEF StopWhileHandling, PublishDeadLetterError, Exit, Goto
  <2> QED
    BY <2>1, <2>2, <2>3, MessageStep
<1>6. CASE PublishDeadLetter(w)
  <2>1. Busy(w) /\ UNCHANGED log
    BY <1>6 DEF PublishDeadLetter, Busy
  <2>2. attempt' \in [Workers -> 0..(MaxAttempts - 1)] /\ faults' \in 0..MaxFaults
    BY <1>1, <1>6 DEF PublishDeadLetter
  <2>3. /\ notifications' = notifications
        /\ deadLetters' = deadLetters \cup {Event(inHand[w])}
        /\ pc' = [pc EXCEPT ![w] = "commit"] /\ inHand' = inHand
    BY <1>6 DEF PublishDeadLetter, Goto
  <2> QED
    BY <2>1, <2>2, <2>3, MessageStep
<1> QED
  BY <1>3, <1>4, <1>5, <1>6

\* Steps that process nothing leave everything processed that was.
LEMMA NothingProcessed ==
  ASSUME TypeOK, UNCHANGED <<topic, notifications, deadLetters>>
  PROVE  Forward
BY DEF Forward, Processed, Notified, TypeOK

\* A commit, perhaps of a worker that has lost the partition, is of processed
\* messages only.
LEMMA CommitKeeps ==
  ASSUME WInv, NEW w \in Workers, CommitMessage(w) \/ CommitError(w)
  PROVE  WInv'
<1>1. /\ TypeOK /\ pc[w] = "commit" /\ Busy(w)
      /\ UNCHANGED <<topic, position, owner, notifications, deadLetters>>
  BY DEF WInv, CommitMessage, CommitError, Busy
<1>2. PICK step \in {"fetch", "down"} :
        /\ pc' = [pc EXCEPT ![w] = step] /\ inHand' = [inHand EXCEPT ![w] = NoMessage]
  BY DEF CommitMessage, CommitError, Exit, Goto
<1>3. attempt' \in [Workers -> 0..(MaxAttempts - 1)] /\ faults' \in 0..MaxFaults
  <2>1. /\ attempt \in [Workers -> 0..(MaxAttempts - 1)] /\ 0 \in 0..(MaxAttempts - 1)
        /\ faults \in 0..MaxFaults
    BY <1>1, WorkerAssumption DEF TypeOK
  <2>2. CASE CommitMessage(w)
    BY <2>1, <2>2 DEF CommitMessage
  <2>3. CASE CommitError(w)
    BY <1>1, <2>1, <2>3, SpareFaults DEF CommitError, Exit
  <2> QED
    BY <2>2, <2>3
<1>4. PICK q \in Partitions, n \in Nat :
        q = inHand[w].partition /\ n = inHand[w].offset /\ n \in 1..Len(topic[q])
  BY <1>1, MessageInHand
<1>5. committed' = committed \/ committed' = [committed EXCEPT ![q] = n]
  BY <1>4 DEF CommitMessage, CommitError, CommittedMessage
<1>6. DOMAIN committed' = Partitions /\ \A p \in Partitions : committed'[p] \in 0..Len(topic[p])
  <2>1. n \in 0..Len(topic[q])
    BY <1>4
  <2> QED
    BY <1>1, <1>5, <2>1 DEF TypeOK
<1>7. Forward
  BY <1>1, NothingProcessed
<1>8. CommittedAreProcessed'
  <2>1. ASSUME NEW i \in 1..n PROVE Processed(topic[q][i])
    <3>1. i \in 1..(n - 1) \/ i = n
      BY <1>4
    <3>2. \A j \in 1..(n - 1) : Processed(topic[q][j])
      BY <1>1, <1>4 DEF WInv, TakenInTurn
    <3>3. Processed(topic[q][n])
      BY <1>1, <1>4 DEF WInv, DoneBeforeCommit, Event
    <3> QED
      BY <3>1, <3>2, <3>3
  <2>2. \A p \in Partitions : \A i \in 1..committed'[p] : Processed(topic[p][i])
    BY <1>1, <1>4, <1>5, <2>1 DEF WInv, CommittedAreProcessed, TypeOK
  <2> QED
    BY <1>1, <2>2 DEF CommittedAreProcessed, Processed, Notified
<1>9. TypeOK'
  BY <1>1, <1>2, <1>3, <1>6, WorkerTypes DEF TypeOK
<1>10. pc'[w] = step /\ \A v \in Workers \ {w} : pc'[v] = pc[v] /\ inHand'[v] = inHand[v]
  BY <1>1, <1>2 DEF TypeOK
<1>11. /\ \A v \in Workers : TakenInTurn(v)' /\ DoneBeforeCommit(v)'
       /\ \A p \in Partitions : FetchedInTurn(p)'
  BY <1>1, <1>2, <1>7, <1>10, WorkerStep
<1>12. OneNotificationPerEvent'
  BY <1>1 DEF WInv, OneNotificationPerEvent
<1> QED
  BY <1>8, <1>9, <1>11, <1>12 DEF WInv

\* A worker that ends loses what it had in hand, and nothing else.
LEMMA CrashKeeps ==
  ASSUME WInv, NEW w \in Workers, Crash(w)
  PROVE  WInv'
<1>1. /\ TypeOK
      /\ UNCHANGED <<topic, committed, position, owner, notifications, deadLetters>>
      /\ pc' = [pc EXCEPT ![w] = "down"] /\ inHand' = [inHand EXCEPT ![w] = NoMessage]
      /\ attempt' \in [Workers -> 0..(MaxAttempts - 1)] /\ faults' \in 0..MaxFaults
  <2>1. /\ TypeOK /\ attempt \in [Workers -> 0..(MaxAttempts - 1)]
        /\ 0 \in 0..(MaxAttempts - 1)
    BY WorkerAssumption DEF WInv, TypeOK
  <2> QED
    BY <2>1, SpareFaults DEF Crash, Exit, Goto, log
<1>2. Forward
  BY <1>1, NothingProcessed
<1>3. CommittedAreProcessed' /\ OneNotificationPerEvent'
  BY <1>1, <1>2, CommittedStay DEF WInv, OneNotificationPerEvent
<1>4. TypeOK'
  BY <1>1, WorkerTypes DEF TypeOK
<1>5. pc'[w] = "down" /\ \A v \in Workers \ {w} : pc'[v] = pc[v] /\ inHand'[v] = inHand[v]
  BY <1>1 DEF TypeOK
<1> QED
  BY <1>1, <1>2, <1>3, <1>4, <1>5, WorkerStep DEF WInv

\* A new generation reads on from the committed offsets, behind processed messages.
LEMMA ReassignedKeeps ==
  ASSUME WInv, NEW members \in SUBSET Workers, Reassigned(members),
         UNCHANGED <<topic, committed, notifications, deadLetters, inHand, attempt>>,
         \A w \in Workers : pc'[w] = pc[w] \/ (pc[w] = "down" /\ pc'[w] = "fetch"),
         DOMAIN pc' = Workers, pc' \in [Workers -> {"fetch", "handle", "deadLetter", "commit", "down"}],
         faults' \in 0..MaxFaults
  PROVE  WInv'
<1>1. owner' \in [Partitions -> Workers] /\ position' = committed
  BY DEF Reassigned
<1>2. Forward
  BY NothingProcessed DEF WInv
<1>3. TypeOK'
  BY <1>1 DEF WInv, TypeOK
<1>4. CommittedAreProcessed' /\ OneNotificationPerEvent'
  BY <1>2, CommittedStay DEF WInv, OneNotificationPerEvent
<1>5. ASSUME NEW w \in Workers PROVE TakenInTurn(w)' /\ DoneBeforeCommit(w)'
  <2>1. CASE pc'[w] = pc[w]
    BY <1>2, <2>1, IdleWorker
  <2>2. CASE pc'[w] = "fetch"
    BY <2>2 DEF TakenInTurn, DoneBeforeCommit, Busy
  <2> QED
    BY <2>1, <2>2
<1>6. \A p \in Partitions : FetchedInTurn(p)'
  BY <1>1, <1>4 DEF FetchedInTurn, CommittedAreProcessed
<1> QED
  BY <1>3, <1>4, <1>5, <1>6 DEF WInv

\* The steps of the workers keep what is known of them.
LEMMA ConsumeKeeps ==
  ASSUME WInv, Consume
  PROVE  WInv'
<1>1. TypeOK /\ Members \subseteq Workers
  BY DEF WInv, Members
<1>2. CASE Rebalance
  BY <1>1, <1>2, ReassignedKeeps DEF Rebalance, TypeOK
<1>3. CASE SpareRebalance
  BY <1>1, <1>3, ReassignedKeeps, SpareFaults DEF SpareRebalance, TypeOK
<1>4. ASSUME NEW w \in Workers, Restart(w) PROVE WInv'
  <2>1. Members \cup {w} \in SUBSET Workers
    BY <1>1
  <2>2. /\ Reassigned(Members \cup {w})
        /\ UNCHANGED <<topic, committed, notifications, deadLetters, inHand, attempt>>
        /\ faults' \in 0..MaxFaults
    BY <1>1, <1>4 DEF Restart, TypeOK
  <2>3. /\ \A v \in Workers : pc'[v] = pc[v] \/ (pc[v] = "down" /\ pc'[v] = "fetch")
        /\ pc' \in [Workers -> {"fetch", "handle", "deadLetter", "commit", "down"}]
        /\ DOMAIN pc' = Workers
    BY <1>1, <1>4 DEF Restart, Goto, TypeOK
  <2> QED
    BY <2>1, <2>2, <2>3, ReassignedKeeps
<1>5. ASSUME NEW w \in Workers, Run(w) PROVE WInv'
  BY <1>4, <1>5, FetchKeeps, HandlingKeeps, CommitKeeps DEF Run
<1>6. ASSUME NEW w \in Workers,
             StopWhileHandling(w) \/ PublishDeadLetterError(w) \/ CommitError(w) \/ Crash(w)
      PROVE  WInv'
  BY <1>6, HandlingKeeps, CommitKeeps, CrashKeeps
<1> QED
  BY <1>2, <1>3, <1>5, <1>6 DEF Consume

\* To the workers, a relay's step is a topic that grows.
LEMMA TopicKeeps ==
  ASSUME WInv, UNCHANGED workerVars, topic' \in [Partitions -> Seq(Events)],
         \A p \in Partitions :
           /\ Len(topic[p]) <= Len(topic'[p])
           /\ \A i \in 1..Len(topic[p]) : topic'[p][i] = topic[p][i]
  PROVE  WInv'
<1>1. UNCHANGED <<committed, position, owner, notifications, deadLetters, pc, inHand, attempt, faults>>
  BY DEF workerVars
<1>2. Forward
  <2>1. \A p \in Partitions : topic'[p] \in Seq(Events)
    OBVIOUS
  <2> QED
    BY <1>1, <2>1 DEF Forward, Processed, Notified
<1>3. TypeOK'
  <2>1. ASSUME NEW p \in Partitions, NEW n \in Nat, n <= Len(topic[p])
        PROVE  n <= Len(topic'[p]) /\ n \in 0..Len(topic'[p])
    <3>1. topic[p] \in Seq(Events) /\ topic'[p] \in Seq(Events)
      BY DEF WInv, TypeOK
    <3>2. PICK k \in Nat, m \in Nat : k = Len(topic[p]) /\ m = Len(topic'[p])
      BY <3>1
    <3> QED
      BY <2>1, <3>2
  <2>2. \A p \in Partitions : committed'[p] \in 0..Len(topic'[p]) /\ position'[p] \in 0..Len(topic'[p])
    BY <1>1, <2>1 DEF WInv, TypeOK
  <2>3. \A w \in Workers :
          IF pc'[w] \in {"fetch", "down"} THEN inHand'[w] = NoMessage
          ELSE /\ inHand'[w] \in [partition: Partitions, offset: Nat \ {0}]
               /\ inHand'[w].offset <= Len(topic'[inHand'[w].partition])
    BY <1>1, <2>1 DEF WInv, TypeOK
  <2> QED
    BY <1>1, <2>2, <2>3 DEF WInv, TypeOK
<1>4. CommittedAreProcessed' /\ OneNotificationPerEvent'
  BY <1>1, <1>2, CommittedStay DEF WInv, OneNotificationPerEvent
<1>5. \A w \in Workers : TakenInTurn(w)' /\ DoneBeforeCommit(w)'
  BY <1>1, <1>2, IdleWorker
<1>6. \A p \in Partitions : FetchedInTurn(p)'
  BY <1>1, <1>2, IdleOwner DEF WInv
<1> QED
  BY <1>3, <1>4, <1>5, <1>6 DEF WInv

-----------------------------------------------------------------------------
(* The relays, as OutboxRelay_proofs knows them. *)

RelayProofs == INSTANCE OutboxRelay_proofs WITH
  committed <- outbox, pc <- relayPc, faults <- relayFaults,
  MaxFaults <- MaxRelayFaults

\* The relays of the pipeline are those of OutboxRelay_proofs.
LEMMA SameRelays ==
  /\ Relay!Init <=> RelayProofs!Init
  /\ Relay!Next <=> RelayProofs!Next
<1>1. \A list : /\ Relay!Call(list) = RelayProofs!Call(list)
                /\ Relay!AfterCall(list) = RelayProofs!AfterCall(list)
  BY DEF Relay!Call, RelayProofs!Call, Relay!AfterCall, RelayProofs!AfterCall
<1>2. \A e : Relay!Appended(e) <=> RelayProofs!Appended(e)
  BY DEF Relay!Appended, RelayProofs!Appended, Relay!Log, RelayProofs!Log
<1>3. \A list : Relay!Marks(list) = RelayProofs!Marks(list)
  BY <1>1 DEF Relay!Marks, RelayProofs!Marks, Relay!ToSet, RelayProofs!ToSet
<1>4. \A w, list : Relay!Start(w, list) <=> RelayProofs!Start(w, list)
  BY <1>1 DEF Relay!Start, RelayProofs!Start, Relay!ToSet, RelayProofs!ToSet
<1>5. Relay!Pending = RelayProofs!Pending
  <2>0. \A S : Relay!Cardinality(S) = RelayProofs!Cardinality(S)
    BY DEF Relay!Cardinality, RelayProofs!Cardinality
  <2>1. \A S : Relay!SetToSeqs(S) = RelayProofs!SetToSeqs(S)
    BY <2>0 DEF Relay!SetToSeqs, RelayProofs!SetToSeqs
  <2>2. Relay!Sorted(outbox \ published) = RelayProofs!Sorted(outbox \ published)
    BY <2>1 DEF Relay!Sorted, RelayProofs!Sorted
  <2> QED
    BY <2>2 DEF Relay!Pending, RelayProofs!Pending, Relay!Limited, RelayProofs!Limited
<1>6. \A marked : Relay!Marked(marked) <=> RelayProofs!Marked(marked)
  BY DEF Relay!Marked, RelayProofs!Marked
<1>7. Relay!Fault <=> RelayProofs!Fault
  BY DEF Relay!Fault, RelayProofs!Fault
<1>8. \A e : Relay!Commit(e) <=> RelayProofs!Commit(e)
  BY DEF Relay!Commit, RelayProofs!Commit
<1>9. \A w : Relay!List(w) <=> RelayProofs!List(w)
  BY <1>4, <1>5 DEF Relay!List, RelayProofs!List
<1>10. \A w : Relay!Write(w) <=> RelayProofs!Write(w)
  BY <1>2 DEF Relay!Write, RelayProofs!Write
<1>11. \A w : Relay!WriteAgain(w) <=> RelayProofs!WriteAgain(w)
  BY <1>1, <1>7 DEF Relay!WriteAgain, RelayProofs!WriteAgain
<1>12. \A w : Relay!WriteError(w) <=> RelayProofs!WriteError(w)
  BY <1>2, <1>7 DEF Relay!WriteError, RelayProofs!WriteError
<1>13. \A w : Relay!Written(w) <=> RelayProofs!Written(w)
  BY <1>1 DEF Relay!Written, RelayProofs!Written
<1>14. \A w : Relay!Mark(w) <=> RelayProofs!Mark(w)
  BY <1>1, <1>3, <1>4, <1>6 DEF Relay!Mark, RelayProofs!Mark
<1>15. \A w : Relay!MarkError(w) <=> RelayProofs!MarkError(w)
  BY <1>1, <1>3, <1>4, <1>6, <1>7 DEF Relay!MarkError, RelayProofs!MarkError
<1>16. \A w : Relay!MarkFailed(w) <=> RelayProofs!MarkFailed(w)
  BY <1>1, <1>4, <1>7 DEF Relay!MarkFailed, RelayProofs!MarkFailed
<1>17. \A w : /\ Relay!Crash(w) <=> RelayProofs!Crash(w)
              /\ Relay!Restart(w) <=> RelayProofs!Restart(w)
  BY <1>7 DEF Relay!Crash, RelayProofs!Crash, Relay!Restart, RelayProofs!Restart
<1>18. Relay!Next <=> RelayProofs!Next
  BY <1>8, <1>9, <1>10, <1>11, <1>12, <1>13, <1>14, <1>15, <1>16, <1>17
  DEF Relay!Next, RelayProofs!Next, Relay!Run, RelayProofs!Run
<1>19. Relay!Init <=> RelayProofs!Init
  BY DEF Relay!Init, RelayProofs!Init
<1> QED
  BY <1>18, <1>19

\* The assumptions of the relays hold of the pipeline's constants.
LEMMA RelayAssumed ==
  /\ Events \subseteq Nat
  /\ \A e \in Events : /\ RecordOf[e] \in DOMAIN PartitionOf
                       /\ PartitionOf[RecordOf[e]] \in Partitions
  /\ CreatedAt \in [Events -> Nat]
  /\ BatchSize \in Nat \ {0}
  /\ Settings \subseteq [batched: BOOLEAN, rejected: SUBSET Events, lossy: BOOLEAN]
  /\ MaxRelayFaults \in Nat
<1>1. \A e \in Events : PartitionOf[RecordOf[e]] = LogOf[e]
  BY PipelineAssumption DEF Relay!Log
<1> QED
  BY <1>1, PipelineAssumption, WorkerAssumption

PInv == RelayProofs!IInv /\ WInv

\* Whether the pipeline is an ordered system is settled with its setting.
LEMMA OrderedForGood ==
  /\ Relay!Lossless \in BOOLEAN
  /\ Relay!Lossless <=> RelayProofs!Lossless
  /\ UNCHANGED setting => UNCHANGED Relay!Lossless
BY DEF Relay!Lossless, RelayProofs!Lossless

\* What a step of the pipeline is to EventDelivery's outbox and topic when it is a
\* relay's.
LEMMA RelayStep ==
  ASSUME PInv, Relay!Next, UNCHANGED workerVars
  PROVE  /\ RelayProofs!IInv'
         /\ [Delivery!Next]_(Delivery!vars)
         /\ topic' \in [Partitions -> Seq(Events)]
         /\ \A p \in Partitions :
              /\ Len(topic[p]) <= Len(topic'[p])
              /\ \A i \in 1..Len(topic[p]) : topic'[p][i] = topic[p][i]
<1>1. [RelayProofs!Next]_(RelayProofs!vars)
  BY SameRelays
<1>2. RelayProofs!IInv'
  BY <1>1, RelayAssumed, RelayProofs!NextKeeps DEF PInv
<1>3. UNCHANGED setting => UNCHANGED Relay!Lossless
  BY OrderedForGood
<1>4. /\ outbox \subseteq Events /\ topic \in [Partitions -> Seq(Events)]
      /\ \A e \in Events : RelayProofs!Log(e) = LogOf[e] /\ LogOf[e] \in Partitions
  BY WorkerAssumption, PipelineAssumption
  DEF PInv, WInv, TypeOK, RelayProofs!IInv, RelayProofs!TypeOK, RelayProofs!Log, Relay!Log
<1>5. UNCHANGED <<committed, notifications, deadLetters, Notified>>
  BY DEF workerVars, Notified
<1>6. CASE \E e \in Events : /\ e \notin outbox
                             /\ outbox' = outbox \cup {e}
                             /\ UNCHANGED <<setting, published, topic>>
  <2>1. Delivery!Next
    BY <1>3, <1>5, <1>6 DEF Delivery!Next, Delivery!Accept
  <2> QED
    BY <1>2, <1>4, <1>6, <2>1
<1>7. CASE \E e \in outbox :
             /\ RelayProofs!Lossless =>
                  \A d \in Events : RelayProofs!Precedes(d, e) => RelayProofs!InTopic(d)
             /\ RelayProofs!Appended(e)
             /\ UNCHANGED <<setting, outbox, published>>
  <2>1. PICK e \in outbox :
             /\ RelayProofs!Lossless =>
                  \A d \in Events : RelayProofs!Precedes(d, e) => RelayProofs!InTopic(d)
             /\ RelayProofs!Appended(e)
             /\ UNCHANGED <<setting, outbox, published>>
    BY <1>7
  <2>2. PICK log1 \in Partitions : log1 = LogOf[e]
    BY <1>4
  <2>3. topic' = [topic EXCEPT ![log1] = Append(@, e)]
    BY <1>4, <2>1, <2>2 DEF RelayProofs!Appended
  <2>4. ASSUME Relay!Lossless, NEW d \in Events, <<d, e>> \in Before
        PROVE  \E i \in DOMAIN topic[log1] : topic[log1][i] = d
    <3>1. RelayProofs!Precedes(d, e)
      BY <2>4 DEF Before, Relay!Precedes, RelayProofs!Precedes
    <3>2. RelayProofs!InTopic(d) /\ LogOf[d] = log1
      <4>1. RecordOf[d] = RecordOf[e]
        BY <3>1 DEF RelayProofs!Precedes
      <4> QED
        BY <1>4, <2>1, <2>2, <2>4, <3>1, <4>1, OrderedForGood DEF RelayProofs!Log
    <3> QED
      BY <1>4, <3>2 DEF RelayProofs!InTopic, RelayProofs!ToSet
  <2>5. Delivery!Send(e)
    BY <1>3, <1>5, <2>1, <2>2, <2>3, <2>4 DEF Delivery!Send
  <2>6. Delivery!Next
    BY <1>4, <2>5 DEF Delivery!Next
  <2>7. /\ topic' \in [Partitions -> Seq(Events)]
        /\ \A p \in Partitions :
             /\ Len(topic[p]) <= Len(topic'[p])
             /\ \A i \in 1..Len(topic[p]) : topic'[p][i] = topic[p][i]
    <3>1. e \in Events /\ topic[log1] \in Seq(Events)
      BY <1>4, <2>2
    <3>2. /\ Append(topic[log1], e) \in Seq(Events)
          /\ Len(topic[log1]) <= Len(Append(topic[log1], e))
          /\ \A i \in 1..Len(topic[log1]) : Append(topic[log1], e)[i] = topic[log1][i]
      BY <3>1
    <3>3. topic'[log1] = Append(topic[log1], e) /\ \A p \in Partitions \ {log1} : topic'[p] = topic[p]
      BY <1>4, <2>2, <2>3
    <3>4. \A p \in Partitions : Len(topic[p]) \in Nat
      BY <1>4
    <3> QED
      BY <1>4, <2>3, <3>2, <3>3, <3>4
  <2> QED
    BY <1>2, <2>6, <2>7
<1>8. CASE \E marked \in SUBSET outbox :
             /\ \A e \in marked : RelayProofs!InTopic(e)
             /\ published' = published \cup marked
             /\ UNCHANGED <<setting, outbox, topic>>
  <2>1. PICK marked \in SUBSET outbox :
             /\ \A e \in marked : RelayProofs!InTopic(e)
             /\ published' = published \cup marked
             /\ UNCHANGED <<setting, outbox, topic>>
    BY <1>8
  <2>2. \A e \in marked : \E i \in DOMAIN topic[LogOf[e]] : topic[LogOf[e]][i] = e
    BY <1>4, <2>1 DEF RelayProofs!InTopic, RelayProofs!ToSet
  <2>3. Delivery!Next
    BY <1>3, <1>5, <2>1, <2>2 DEF Delivery!Next, Delivery!Settle
  <2> QED
    BY <1>2, <1>4, <2>1, <2>3
<1>9. CASE UNCHANGED <<setting, outbox, published, topic>>
  BY <1>2, <1>3, <1>4, <1>5, <1>9 DEF Delivery!vars
<1> QED
  BY <1>1, <1>6, <1>7, <1>8, <1>9, RelayAssumed, RelayProofs!EachStep DEF PInv

\* A worker's step is one of EventDelivery's, or none: handling processes the message
\* in hand, whose predecessors are processed.
LEMMA ConsumeStep ==
  ASSUME WInv, Consume, UNCHANGED relayVars
  PROVE  UNCHANGED topic /\ [Delivery!Next]_(Delivery!vars)
<1>1. UNCHANGED <<outbox, published, Relay!Lossless>>
  BY OrderedForGood DEF relayVars
<1>2. ASSUME NEW w \in Workers, Busy(w), UNCHANGED <<topic, committed>>,
             \/ /\ notifications' = notifications \/ StoreNotification(Event(inHand[w]))
                /\ deadLetters' = deadLetters
             \/ /\ notifications' = notifications
                /\ deadLetters' \in {deadLetters, deadLetters \cup {Event(inHand[w])}}
      PROVE  [Delivery!Next]_(Delivery!vars)
  <2>1. PICK p \in Partitions, n \in Nat :
          /\ p = inHand[w].partition /\ n = inHand[w].offset /\ n \in 1..Len(topic[p])
    BY <1>2, MessageInHand DEF WInv
  <2>2. PICK e \in Events : e = Event(inHand[w]) /\ e = topic[p][n]
    BY <1>2, <2>1, MessageInHand DEF WInv, Event
  <2>3. n \in DOMAIN topic[p]
    <3>1. topic[p] \in Seq(Events)
      BY DEF WInv, TypeOK
    <3> QED
      BY <2>1, <3>1
  <2>4. \A i \in 1..(n - 1) : Delivery!Processed(topic[p][i])
    BY <1>2, <2>1 DEF WInv, TakenInTurn, Processed, Delivery!Processed
  <2>5. CASE Notified' = Notified \cup {e} /\ deadLetters' = deadLetters
    <3>1. Delivery!Process(p, n)
      BY <1>1, <1>2, <2>2, <2>4, <2>5 DEF Delivery!Process
    <3> QED
      BY <2>3, <3>1 DEF Delivery!Next
  <2>6. CASE Notified' = Notified /\ deadLetters' = deadLetters \cup {e}
    <3>1. Delivery!Process(p, n)
      BY <1>1, <1>2, <2>2, <2>4, <2>6 DEF Delivery!Process
    <3> QED
      BY <2>3, <3>1 DEF Delivery!Next
  <2>7. CASE Notified' = Notified /\ deadLetters' = deadLetters
    BY <1>1, <1>2, <2>7 DEF Delivery!vars
  <2>8. notifications' = notifications => Notified' = Notified
    BY DEF Notified
  <2>9. StoreNotification(e) => Notified' = Notified \cup {e}
    BY StoreOnce DEF WInv, TypeOK
  <2> QED
    BY <1>2, <2>2, <2>5, <2>6, <2>7, <2>8, <2>9
<1>3. ASSUME NEW w \in Workers, CommitMessage(w) \/ CommitError(w)
      PROVE  UNCHANGED topic /\ [Delivery!Next]_(Delivery!vars)
  <2>1. /\ pc[w] = "commit" /\ Busy(w)
        /\ UNCHANGED <<topic, notifications, deadLetters>>
        /\ UNCHANGED committed \/ CommittedMessage(w)
    BY <1>3 DEF CommitMessage, CommitError, Busy
  <2>2. PICK p \in Partitions, n \in Nat :
          /\ p = inHand[w].partition /\ n = inHand[w].offset /\ n \in 1..Len(topic[p])
    BY <2>1, MessageInHand DEF WInv
  <2>3. CASE UNCHANGED committed
    BY <1>1, <2>1, <2>3 DEF Delivery!vars, Notified
  <2>4. CASE CommittedMessage(w)
    <3>1. committed' = [committed EXCEPT ![p] = n]
      BY <2>2, <2>4 DEF CommittedMessage
    <3>2. ASSUME NEW i \in 1..n PROVE Delivery!Processed(topic[p][i])
      <4>1. i \in 1..(n - 1) \/ i = n
        BY <2>2
      <4>2. \A j \in 1..(n - 1) : Processed(topic[p][j])
        BY <2>1, <2>2 DEF WInv, TakenInTurn
      <4>3. Processed(topic[p][n])
        BY <2>1, <2>2 DEF WInv, DoneBeforeCommit, Event
      <4> QED
        BY <4>1, <4>2, <4>3 DEF Processed, Delivery!Processed
    <3>3. Delivery!CommitOffset(p, n)
      BY <1>1, <2>1, <3>1, <3>2 DEF Delivery!CommitOffset, Notified
    <3>4. n \in 0..Len(topic[p])
      BY <2>2
    <3> QED
      BY <2>1, <3>3, <3>4 DEF Delivery!Next
  <2> QED
    BY <2>1, <2>3, <2>4
<1>4. ASSUME NEW w \in Workers,
             \/ Handle(w) \/ HandleError(w) \/ StopWhileHandling(w)
             \/ PublishDeadLetter(w) \/ PublishDeadLetterError(w)
      PROVE  UNCHANGED topic /\ [Delivery!Next]_(Delivery!vars)
  <2>1. /\ Busy(w) /\ UNCHANGED <<topic, committed>>
        /\ \/ /\ notifications' = notifications \/ StoreNotification(Event(inHand[w]))
              /\ deadLetters' = deadLetters
           \/ /\ notifications' = notifications
              /\ deadLetters' \in {deadLetters, deadLetters \cup {Event(inHand[w])}}
    <3>1. CASE Handle(w)
      BY <3>1 DEF Handle, Busy, log
    <3>2. CASE HandleError(w)
      BY <3>2 DEF HandleError, Busy, log
    <3>3. CASE StopWhileHandling(w)
      BY <3>3 DEF StopWhileHandling, Busy, log
    <3>4. CASE PublishDeadLetter(w)
      BY <3>4 DEF PublishDeadLetter, Busy, log
    <3>5. CASE PublishDeadLetterError(w)
      BY <3>5 DEF PublishDeadLetterError, Busy, log
    <3> QED
      BY <1>4, <3>1, <3>2, <3>3, <3>4, <3>5
  <2> QED
    BY <1>2, <2>1
<1>5. ASSUME UNCHANGED <<topic, committed, notifications, deadLetters>>
      PROVE  UNCHANGED topic /\ [Delivery!Next]_(Delivery!vars)
  BY <1>1, <1>5 DEF Delivery!vars, Notified
<1>6. CASE Rebalance \/ SpareRebalance
  BY <1>5, <1>6 DEF Rebalance, SpareRebalance
<1>7. ASSUME NEW w \in Workers, Restart(w) \/ Crash(w) \/ \E p \in Partitions : FetchMessage(w, p)
      PROVE  UNCHANGED topic /\ [Delivery!Next]_(Delivery!vars)
  <2>1. UNCHANGED <<topic, committed, notifications, deadLetters>>
    BY <1>7 DEF Restart, Crash, FetchMessage, log
  <2> QED
    BY <1>5, <2>1
<1>8. ASSUME NEW w \in Workers, Run(w)
      PROVE  UNCHANGED topic /\ [Delivery!Next]_(Delivery!vars)
  BY <1>3, <1>4, <1>7, <1>8 DEF Run
<1> QED
  BY <1>3, <1>4, <1>6, <1>7, <1>8 DEF Consume

-----------------------------------------------------------------------------
(* The pipeline. *)

\* What the pipeline starts with: nothing is committed, sent or processed.
LEMMA PipelineStarts == PipelineInit => PInv /\ Delivery!Init
<1> SUFFICES ASSUME PipelineInit PROVE PInv /\ Delivery!Init
  OBVIOUS
<1>1. RelayProofs!IInv
  BY SameRelays, RelayAssumed, RelayProofs!InitHolds DEF PipelineInit
<1>2. WInv
  BY WorkersInit
<1>3. Notified = {}
  BY DEF PipelineInit, Init, Notified
<1>4. Delivery!Init
  BY <1>3, OrderedForGood DEF PipelineInit, Init, Relay!Init, Delivery!Init
<1> QED
  BY <1>1, <1>2, <1>4 DEF PInv

\* Every step keeps the invariants of both sides and is one of EventDelivery's, or
\* none.
LEMMA PipelineStep ==
  ASSUME PInv, [PipelineNext]_pipelineVars
  PROVE  PInv' /\ [Delivery!Next]_(Delivery!vars)
<1>1. CASE Relay!Next /\ UNCHANGED workerVars
  BY <1>1, RelayStep, TopicKeeps DEF PInv
<1>2. CASE Consume /\ UNCHANGED relayVars
  <2>1. WInv' /\ UNCHANGED topic /\ [Delivery!Next]_(Delivery!vars)
    BY <1>2, ConsumeKeeps, ConsumeStep DEF PInv
  <2>2. UNCHANGED RelayProofs!vars
    BY <1>2, <2>1 DEF relayVars, RelayProofs!vars
  <2>3. RelayProofs!IInv'
    BY <2>2, RelayAssumed, RelayProofs!NextKeeps DEF PInv
  <2> QED
    BY <2>1, <2>3 DEF PInv
<1>3. CASE UNCHANGED pipelineVars
  <2>1. UNCHANGED workerVars /\ UNCHANGED topic /\ UNCHANGED relayVars
    BY <1>3 DEF pipelineVars
  <2>2. UNCHANGED RelayProofs!vars
    BY <2>1 DEF relayVars, RelayProofs!vars
  <2>3. RelayProofs!IInv'
    BY <2>2, RelayAssumed, RelayProofs!NextKeeps DEF PInv
  <2>4. WInv'
    <3>1. topic' \in [Partitions -> Seq(Events)]
      BY <2>1 DEF PInv, WInv, TypeOK
    <3>2. \A p \in Partitions : Len(topic[p]) <= Len(topic'[p])
      BY <2>1 DEF PInv, WInv, TypeOK
    <3> QED
      BY <2>1, <3>1, <3>2, TopicKeeps DEF PInv
  <2>5. UNCHANGED Delivery!vars
    BY <2>1, OrderedForGood DEF relayVars, workerVars, Delivery!vars, Notified
  <2> QED
    BY <2>3, <2>4, <2>5 DEF PInv
<1> QED
  BY <1>1, <1>2, <1>3 DEF PipelineNext

\* The inductive invariant of the pipeline.
LEMMA PipelineInvariance == PipelineSpec => []PInv
BY PipelineStarts, PipelineStep, PTL DEF PipelineSpec

\* The workers' state has its types, whatever the relays send them.
THEOREM TypeCorrect == PipelineSpec => []TypeOK
BY PipelineInvariance, PTL DEF PInv, WInv

\* No message is passed over: below a committed offset everything has become a
\* notification or a dead letter, with any number of crashes, rebalances and stale
\* commits.
THEOREM CommittedAlwaysProcessed == PipelineSpec => []CommittedAreProcessed
BY PipelineInvariance, PTL DEF PInv, WInv

\* There is never a second notification of an event, however often relays and
\* workers repeat it.
THEOREM NeverNotifiedTwice == PipelineSpec => []OneNotificationPerEvent
BY PipelineInvariance, PTL DEF PInv, WInv

\* The pipeline implements EventDelivery: every step of a relay or a worker is one
\* of the abstract steps, or none, whatever messages are lost or rejected.
THEOREM PipelineImplementsDelivery == PipelineSpec => ImplementsEventDelivery
BY PipelineStarts, PipelineStep, PipelineInvariance, PTL
DEF PipelineSpec, ImplementsEventDelivery, Delivery!Spec

\* EventDelivery's assumptions hold of the pipeline's constants: the versions of a
\* record are in one partition.  So what EventDelivery implies holds of the pipeline.
LEMMA DeliveryAssumed ==
  /\ LogOf \in [Events -> Partitions]
  /\ Before \subseteq Events \X Events
  /\ \A b \in Before : LogOf[b[1]] = LogOf[b[2]]
<1>1. ASSUME NEW b \in Before PROVE LogOf[b[1]] = LogOf[b[2]]
  <2>1. RecordOf[b[1]] = RecordOf[b[2]] /\ b[1] \in Events /\ b[2] \in Events
    BY DEF Before, Relay!Precedes
  <2> QED
    BY <2>1, PipelineAssumption DEF Relay!Log
<1> QED
  BY <1>1, WorkerAssumption DEF Before

-----------------------------------------------------------------------------
(* The order of processing, from end to end. *)

\* An event that the relays keep before the one of a message is before it in the
\* partition too: the relays' order of the topic, for settings that lose no message.
LEMMA EarlierIsBefore ==
  ASSUME PInv, Relay!Lossless,
         NEW p \in Partitions, NEW i \in DOMAIN topic[p], NEW b \in Before, topic[p][i] = b[2]
  PROVE  \E j \in 1..(i - 1) : topic[p][j] = b[1]
<1>1. RelayProofs!Lossless
  BY OrderedForGood
<1>2. b[1] \in Events /\ RelayProofs!Precedes(b[1], b[2])
  BY DEF Before, Relay!Precedes, RelayProofs!Precedes
<1> QED
  BY <1>1, <1>2 DEF PInv, RelayProofs!IInv, RelayProofs!RecordsInOrder

\* Only Process adds to what is processed, and it takes the messages of a partition
\* in order; so no step completes a pair of events the wrong way round.
LEMMA StepKeepsOrder ==
  ASSUME PInv, ProcessedInOrder, [Delivery!Next]_(Delivery!vars)
  PROVE  ProcessedInOrder'
<1>0. UNCHANGED Relay!Lossless
  BY Zenon DEF Delivery!Next, Delivery!vars, Delivery!Accept, Delivery!Send, Delivery!Settle,
               Delivery!Process, Delivery!CommitOffset
<1>1. CASE UNCHANGED <<Notified, deadLetters>>
  BY <1>0, <1>1 DEF ProcessedInOrder, Delivery!ProcessedInOrder, Delivery!Processed
<1>2. ASSUME NEW p \in Partitions, NEW i \in DOMAIN topic[p], Delivery!Process(p, i)
      PROVE  ProcessedInOrder'
  <2>1. \A e : /\ Delivery!Processed(e) => Delivery!Processed(e)'
               /\ Delivery!Processed(e)' => Delivery!Processed(e) \/ e = topic[p][i]
    BY <1>2 DEF Delivery!Process, Delivery!Processed
  <2>2. ASSUME Relay!Lossless, NEW b \in Before, Delivery!Processed(b[2])'
        PROVE  Delivery!Processed(b[1])'
    <3>1. CASE Delivery!Processed(b[2])
      BY <2>1, <2>2, <3>1 DEF ProcessedInOrder, Delivery!ProcessedInOrder, Delivery!Processed
    <3>2. CASE topic[p][i] = b[2]
      <4>1. PICK j \in 1..(i - 1) : topic[p][j] = b[1]
        BY <2>2, <3>2, EarlierIsBefore
      <4>2. Delivery!Processed(topic[p][j])
        BY <1>2 DEF Delivery!Process
      <4> QED
        BY <2>1, <4>1, <4>2 DEF Delivery!Processed
    <3> QED
      BY <2>1, <2>2, <3>1, <3>2 DEF Delivery!Processed
  <2> QED
    BY <1>0, <2>2 DEF ProcessedInOrder, Delivery!ProcessedInOrder, Before, Relay!Precedes
<1>3. CASE \E e \in Events : Delivery!Accept(e) \/ Delivery!Send(e)
  BY <1>1, <1>3 DEF Delivery!Accept, Delivery!Send
<1>4. CASE \E events \in SUBSET outbox : Delivery!Settle(events)
  BY <1>1, <1>4 DEF Delivery!Settle
<1>5. CASE \E p \in Partitions : \E n \in 0..Len(topic[p]) : Delivery!CommitOffset(p, n)
  BY <1>1, <1>5 DEF Delivery!CommitOffset
<1>6. CASE UNCHANGED Delivery!vars
  BY <1>1, <1>6 DEF Delivery!vars
<1> QED
  BY <1>2, <1>3, <1>4, <1>5, <1>6 DEF Delivery!Next

\* With any setting: where no call gives a message up without those that follow it
\* (Relay!Lossless; a call that fills several of the writer's batches may), of two
\* versions of a record whose clocks tell them apart the later one is never notified,
\* nor given up on, before the earlier one, from the transaction to the notification.
THEOREM ProcessedAlwaysInOrder == PipelineSpec => []ProcessedInOrder
<1>1. PipelineInit => PInv /\ ProcessedInOrder
  <2>1. PipelineInit => PInv /\ Delivery!Init
    BY PipelineStarts
  <2>2. Delivery!Init => ProcessedInOrder
    BY DEF Delivery!Init, ProcessedInOrder, Delivery!ProcessedInOrder, Delivery!Processed
  <2> QED
    BY <2>1, <2>2
<1>2. PInv /\ ProcessedInOrder /\ [PipelineNext]_pipelineVars => (PInv /\ ProcessedInOrder)'
  BY PipelineStep, StepKeepsOrder
<1> QED
  BY <1>1, <1>2, PTL DEF PipelineSpec
=============================================================================
