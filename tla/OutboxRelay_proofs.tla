-------------------------- MODULE OutboxRelay_proofs --------------------------
(***************************************************************************)
(* What the relays keep of the topic, for any number of relays, events,    *)
(* faults and any batch size: nothing is marked that is not in the topic,  *)
(* and the versions of a record are in order.                              *)
(*                                                                         *)
(* A relay acts on a list that may be old: other relays publish and mark   *)
(* the same events meanwhile.  The argument is that a list, once read,     *)
(* stays good: every event in it has its predecessors in the topic or      *)
(* before it in the list, and the topic only grows.                        *)
(***************************************************************************)
EXTENDS OutboxRelay, FiniteSetTheorems, SequenceTheorems, TLAPS

-----------------------------------------------------------------------------
(* The inductive invariant. *)

\* No version is committed before an earlier one of its record.
CommittedInTurn ==
  /\ IsFiniteSet(committed)
  /\ \A e \in committed : \A d \in Events :
       d < e /\ RecordOf[d] = RecordOf[e] => d \in committed

\* e is in the topic behind every event that precedes it.
Behind(e) ==
  \A d \in Events :
    Precedes(d, e) => \E j \in DOMAIN topic[Log(e)] : \E i \in 1..(j - 1) :
                        topic[Log(e)][i] = d /\ topic[Log(e)][j] = e

\* What a relay has achieved for an event when it may mark it.
Placed(e) == InTopic(e) /\ (setting.batched => Behind(e))

\* Where an event is never sent with a predecessor left out: a batch is given up
\* as a whole.
Orderly == setting.batched \/ Lossless

\* A list is good whenever it is worked off.
Listed(list) ==
  Orderly =>
    \A i \in DOMAIN list : \A d \in Events :
      Precedes(d, list[i]) => InTopic(d) \/ \E j \in 1..(i - 1) : list[j] = d

\* The part of a call that has been handled comes first.
Handled(w) == Len(Call(items[w])) - Len(sending[w])

Shape(w) ==
  /\ pc[w] \in {"publish", "mark", "fail"} => items[w] # <<>>
  /\ pc[w] = "fail" => sending[w] # <<>>
  /\ pc[w] = "publish" =>
       /\ Len(sending[w]) <= Len(Call(items[w]))
       /\ \A i \in DOMAIN sending[w] : sending[w][i] = Call(items[w])[Handled(w) + i]

\* What was sent without an error is placed; what is to be marked is placed; and
\* where no message is lost, what is reported as failed is placed all the same.
Sent(w) ==
  /\ pc[w] = "publish" /\ (w \in failed => ~setting.lossy) =>
       \A i \in 1..Handled(w) : Placed(Call(items[w])[i])
  /\ pc[w] = "mark" => \A i \in DOMAIN Call(items[w]) : Placed(Call(items[w])[i])
  /\ pc[w] = "fail" /\ ~setting.lossy /\ setting.rejected = {} =>
       \A i \in DOMAIN Call(items[w]) : Placed(Call(items[w])[i])

Turn(w) == Shape(w) /\ Listed(items[w]) /\ Sent(w)

IInv ==
  /\ TypeOK
  /\ CommittedInTurn
  /\ \A e \in published : Placed(e)
  /\ RecordsInOrder
  /\ \A w \in Relays : Turn(w)

-----------------------------------------------------------------------------
(* Lists and calls. *)

\* The members of Settings are records of these fields.
LEMMA SettingType ==
  ASSUME TypeOK
  PROVE  setting.batched \in BOOLEAN /\ setting.lossy \in BOOLEAN
BY RelayAssumption DEF TypeOK

\* The list that ListPendingOutbox returns holds committed events, and no event
\* without the unpublished ones that precede it: limiting the list cuts it behind
\* them.
LEMMA PendingListed ==
  ASSUME TypeOK, CommittedInTurn, \A e \in published : Placed(e), NEW list \in Pending
  PROVE  list \in Seq(committed) /\ Listed(list)
<1> DEFINE events == committed \ published
           n == Cardinality(events)
<1>1. IsFiniteSet(events) /\ n \in Nat
  BY FS_Subset, FS_CardinalityType DEF CommittedInTurn
<1>2. PICK all \in Sorted(events) :
        list = SubSeq(all, 1, IF Len(all) < BatchSize THEN Len(all) ELSE BatchSize)
  BY DEF Pending, Limited
<1>3. /\ all \in [1..n -> events]
      /\ \A i, j \in 1..n : i # j => all[i] # all[j]
      /\ \A i, j \in 1..n : i < j => CreatedAt[all[i]] <= CreatedAt[all[j]]
  BY <1>2 DEF Sorted, SetToSeqs
<1>4. all \in Seq(events) /\ Len(all) = n
  <2> HIDE DEF n, events
  <2> QED
    BY <1>1, <1>3
<1>5. \A d \in events : \E j \in 1..n : all[j] = d
  <2>1. all \in Injection(1..n, events)
    BY <1>3 DEF Injection, IsInjective
  <2>2. IsFiniteSet(1..n) /\ Cardinality(1..n) = n
    BY <1>1, FS_Interval
  <2>3. all \in Surjection(1..n, events)
    BY <2>1, <2>2, <1>1, FS_Injection
  <2> QED
    BY <2>3 DEF Surjection
<1> DEFINE m == IF Len(all) < BatchSize THEN Len(all) ELSE BatchSize
<1>6. m \in Nat /\ m <= n
  BY <1>1, <1>4, RelayAssumption
<1>7. /\ list \in Seq(committed)
      /\ DOMAIN list = 1..m
      /\ \A i \in 1..m : list[i] = all[i]
  <2>1. list = SubSeq(all, 1, m)
    BY <1>2
  <2> HIDE DEF m
  <2> QED
    BY <2>1, <1>4, <1>6
<1>8. ASSUME NEW i \in DOMAIN list, NEW d \in Events, Precedes(d, list[i])
      PROVE  InTopic(d) \/ \E j \in 1..(i - 1) : list[j] = d
  <2> HIDE DEF m
  <2>1. i \in 1..m /\ i \in 1..n /\ list[i] = all[i] /\ all[i] \in events
    <3> HIDE DEF n, events
    <3> QED
      BY <1>1, <1>3, <1>6, <1>7
  <2>2. d \in committed
    BY <1>8, <2>1 DEF Precedes, CommittedInTurn
  <2>3. CASE d \in published
    BY <2>3 DEF Placed
  <2>4. CASE d \notin published
    <3>1. PICK j \in 1..n : all[j] = d
      BY <2>2, <2>4, <1>5
    <3>2. /\ CreatedAt[all[j]] < CreatedAt[all[i]]
          /\ CreatedAt[all[i]] \in Nat /\ CreatedAt[all[j]] \in Nat
      BY <1>8, <2>1, <3>1, RelayAssumption DEF Precedes, TypeOK
    <3>3. ~(i < j) /\ i # j
      <4> HIDE DEF n, events
      <4> QED
        BY <1>3, <2>1, <3>1, <3>2
    <3>4. j \in 1..(i - 1) /\ j \in 1..m
      BY <1>1, <1>6, <2>1, <3>1, <3>3
    <3> QED
      BY <3>1, <3>4, <1>7
  <2> QED
    BY <2>3, <2>4
<1> QED
  BY <1>7, <1>8 DEF Listed

\* A call is the beginning of its list, and what is left is the rest of it.
LEMMA CallOfList ==
  ASSUME TypeOK, NEW list \in Seq(committed), list # <<>>
  PROVE  /\ Call(list) \in Seq(committed)
         /\ Len(Call(list)) \in 1..Len(list)
         /\ \A i \in 1..Len(Call(list)) : Call(list)[i] = list[i]
         /\ AfterCall(list) \in Seq(committed)
         /\ \/ setting.batched /\ Call(list) = list /\ AfterCall(list) = <<>>
            \/ ~setting.batched /\ Len(Call(list)) = 1 /\ AfterCall(list) = Tail(list)
<1>1. CASE setting.batched
  BY <1>1 DEF Call, AfterCall
<1>2. CASE ~setting.batched
  <2>1. Call(list) = <<list[1]>> /\ AfterCall(list) = Tail(list) /\ list[1] \in committed
    BY <1>2 DEF Call, AfterCall
  <2> QED
    BY <1>2, <2>1
<1> QED
  BY <1>1, <1>2, SettingType

\* What is left of a good list whose call is placed is a good list.
LEMMA RestListed ==
  ASSUME TypeOK, NEW list \in Seq(committed), list # <<>>, Listed(list),
         Orderly /\ ~setting.batched => \A i \in DOMAIN Call(list) : InTopic(Call(list)[i])
  PROVE  Listed(AfterCall(list))
<1>1. CASE setting.batched
  BY <1>1 DEF AfterCall, Listed
<1>2. CASE ~setting.batched
  <2>1. AfterCall(list) = Tail(list) /\ Tail(list) \in Seq(committed)
    BY <1>2, CallOfList DEF AfterCall
  <2>2. /\ Len(Tail(list)) = Len(list) - 1 /\ Len(list) \in Nat \ {0}
        /\ \A i \in 1..Len(Tail(list)) : Tail(list)[i] = list[i + 1]
    OBVIOUS
  <2> SUFFICES ASSUME Orderly, NEW i \in DOMAIN Tail(list), NEW d \in Events,
                      Precedes(d, Tail(list)[i])
               PROVE  InTopic(d) \/ \E j \in 1..(i - 1) : Tail(list)[j] = d
    BY <2>1 DEF Listed
  <2>3. i \in 1..Len(Tail(list)) /\ i + 1 \in DOMAIN list
    BY <2>1, <2>2
  <2>4. InTopic(d) \/ \E j \in 1..i : list[j] = d
    <3>1. Precedes(d, list[i + 1])
      BY <2>2, <2>3
    <3>2. InTopic(d) \/ \E j \in 1..((i + 1) - 1) : list[j] = d
      BY <3>1, <2>3 DEF Listed
    <3> QED
      BY <3>2, <2>3
  <2>5. ASSUME NEW j \in 1..i, list[j] = d, j # 1
        PROVE  \E k \in 1..(i - 1) : Tail(list)[k] = d
    <3>1. j - 1 \in 1..(i - 1) /\ j - 1 \in 1..Len(Tail(list))
      BY <2>3, <2>5
    <3>2. Tail(list)[j - 1] = list[(j - 1) + 1]
      BY <2>2, <3>1
    <3> QED
      BY <3>1, <3>2, <2>5
  <2>6. InTopic(list[1])
    <3>1. 1 \in 1..Len(Call(list)) /\ DOMAIN Call(list) = 1..Len(Call(list)) /\ Call(list)[1] = list[1]
      BY <2>2, CallOfList
    <3> QED
      BY <3>1, <1>2
  <2> QED
    BY <2>4, <2>5, <2>6
<1> QED
  BY <1>1, <1>2, SettingType

-----------------------------------------------------------------------------
(* The topic. *)

\* The messages of the topic stay where they are.
TopicGrows ==
  \A p \in Partitions :
    /\ topic'[p] \in Seq(committed') /\ Len(topic[p]) <= Len(topic'[p])
    /\ \A i \in 1..Len(topic[p]) : topic'[p][i] = topic[p][i]

\* What the log tells of an event goes on being so.
LEMMA GrowthKeeps ==
  ASSUME TypeOK, TopicGrows, UNCHANGED setting
  PROVE  /\ \A e \in Events : InTopic(e) => InTopic(e)'
         /\ \A e \in Events : Behind(e) => Behind(e)'
         /\ \A e \in Events : Placed(e) => Placed(e)'
         /\ \A list \in Seq(Events) : Listed(list) => Listed(list)'
<1>1. ASSUME NEW e \in Events
      PROVE  /\ Log(e) \in Partitions
             /\ \A i \in DOMAIN topic[Log(e)] :
                  /\ i \in DOMAIN topic'[Log(e)]
                  /\ topic'[Log(e)][i] = topic[Log(e)][i]
             /\ \A i \in DOMAIN topic[Log(e)] : \A j \in 1..(i - 1) : j \in DOMAIN topic[Log(e)]
  <2>1. Log(e) \in Partitions
    BY RelayAssumption DEF Log
  <2>2. topic[Log(e)] \in Seq(committed) /\ topic'[Log(e)] \in Seq(committed')
    BY <2>1 DEF TypeOK, TopicGrows
  <2> QED
    BY <2>1, <2>2 DEF TopicGrows
<1>2. ASSUME NEW e \in Events, InTopic(e)
      PROVE  InTopic(e)'
  BY <1>1, <1>2 DEF InTopic, ToSet, Log
<1>3. ASSUME NEW e \in Events, Behind(e)
      PROVE  Behind(e)'
  <2> SUFFICES ASSUME NEW d \in Events, Precedes(d, e)
               PROVE  \E j \in DOMAIN topic'[Log(e)] : \E i \in 1..(j - 1) :
                        topic'[Log(e)][i] = d /\ topic'[Log(e)][j] = e
    BY DEF Behind, Log, Precedes
  <2>1. PICK j \in DOMAIN topic[Log(e)] : \E i \in 1..(j - 1) :
               topic[Log(e)][i] = d /\ topic[Log(e)][j] = e
    BY <1>3 DEF Behind
  <2> QED
    BY <2>1, <1>1
<1>4. \A e \in Events : Placed(e) => Placed(e)'
  BY <1>2, <1>3 DEF Placed
<1>5. ASSUME NEW list \in Seq(Events), Listed(list)
      PROVE  Listed(list)'
  <2>1. Orderly' => Orderly
    BY DEF Orderly, Lossless
  <2> QED
    BY <1>2, <1>5, <2>1 DEF Listed, Precedes
<1> QED
  BY <1>2, <1>3, <1>4, <1>5

\* A message is appended behind the others.
LEMMA AppendGrows ==
  ASSUME TypeOK, UNCHANGED committed, NEW e \in committed, Appended(e)
  PROVE  /\ topic' \in [Partitions -> Seq(committed)]
         /\ TopicGrows
         /\ InTopic(e)'
         /\ \A p \in Partitions : \A i \in DOMAIN topic'[p] :
              \/ i \in DOMAIN topic[p]
              \/ p = Log(e) /\ i = Len(topic[p]) + 1 /\ topic'[p][i] = e
<1> DEFINE log == Log(e)
<1>1. log \in Partitions
  BY RelayAssumption DEF Log, TypeOK
<1>2. topic' \in [Partitions -> Seq(committed)]
  BY <1>1 DEF Appended, TypeOK
<1>3. /\ topic'[log] = Append(topic[log], e)
      /\ topic[log] \in Seq(committed)
      /\ \A p \in Partitions : p # log => topic'[p] = topic[p]
  BY <1>1 DEF Appended, TypeOK
<1>4. \A p \in Partitions : topic[p] \in Seq(committed) /\ topic'[p] \in Seq(committed)
  BY <1>2 DEF TypeOK
<1> HIDE DEF log
<1>5. /\ Len(topic'[log]) = Len(topic[log]) + 1 /\ Len(topic[log]) \in Nat
      /\ \A i \in 1..Len(topic[log]) : topic'[log][i] = topic[log][i]
      /\ topic'[log][Len(topic[log]) + 1] = e
  BY <1>3
<1>6. TopicGrows
  BY <1>3, <1>4, <1>5 DEF TopicGrows
<1>7. InTopic(e)'
  <2>1. Len(topic[log]) + 1 \in DOMAIN topic'[log]
    BY <1>1, <1>4, <1>5
  <2> QED
    BY <2>1, <1>5 DEF InTopic, ToSet, log, Log
<1>8. ASSUME NEW p \in Partitions, NEW i \in DOMAIN topic'[p]
      PROVE  \/ i \in DOMAIN topic[p]
             \/ p = log /\ i = Len(topic[p]) + 1 /\ topic'[p][i] = e
  BY <1>3, <1>4, <1>5, <1>8
<1> QED
  BY <1>2, <1>6, <1>7, <1>8 DEF log

\* An event that is appended when its predecessors are in the topic comes behind
\* them.
LEMMA AppendedBehind ==
  ASSUME TypeOK, UNCHANGED <<setting, committed>>, NEW e \in committed, Appended(e)
  PROVE  /\ \A d \in Events : Precedes(d, e) /\ InTopic(d) =>
              \E i \in 1..Len(topic[Log(e)]) : topic'[Log(e)][i] = d
         /\ (Orderly => \A d \in Events : Precedes(d, e) => InTopic(d)) => Placed(e)'
<1> DEFINE log == Log(e)
<1>1. /\ log \in Partitions
      /\ topic[log] \in Seq(committed) /\ topic'[log] = Append(topic[log], e)
      /\ e \in Events
  BY RelayAssumption DEF Log, TypeOK, Appended
<1>2. ASSUME NEW d \in Events, InTopic(d), Precedes(d, e)
      PROVE  \E i \in 1..Len(topic[log]) : topic'[log][i] = d
  <2>1. Log(d) = log
    BY <1>2 DEF Precedes, Log
  <2>2. PICK i \in DOMAIN topic[log] : topic[log][i] = d
    BY <1>2, <2>1 DEF InTopic, ToSet
  <2> HIDE DEF log
  <2> QED
    BY <2>2, <1>1
<1>3. ASSUME \A d \in Events : Precedes(d, e) => InTopic(d)
      PROVE  Behind(e)'
  <2> SUFFICES ASSUME NEW d \in Events, Precedes(d, e)
               PROVE  \E j \in DOMAIN topic'[log] : \E i \in 1..(j - 1) :
                        topic'[log][i] = d /\ topic'[log][j] = e
    BY DEF Behind, Log, Precedes
  <2>1. PICK i \in 1..Len(topic[log]) : topic'[log][i] = d
    BY <1>2, <1>3
  <2> HIDE DEF log
  <2>2. /\ Len(topic[log]) + 1 \in DOMAIN topic'[log]
        /\ topic'[log][Len(topic[log]) + 1] = e
        /\ i \in 1..((Len(topic[log]) + 1) - 1)
    BY <1>1
  <2> QED
    BY <2>1, <2>2
<1>4. (Orderly => \A d \in Events : Precedes(d, e) => InTopic(d)) => Placed(e)'
  BY <1>3, AppendGrows DEF Placed, Orderly
<1> QED
  BY <1>2, <1>4

\* The topic stays in order.
LEMMA AppendKeepsOrder ==
  ASSUME TypeOK, RecordsInOrder, UNCHANGED <<setting, committed>>,
         NEW e \in committed, Appended(e),
         Lossless => \A d \in Events : Precedes(d, e) => InTopic(d)
  PROVE  RecordsInOrder'
<1> SUFFICES ASSUME Lossless, NEW p \in Partitions, NEW i \in DOMAIN topic'[p],
                    NEW d \in Events, Precedes(d, topic'[p][i])
             PROVE  \E j \in 1..(i - 1) : topic'[p][j] = d
  BY DEF RecordsInOrder, Lossless, Precedes
<1>1. topic[p] \in Seq(committed) /\ Len(topic[p]) \in Nat /\ DOMAIN topic[p] = 1..Len(topic[p])
  BY DEF TypeOK
<1>2. CASE i \in DOMAIN topic[p]
  <2>1. \A j \in 1..Len(topic[p]) : topic'[p][j] = topic[p][j]
    BY AppendGrows DEF TopicGrows
  <2>2. PICK j \in 1..(i - 1) : topic[p][j] = d
    BY <1>1, <1>2, <2>1 DEF RecordsInOrder
  <2> QED
    BY <1>1, <1>2, <2>1, <2>2
<1>3. CASE p = Log(e) /\ i = Len(topic[p]) + 1 /\ topic'[p][i] = e
  <2>1. PICK j \in 1..Len(topic[p]) : topic'[p][j] = d
    BY <1>3, AppendedBehind
  <2> QED
    BY <1>1, <1>3, <2>1
<1> QED
  BY <1>2, <1>3, AppendGrows

-----------------------------------------------------------------------------
(* The turns of the relays. *)

\* A relay that does not act keeps its turn, whatever is appended meanwhile.
LEMMA IdleKeepsTurn ==
  ASSUME TypeOK, NEW v \in Relays, Turn(v), TopicGrows, UNCHANGED setting,
         pc'[v] = pc[v], items'[v] = items[v], sending'[v] = sending[v],
         (v \in failed') <=> (v \in failed)
  PROVE  Turn(v)'
<1>1. Call(items[v])' = Call(items[v]) /\ Handled(v)' = Handled(v)
  BY DEF Call, Handled
<1>2. items[v] \in Seq(committed) /\ sending[v] \in Seq(committed) /\ committed \subseteq Events
  BY DEF TypeOK
<1>3. Shape(v)'
  BY <1>1 DEF Turn, Shape
<1>4. Listed(items[v])'
  <2>1. items[v] \in Seq(Events)
    BY <1>2
  <2>2. Listed(items[v]) => \A i \in DOMAIN items[v] : \A d \in Events :
          Orderly /\ Precedes(d, items[v][i]) => InTopic(d)' \/ \E j \in 1..(i - 1) : items[v][j] = d
    BY GrowthKeeps DEF Listed
  <2>3. Orderly' => Orderly
    BY DEF Orderly, Lossless
  <2> QED
    BY <2>2, <2>3 DEF Listed, Turn, Precedes
<1>5. Sent(v)'
  <2>1. ASSUME pc[v] \in {"publish", "mark", "fail"}
        PROVE  /\ Handled(v) <= Len(Call(items[v])) /\ Handled(v) \in Int
               /\ \A i \in DOMAIN Call(items[v]) : Call(items[v])[i] \in Events
               /\ DOMAIN Call(items[v]) = 1..Len(Call(items[v]))
    <3>1. Call(items[v]) \in Seq(committed)
      BY <1>2, <2>1, CallOfList DEF Turn, Shape
    <3>2. /\ Len(sending[v]) \in Nat /\ Len(Call(items[v])) \in Nat
          /\ DOMAIN Call(items[v]) = 1..Len(Call(items[v]))
      BY <3>1, <1>2
    <3>3. \A i \in DOMAIN Call(items[v]) : Call(items[v])[i] \in committed
      BY <3>1
    <3>4. Handled(v) \in Int /\ Handled(v) <= Len(Call(items[v]))
      <4>1. PICK m \in Nat, n \in Nat : m = Len(Call(items[v])) /\ n = Len(sending[v])
        BY <3>2
      <4>2. Handled(v) = m - n
        BY <4>1, Zenon DEF Handled
      <4>3. m - n \in Int /\ m - n <= m
        OBVIOUS
      <4> QED
        BY <4>1, <4>2, <4>3
    <3> QED
      BY <3>2, <3>3, <3>4, <1>2
  <2>2. ASSUME pc[v] \in {"publish", "mark", "fail"}, NEW i \in DOMAIN Call(items[v]),
               Placed(Call(items[v])[i])
        PROVE  Placed(Call(items[v])[i])'
    <3>1. PICK e \in Events : e = Call(items[v])[i]
      BY <2>1, <2>2
    <3>2. Placed(e)'
      BY <2>2, <3>1, GrowthKeeps
    <3> QED
      BY <1>1, <3>1, <3>2 DEF Placed, InTopic, Behind, Log, Precedes
  <2>3. CASE pc[v] = "publish"
    BY <1>1, <2>1, <2>2, <2>3 DEF Sent, Turn
  <2>4. CASE pc[v] = "mark"
    BY <1>1, <2>2, <2>4 DEF Sent, Turn
  <2>5. CASE pc[v] = "fail"
    BY <1>1, <2>2, <2>5 DEF Sent, Turn
  <2> QED
    BY <2>3, <2>4, <2>5 DEF Sent
<1> QED
  BY <1>3, <1>4, <1>5 DEF Turn

\* A turn begins with a good list: nothing of its first call is sent yet.
LEMMA StartTakesTurn ==
  ASSUME TypeOK, UNCHANGED <<setting, committed>>, NEW w \in Relays, NEW list \in Seq(committed),
         Start(w, list), Listed(list)'
  PROVE  /\ Turn(w)'
         /\ pc' \in [Relays -> {"poll", "publish", "mark", "fail", "down"}]
         /\ items' \in [Relays -> Seq(committed)]
         /\ sending' \in [Relays -> Seq(committed)]
         /\ failed' \subseteq Relays
         /\ \A v \in Relays \ {w} :
              /\ pc'[v] = pc[v] /\ items'[v] = items[v] /\ sending'[v] = sending[v]
              /\ (v \in failed') <=> (v \in failed)
<1>1. Call(list) \in Seq(committed) /\ (list # <<>> => Call(list) # <<>>)
  <2>1. CASE list = <<>>
    BY <2>1 DEF Call
  <2>2. CASE list # <<>>
    BY <2>2, CallOfList
  <2> QED
    BY <2>1, <2>2
<1>2. /\ pc' \in [Relays -> {"poll", "publish", "mark", "fail", "down"}]
      /\ items' \in [Relays -> Seq(committed)]
      /\ sending' \in [Relays -> Seq(committed)]
      /\ failed' \subseteq Relays
      /\ \A v \in Relays \ {w} :
           /\ pc'[v] = pc[v] /\ items'[v] = items[v] /\ sending'[v] = sending[v]
           /\ (v \in failed') <=> (v \in failed)
  BY <1>1 DEF Start, TypeOK
<1>3. /\ items'[w] = list /\ sending'[w] = Call(list)
      /\ Call(items[w])' = Call(list)
      /\ pc'[w] \in {"poll", "publish", "fail"}
      /\ list = <<>> => pc'[w] = "poll"
      /\ pc'[w] = "fail" => setting.rejected # {}
  BY DEF Start, TypeOK, Call
<1>4. Handled(w)' = 0
  BY <1>1, <1>3 DEF Handled
<1>5. Shape(w)'
  BY <1>1, <1>3, <1>4 DEF Shape
<1>6. Sent(w)'
  BY <1>3, <1>4 DEF Sent
<1> QED
  BY <1>2, <1>3, <1>5, <1>6 DEF Turn

\* While a relay publishes, the next message of its call is known, and so is what
\* precedes it: the topic has it if the call has gone well so far.
LEMMA NextMessage ==
  ASSUME TypeOK, NEW w \in Relays, Turn(w), pc[w] = "publish"
  PROVE  /\ items[w] \in Seq(committed) /\ items[w] # <<>>
         /\ Call(items[w]) \in Seq(committed) /\ Call(items[w]) # <<>>
         /\ Handled(w) \in Nat /\ Len(sending[w]) = Len(Call(items[w])) - Handled(w)
         /\ sending[w] # <<>> =>
              /\ Head(sending[w]) = Call(items[w])[Handled(w) + 1]
              /\ Head(sending[w]) \in committed
              /\ Orderly /\ (w \in failed => ~setting.lossy) =>
                   \A d \in Events : Precedes(d, Head(sending[w])) => InTopic(d)
<1>1. items[w] \in Seq(committed) /\ items[w] # <<>> /\ sending[w] \in Seq(committed)
  BY DEF TypeOK, Turn, Shape
<1>2. /\ Call(items[w]) \in Seq(committed)
      /\ Len(Call(items[w])) \in 1..Len(items[w])
      /\ \A i \in 1..Len(Call(items[w])) : Call(items[w])[i] = items[w][i]
  BY <1>1, CallOfList
<1>3. /\ Handled(w) \in Nat /\ Len(sending[w]) = Len(Call(items[w])) - Handled(w)
      /\ Call(items[w]) # <<>>
  <2>1. Len(sending[w]) \in Nat /\ Len(Call(items[w])) \in Nat \ {0}
    BY <1>1, <1>2
  <2>2. Len(sending[w]) <= Len(Call(items[w]))
    BY DEF Turn, Shape
  <2> QED
    BY <2>1, <2>2 DEF Handled
<1>4. ASSUME sending[w] # <<>>
      PROVE  /\ Head(sending[w]) = Call(items[w])[Handled(w) + 1]
             /\ Head(sending[w]) \in committed
             /\ Handled(w) + 1 \in 1..Len(Call(items[w]))
  <2>1. 1 \in DOMAIN sending[w] /\ Head(sending[w]) = sending[w][1] /\ sending[w][1] \in committed
    BY <1>1, <1>4
  <2>2. Len(sending[w]) \in Nat \ {0} /\ Len(Call(items[w])) \in Nat
    BY <1>1, <1>2, <1>4
  <2> QED
    BY <2>1, <2>2, <1>3 DEF Turn, Shape
<1>5. ASSUME sending[w] # <<>>, Orderly, w \in failed => ~setting.lossy,
             NEW d \in Events, Precedes(d, Head(sending[w]))
      PROVE  InTopic(d)
  <2> DEFINE k == Handled(w) + 1
  <2>1. k \in DOMAIN items[w] /\ Head(sending[w]) = items[w][k]
    BY <1>1, <1>2, <1>4, <1>5
  <2>2. CASE InTopic(d)
    BY <2>2
  <2>3. CASE \E j \in 1..(k - 1) : items[w][j] = d
    <3>1. PICK j \in 1..Handled(w) : items[w][j] = d
      BY <2>3, <1>3
    <3>2. j \in 1..Len(Call(items[w]))
      BY <3>1, <1>3, <1>4, <1>5
    <3>3. Placed(Call(items[w])[j])
      BY <3>1, <1>5 DEF Turn, Sent
    <3> QED
      BY <3>1, <3>2, <3>3, <1>2 DEF Placed
  <2> QED
    BY <2>1, <2>2, <2>3, <1>5 DEF Turn, Listed
<1> QED
  BY <1>1, <1>2, <1>3, <1>4, <1>5

\* One message further, or back to an earlier one, the call is still in turn.
LEMMA PublishingKeepsTurn ==
  ASSUME TypeOK, UNCHANGED <<setting, committed>>, TopicGrows,
         NEW w \in Relays, Turn(w), pc[w] = "publish",
         pc'[w] = pc[w], items'[w] = items[w],
         NEW call, call = Call(items[w]), NEW n \in 0..Len(call),
         sending'[w] \in Seq(committed), Len(sending'[w]) = Len(call) - n,
         \A i \in DOMAIN sending'[w] : sending'[w][i] = call[n + i],
         (w \in failed' => ~setting.lossy) =>
            /\ (w \in failed => ~setting.lossy)
            /\ \A i \in 1..n : i \in 1..Handled(w) \/ Placed(call[i])'
  PROVE  Turn(w)'
<1>0. call = Call(items[w])
  OBVIOUS
<1>1. /\ call \in Seq(committed) /\ Len(call) \in Nat /\ Handled(w) \in Nat
      /\ Handled(w) <= Len(call)
      /\ items[w] # <<>>
      /\ items[w] \in Seq(Events)
  <2>1. Len(sending[w]) \in Nat
    BY DEF TypeOK
  <2> QED
    BY <1>0, <2>1, NextMessage DEF TypeOK
<1>2. Call(items[w])' = call
  BY <1>0 DEF Call
<1>3. n \in 0..Len(call)
  BY <1>0
<1>4. /\ Len(sending'[w]) = Len(call) - n
      /\ \A i \in DOMAIN sending'[w] : sending'[w][i] = call[n + i]
  BY <1>0
<1>5. Handled(w)' = n
  <2>1. PICK m \in Nat : m = Len(call) /\ n \in 0..m
    BY <1>1, <1>3
  <2>2. Handled(w)' = m - (m - n)
    BY <1>2, <1>4, <2>1 DEF Handled
  <2> QED
    BY <2>1, <2>2
<1>6. Shape(w)'
  BY <1>1, <1>2, <1>3, <1>4, <1>5 DEF Shape
<1>7. Listed(items[w])'
  <2>1. \A d \in Events : InTopic(d) => InTopic(d)'
    BY GrowthKeeps
  <2> QED
    BY <2>1 DEF Turn, Listed, Orderly, Lossless, Precedes
<1>8. Sent(w)'
  <2> SUFFICES ASSUME w \in failed' => ~setting.lossy, NEW i \in 1..n
               PROVE  Placed(call[i])'
    BY <1>0, <1>2, <1>5 DEF Sent
  <2>1. CASE i \in 1..Handled(w)
    <3>1. Placed(call[i]) /\ call[i] \in Events
      BY <1>0, <1>1, <2>1 DEF Turn, Sent, TypeOK
    <3>2. PICK e \in Events : e = call[i]
      BY <3>1
    <3>3. Placed(e)'
      BY <3>1, <3>2, GrowthKeeps
    <3> QED
      BY <3>2, <3>3
  <2>2. CASE Placed(Call(items[w])[i])'
    BY <2>2, <1>0, <1>2
  <2> QED
    BY <2>1, <2>2
<1> QED
  BY <1>4, <1>6, <1>7, <1>8 DEF Turn

-----------------------------------------------------------------------------
(* The steps. *)

\* Before the first event there is nothing to list, and the topic is empty.
LEMMA InitHolds == Init => IInv
<1> SUFFICES ASSUME Init PROVE IInv
  OBVIOUS
<1>1. TypeOK
  BY RelayAssumption DEF Init, TypeOK
<1>2. CommittedInTurn
  BY FS_EmptySet DEF Init, CommittedInTurn
<1>3. (\A e \in published : Placed(e)) /\ RecordsInOrder
  BY DEF Init, RecordsInOrder
<1>4. ASSUME NEW w \in Relays PROVE Turn(w)
  <2>1. pc[w] = "poll" /\ items[w] = <<>>
    BY DEF Init
  <2> QED
    BY <2>1 DEF Turn, Shape, Listed, Sent
<1> QED
  BY <1>1, <1>2, <1>3, <1>4 DEF IInv

\* A topic that is left alone has grown by nothing.
LEMMA SameTopicGrows ==
  ASSUME TypeOK, UNCHANGED topic, committed \subseteq committed'
  PROVE  TopicGrows /\ topic' \in [Partitions -> Seq(committed')]
<1>1. \A p \in Partitions : topic[p] \in Seq(committed) /\ topic[p] \in Seq(committed')
  BY DEF TypeOK
<1>2. TopicGrows
  BY <1>1 DEF TopicGrows
<1>3. topic' \in [Partitions -> Seq(committed')]
  BY <1>1 DEF TypeOK
<1> QED
  BY <1>2, <1>3

\* The part of the invariant that no relay holds, when no event is marked.
LEMMA NothingMarked ==
  ASSUME IInv, TopicGrows, UNCHANGED <<setting, published>>
  PROVE  \A e \in published' : Placed(e)'
<1>1. published \subseteq Events /\ TypeOK
  BY DEF IInv, TypeOK
<1>2. ASSUME NEW e \in published' PROVE Placed(e)'
  <2>1. e \in Events /\ Placed(e)
    BY <1>1, <1>2 DEF IInv
  <2> QED
    BY <1>1, <2>1, GrowthKeeps
<1> QED
  BY <1>2

\* One more committed event changes neither the topic nor what the relays hold.
LEMMA CommitKeeps ==
  ASSUME IInv, NEW e \in Events, Commit(e)
  PROVE  IInv'
<1>1. TypeOK /\ committed' = committed \cup {e} /\ TopicGrows /\ topic' \in [Partitions -> Seq(committed')]
  BY SameTopicGrows DEF IInv, Commit
<1>2. TypeOK'
  <2>1. Seq(committed) \subseteq Seq(committed')
    BY <1>1
  <2>2. items' \in [Relays -> Seq(committed')] /\ sending' \in [Relays -> Seq(committed')]
    BY <2>1 DEF IInv, TypeOK, Commit
  <2> QED
    BY <1>1, <2>2 DEF TypeOK, Commit
<1>3. CommittedInTurn'
  <2>1. IsFiniteSet(committed')
    BY <1>1, FS_AddElement DEF IInv, CommittedInTurn
  <2>2. ASSUME NEW c \in committed', NEW d \in Events, d < c, RecordOf[d] = RecordOf[c]
        PROVE  d \in committed'
    BY <2>2, <1>1 DEF IInv, CommittedInTurn, Commit
  <2> QED
    BY <2>1, <2>2 DEF CommittedInTurn
<1>4. \A d \in published' : Placed(d)'
  BY <1>1, NothingMarked DEF Commit
<1>5. RecordsInOrder'
  BY DEF IInv, RecordsInOrder, Lossless, Precedes, Commit
<1>6. \A w \in Relays : Turn(w)'
  BY <1>1, IdleKeepsTurn DEF IInv, Commit
<1> QED
  BY <1>2, <1>3, <1>4, <1>5, <1>6 DEF IInv

\* A step that leaves the topic and the marks alone.
LEMMA QuietStep ==
  ASSUME IInv, UNCHANGED <<setting, committed, published, topic>>
  PROVE  /\ TypeOK /\ TopicGrows
         /\ CommittedInTurn' /\ RecordsInOrder' /\ \A e \in published' : Placed(e)'
         /\ \A list \in Seq(Events) : Listed(list) => Listed(list)'
<1>1. TypeOK /\ TopicGrows
  BY SameTopicGrows DEF IInv
<1>2. CommittedInTurn' /\ RecordsInOrder'
  BY DEF IInv, CommittedInTurn, RecordsInOrder, Lossless, Precedes
<1> QED
  BY <1>1, <1>2, NothingMarked, GrowthKeeps

\* A poll leaves the relay with committed events in the order they are listed in.
LEMMA ListKeeps ==
  ASSUME IInv, NEW w \in Relays, List(w)
  PROVE  IInv'
<1>1. PICK list \in Pending : list # <<>> /\ Start(w, list)
  BY DEF List
<1>2. UNCHANGED <<setting, committed, published, lastError, topic, faults>>
  BY DEF List
<1>3. list \in Seq(committed) /\ list \in Seq(Events) /\ Listed(list)
  <2>1. list \in Seq(committed) /\ Listed(list) /\ committed \subseteq Events
    BY PendingListed DEF IInv, TypeOK
  <2> QED
    BY <2>1
<1>4. Listed(list)' /\ TypeOK /\ TopicGrows
  BY <1>2, <1>3, QuietStep
<1>5. Turn(w)' /\ TypeOK'
  BY <1>1, <1>2, <1>3, <1>4, StartTakesTurn DEF TypeOK
<1>6. ASSUME NEW v \in Relays \ {w} PROVE Turn(v)'
  BY <1>1, <1>2, <1>3, <1>4, StartTakesTurn, IdleKeepsTurn DEF IInv
<1> QED
  BY <1>2, <1>5, <1>6, QuietStep DEF IInv

\* A message reaches the topic, with or without an acknowledgement.
LEMMA SendKeeps ==
  ASSUME IInv, NEW w \in Relays, pc[w] = "publish", sending[w] # <<>>,
         \/ setting.lossy /\ UNCHANGED topic /\ failed' = failed \cup {w}
         \/ Appended(Head(sending[w])) /\ failed' \in {failed, failed \cup {w}},
         sending' = [sending EXCEPT ![w] = Tail(@)],
         faults' \in 0..MaxFaults,
         UNCHANGED <<setting, committed, published, lastError, pc, items>>
  PROVE  IInv'
<1>0. PICK call, rest, next, h :
        call = Call(items[w]) /\ rest = sending[w] /\ next = Head(sending[w]) /\ h = Handled(w)
  OBVIOUS
<1> DEFINE good == w \in failed => ~setting.lossy
<1>1. TypeOK /\ Turn(w)
  BY DEF IInv
<1>2. /\ items[w] \in Seq(committed) /\ items[w] # <<>>
      /\ call \in Seq(committed) /\ call # <<>>
      /\ h \in Nat /\ Len(rest) = Len(call) - h /\ rest # <<>>
      /\ next = call[h + 1] /\ next \in committed
      /\ Orderly /\ good => \A d \in Events : Precedes(d, next) => InTopic(d)
  BY <1>0, <1>1, NextMessage
<1>3. /\ TopicGrows /\ topic' \in [Partitions -> Seq(committed)]
  BY <1>0, <1>1, <1>2, AppendGrows, SameTopicGrows
<1>4. RecordsInOrder'
  <2>1. CASE Appended(next)
    BY <1>1, <1>2, <2>1, AppendKeepsOrder DEF IInv, Orderly, Lossless
  <2>2. CASE UNCHANGED topic
    BY <2>2 DEF IInv, RecordsInOrder, Lossless, Precedes
  <2> QED
    BY <1>0, <2>1, <2>2
<1>5. (w \in failed' => ~setting.lossy) => good /\ Placed(next)'
  <2> SUFFICES ASSUME w \in failed' => ~setting.lossy
               PROVE  good /\ Placed(next)'
    OBVIOUS
  <2>1. good /\ Appended(next)
    BY <1>0
  <2> QED
    BY <1>1, <1>2, <2>1, AppendedBehind
<1>6. Turn(w)' /\ sending'[w] \in Seq(committed)
  <2>1. /\ rest \in Seq(committed) /\ rest # <<>>
        /\ sending'[w] = Tail(rest)
        /\ pc'[w] = pc[w] /\ items'[w] = items[w]
    BY <1>0, <1>1, <1>2 DEF TypeOK
  <2>2. /\ Tail(rest) \in Seq(committed)
        /\ Len(rest) \in Nat \ {0} /\ Len(Tail(rest)) = Len(rest) - 1
        /\ DOMAIN Tail(rest) = 1..(Len(rest) - 1)
        /\ \A i \in DOMAIN Tail(rest) : Tail(rest)[i] = rest[i + 1] /\ i + 1 \in DOMAIN rest
    BY <2>1
  <2>3. PICK m \in Nat, k \in Nat : m = Len(call) /\ k = Len(rest)
    BY <1>2, <2>2
  <2>4. h + 1 \in 0..Len(call) /\ Len(Tail(rest)) = Len(call) - (h + 1)
    BY <1>2, <2>2, <2>3
  <2>5. ASSUME NEW i \in 1..(k - 1)
        PROVE  Tail(rest)[i] = call[(h + 1) + i]
    <3>1. rest[i + 1] = call[h + (i + 1)]
      BY <1>0, <1>1, <2>2, <2>3 DEF Turn, Shape
    <3>2. h + (i + 1) = (h + 1) + i
      BY <1>2, <2>3
    <3> QED
      BY <2>2, <2>3, <3>1, <3>2
  <2>6. \A i \in 1..(h + 1) : i \in 1..h \/ i = h + 1
    BY <1>2
  <2>7. (w \in failed' => ~setting.lossy) =>
          good /\ \A i \in 1..(h + 1) : i \in 1..h \/ Placed(call[i])'
    BY <1>2, <1>5, <2>6
  <2> HIDE DEF good
  <2>8. PICK n : n = h + 1
    OBVIOUS
  <2>9. \A i \in DOMAIN sending'[w] : sending'[w][i] = call[n + i]
    BY <2>1, <2>2, <2>3, <2>5, <2>8
  <2>10. /\ n \in 0..Len(call) /\ sending'[w] \in Seq(committed)
         /\ Len(sending'[w]) = Len(call) - n
    BY <2>1, <2>2, <2>4, <2>8
  <2>11. (w \in failed' => ~setting.lossy) =>
            /\ (w \in failed => ~setting.lossy)
            /\ \A i \in 1..n : i \in 1..Handled(w) \/ Placed(call[i])'
    BY <1>0, <2>7, <2>8 DEF good
  <2>12. Turn(w)'
    <3>1. TypeOK /\ UNCHANGED <<setting, committed>> /\ TopicGrows /\ Turn(w) /\ pc[w] = "publish"
      BY <1>1, <1>3
    <3>2. pc'[w] = pc[w] /\ items'[w] = items[w] /\ call = Call(items[w]) /\ n \in 0..Len(call)
      BY <1>0, <2>1, <2>10
    <3>3. sending'[w] \in Seq(committed) /\ Len(sending'[w]) = Len(call) - n
      BY <2>10
    <3> HIDE DEF good
    <3> QED
      BY ONLY <3>1, <3>2, <3>3, <2>9, <2>11, w \in Relays, PublishingKeepsTurn
  <2> QED
    BY <2>10, <2>12
<1>7. \A v \in Relays \ {w} : Turn(v)'
  BY <1>1, <1>3, IdleKeepsTurn DEF IInv, TypeOK
<1>8. TypeOK'
  BY <1>1, <1>3, <1>6 DEF TypeOK
<1>9. CommittedInTurn' /\ \A e \in published' : Placed(e)'
  BY <1>3, NothingMarked DEF IInv, CommittedInTurn
<1> QED
  BY <1>4, <1>6, <1>7, <1>8, <1>9 DEF IInv

\* A step that spends a fault leaves a number of them.
LEMMA FaultCounted ==
  ASSUME TypeOK, Fault
  PROVE  faults' \in 0..MaxFaults
BY RelayAssumption DEF TypeOK, Fault

\* A message more, or a call that fails instead, keeps what is known of the relay.
LEMMA WriteKeeps ==
  ASSUME IInv, NEW w \in Relays, Write(w) \/ WriteError(w)
  PROVE  IInv'
<1>1. TypeOK
  BY DEF IInv
<1>2. CASE Write(w)
  BY <1>1, <1>2, SendKeeps DEF Write, TypeOK
<1>3. CASE WriteError(w)
  BY <1>1, <1>3, SendKeeps, FaultCounted DEF WriteError
<1> QED
  BY <1>2, <1>3

\* The writer goes back in its call.
LEMMA WriteAgainKeeps ==
  ASSUME IInv, NEW w \in Relays, WriteAgain(w)
  PROVE  IInv'
<1>1. /\ TypeOK /\ Turn(w) /\ pc[w] = "publish"
      /\ UNCHANGED <<setting, committed, published, lastError, topic, pc, items, failed>>
      /\ faults' \in 0..MaxFaults
  BY FaultCounted DEF IInv, WriteAgain
<1>2. PICK call, rest, h : call = Call(items[w]) /\ rest = sending[w] /\ h = Handled(w)
  OBVIOUS
<1>3. call \in Seq(committed) /\ h \in Nat /\ Len(rest) = Len(call) - h /\ rest \in Seq(committed)
  BY <1>1, <1>2, NextMessage DEF TypeOK
<1>4. PICK m \in Nat, k \in Nat : m = Len(call) /\ k = Len(rest) /\ k = m - h
  BY <1>3
<1>5. PICK i \in 1..h : sending' = [sending EXCEPT ![w] = SubSeq(call, i, m)]
  <2>1. m - k = h
    BY <1>3, <1>4
  <2> QED
    BY <1>2, <1>4, <2>1 DEF WriteAgain
<1>6. PICK n \in 0..m : n + 1 = i /\ n \in 0..h /\ i \in Nat
  <2>1. i - 1 \in 0..m /\ (i - 1) + 1 = i /\ i - 1 \in 0..h /\ i \in Nat
    BY <1>3, <1>4
  <2> QED
    BY <2>1
<1>7. /\ sending'[w] \in Seq(committed) /\ Len(sending'[w]) = m - n
      /\ \A j \in DOMAIN sending'[w] : sending'[w][j] = call[n + j]
  <2>1. \A j \in i..m : call[j] \in committed
    BY <1>3, <1>4, <1>6
  <2>2. /\ SubSeq(call, i, m) \in Seq(committed)
        /\ Len(SubSeq(call, i, m)) = IF i <= m THEN m - i + 1 ELSE 0
        /\ \A j \in 1..(m - i + 1) : SubSeq(call, i, m)[j] = call[i + j - 1]
    BY <1>6, <2>1, SubSeqProperties
  <2>3. /\ (IF i <= m THEN m - i + 1 ELSE 0) = m - n
        /\ m - i + 1 = m - n
        /\ \A j \in 1..(m - n) : i + j - 1 = n + j
    BY <1>4, <1>6
  <2>4. sending'[w] = SubSeq(call, i, m)
    BY <1>1, <1>5 DEF TypeOK
  <2>5. DOMAIN SubSeq(call, i, m) = 1..(m - n)
    BY <2>2, <2>3
  <2> QED
    BY <2>2, <2>3, <2>4, <2>5
<1>8. TypeOK /\ TopicGrows
  BY <1>1, QuietStep
<1>9. Turn(w)'
  <2>1. \A j \in 1..n : j \in 1..h
    BY <1>3, <1>6
  <2>2. (w \in failed' => ~setting.lossy) =>
          /\ (w \in failed => ~setting.lossy)
          /\ \A j \in 1..n : j \in 1..Handled(w) \/ Placed(call[j])'
    BY <1>1, <1>2, <2>1
  <2>3. pc'[w] = pc[w] /\ items'[w] = items[w] /\ UNCHANGED <<setting, committed>>
    BY <1>1
  <2> QED
    BY ONLY <1>1, <1>2, <1>4, <1>7, <1>8, <2>2, <2>3, w \in Relays, PublishingKeepsTurn
<1>10. \A v \in Relays \ {w} : Turn(v)'
  BY <1>1, <1>5, <1>8, IdleKeepsTurn DEF IInv, TypeOK
<1>11. TypeOK'
  BY <1>1, <1>5, <1>7 DEF TypeOK
<1> QED
  BY <1>1, <1>9, <1>10, <1>11, QuietStep DEF IInv

\* Nothing went wrong, or nothing is marked: what the call reports is so.
LEMMA WrittenKeeps ==
  ASSUME IInv, NEW w \in Relays, Written(w)
  PROVE  IInv'
<1>1. /\ TypeOK /\ Turn(w) /\ pc[w] = "publish" /\ sending[w] = <<>>
      /\ UNCHANGED <<setting, committed, published, lastError, topic, items, failed, faults>>
  BY DEF IInv, Written
<1>2. PICK call, h : call = Call(items[w]) /\ h = Handled(w)
  OBVIOUS
<1>3. call \in Seq(committed) /\ call # <<>> /\ h = Len(call) /\ items[w] # <<>>
  <2>1. h \in Nat /\ 0 = Len(call) - h /\ call \in Seq(committed) /\ call # <<>> /\ items[w] # <<>>
    BY <1>1, <1>2, NextMessage
  <2>2. PICK m \in Nat : m = Len(call)
    BY <2>1
  <2> QED
    BY <2>1, <2>2
<1>4. /\ pc'[w] = IF w \in failed THEN "fail" ELSE "mark"
      /\ sending'[w] = call /\ Call(items[w])' = call
      /\ pc' \in [Relays -> {"poll", "publish", "mark", "fail", "down"}]
      /\ sending' \in [Relays -> Seq(committed)]
      /\ \A v \in Relays \ {w} : pc'[v] = pc[v] /\ sending'[v] = sending[v]
  <2>1. Call(items[w])' = call
    BY <1>1, <1>2 DEF Call
  <2> QED
    BY <1>1, <1>2, <1>3, <2>1 DEF Written, TypeOK
<1>5. TypeOK /\ TopicGrows
  BY <1>1, QuietStep
<1>6. ASSUME w \in failed => ~setting.lossy, NEW i \in DOMAIN call
      PROVE  Placed(call[i])'
  <2>1. i \in 1..h /\ call[i] \in Events
    BY <1>1, <1>3, <1>6 DEF TypeOK
  <2>2. Placed(call[i])
    BY <1>1, <1>2, <1>6, <2>1 DEF Turn, Sent
  <2> QED
    BY <1>1, <1>5, <2>1, <2>2, GrowthKeeps
<1>7. Turn(w)'
  <2>1. Shape(w)'
    BY <1>1, <1>3, <1>4 DEF Shape
  <2>2. Listed(items[w])'
    BY <1>1 DEF Turn, Listed, Orderly, Lossless, Precedes, InTopic, Log
  <2>3. Sent(w)'
    BY <1>1, <1>4, <1>6 DEF Sent
  <2> QED
    BY <2>1, <2>2, <2>3 DEF Turn
<1>8. \A v \in Relays \ {w} : Turn(v)'
  BY <1>1, <1>4, <1>5, IdleKeepsTurn DEF IInv
<1>9. TypeOK'
  BY <1>1, <1>4 DEF TypeOK
<1> QED
  BY <1>1, <1>7, <1>8, <1>9, QuietStep DEF IInv

\* The relay goes on with the rest of its list, which is as good as the list was.
LEMMA NextCall ==
  ASSUME IInv, UNCHANGED <<setting, committed, topic>>, NEW w \in Relays,
         pc[w] \in {"mark", "fail"}, Start(w, AfterCall(items[w]))
  PROVE  /\ \A v \in Relays : Turn(v)'
         /\ pc' \in [Relays -> {"poll", "publish", "mark", "fail", "down"}]
         /\ items' \in [Relays -> Seq(committed)]
         /\ sending' \in [Relays -> Seq(committed)]
         /\ failed' \subseteq Relays
<1>1. TypeOK /\ Turn(w) /\ TopicGrows
  BY SameTopicGrows DEF IInv
<1>2. items[w] \in Seq(committed) /\ items[w] # <<>> /\ committed \subseteq Events
  BY <1>1 DEF Turn, Shape, TypeOK
<1>3. PICK list, rest : list = items[w] /\ rest = AfterCall(items[w])
  OBVIOUS
<1>4. rest \in Seq(committed) /\ rest \in Seq(Events)
  <2>1. rest \in Seq(committed)
    BY <1>1, <1>2, <1>3, CallOfList
  <2> QED
    BY <1>2, <2>1
<1>5. ASSUME Orderly, ~setting.batched, NEW i \in DOMAIN Call(list)
      PROVE  InTopic(Call(list)[i])
  <2>1. ~setting.lossy /\ setting.rejected = {}
    BY <1>5 DEF Orderly, Lossless
  <2> QED
    BY <1>1, <1>3, <1>5, <2>1 DEF Turn, Sent, Placed
<1>6. Listed(rest)
  <2>1. Listed(list)
    BY <1>1, <1>3 DEF Turn
  <2> QED
    BY <1>1, <1>2, <1>3, <1>5, <2>1, RestListed
<1>7. Listed(rest)'
  BY <1>1, <1>4, <1>6, GrowthKeeps
<1>8. Start(w, rest)
  BY <1>3
<1>9. /\ Turn(w)'
      /\ pc' \in [Relays -> {"poll", "publish", "mark", "fail", "down"}]
      /\ items' \in [Relays -> Seq(committed)]
      /\ sending' \in [Relays -> Seq(committed)]
      /\ failed' \subseteq Relays
      /\ \A v \in Relays \ {w} :
           /\ pc'[v] = pc[v] /\ items'[v] = items[v] /\ sending'[v] = sending[v]
           /\ (v \in failed') <=> (v \in failed)
  BY <1>1, <1>4, <1>7, <1>8, StartTakesTurn
<1>10. \A v \in Relays \ {w} : Turn(v)'
  BY <1>1, <1>9, IdleKeepsTurn DEF IInv
<1> QED
  BY <1>9, <1>10

\* Only events of a call that went well are marked, all of them or some.
LEMMA MarkKeeps ==
  ASSUME IInv, NEW w \in Relays, Mark(w) \/ MarkError(w)
  PROVE  IInv'
<1>1. /\ TypeOK /\ Turn(w) /\ pc[w] = "mark"
      /\ Start(w, AfterCall(items[w]))
      /\ UNCHANGED <<setting, committed, topic>>
      /\ faults' \in 0..MaxFaults
  <2>1. TypeOK /\ Turn(w)
    BY DEF IInv
  <2>2. CASE Mark(w)
    BY <2>1, <2>2 DEF Mark, TypeOK
  <2>3. CASE MarkError(w)
    BY <2>1, <2>3, FaultCounted DEF MarkError
  <2> QED
    BY <2>2, <2>3
<1>2. PICK marked \in SUBSET Marks(items[w]) : Marked(marked)
  BY DEF Mark, MarkError
<1>3. TopicGrows
  BY <1>1, SameTopicGrows
<1>4. ASSUME NEW e \in marked
      PROVE  e \in committed /\ Placed(e)
  <2>1. PICK i \in DOMAIN Call(items[w]) : e = Call(items[w])[i]
    BY <1>2 DEF Marks, ToSet
  <2>2. Call(items[w]) \in Seq(committed)
    BY <1>1, CallOfList DEF Turn, Shape, TypeOK
  <2> QED
    BY <1>1, <2>1, <2>2 DEF Turn, Sent
<1>5. \A e \in published' : Placed(e)'
  <2>1. \A e \in published' : e \in Events /\ Placed(e)
    BY <1>1, <1>2, <1>4 DEF IInv, TypeOK, Marked
  <2> QED
    BY <1>1, <1>3, <2>1, GrowthKeeps
<1>6. CommittedInTurn' /\ RecordsInOrder'
  BY <1>1 DEF IInv, CommittedInTurn, RecordsInOrder, Lossless, Precedes
<1>7. TypeOK'
  <2>1. published' \subseteq committed /\ lastError' \subseteq committed
    BY <1>1, <1>2, <1>4 DEF TypeOK, Marked
  <2> QED
    BY <1>1, <2>1, NextCall DEF TypeOK
<1> QED
  BY <1>1, <1>5, <1>6, <1>7, NextCall DEF IInv

\* Marking an event failed publishes nothing and marks nothing published.
LEMMA MarkFailedKeeps ==
  ASSUME IInv, NEW w \in Relays, MarkFailed(w)
  PROVE  IInv'
<1>1. /\ TypeOK /\ Turn(w) /\ pc[w] = "fail"
      /\ sending[w] # <<>> /\ sending[w] \in Seq(committed)
      /\ UNCHANGED <<setting, committed, published, topic>>
  BY DEF IInv, MarkFailed, Turn, Shape, TypeOK
<1>2. lastError' \subseteq committed /\ faults' \in 0..MaxFaults
  <2>1. Head(sending[w]) \in committed
    BY <1>1
  <2>2. (lastError' = lastError \cup {Head(sending[w])} \/ lastError' = lastError)
        /\ (faults' = faults \/ Fault)
    BY DEF MarkFailed
  <2> QED
    BY <1>1, <2>1, <2>2, FaultCounted DEF TypeOK
<1>3. CASE Start(w, AfterCall(items[w]))
  <2>1. TypeOK'
    BY <1>1, <1>2, <1>3, NextCall DEF TypeOK
  <2> QED
    BY <1>1, <1>3, <2>1, NextCall, QuietStep DEF IInv
<1>4. CASE /\ Len(sending[w]) # 1
           /\ sending' = [sending EXCEPT ![w] = Tail(@)]
           /\ UNCHANGED <<setting, pc, items, failed>>
  <2>1. PICK rest : rest = sending[w]
    OBVIOUS
  <2>2. Tail(rest) \in Seq(committed) /\ Tail(rest) # <<>>
    <3>1. Len(rest) \in Nat \ {0} /\ Len(rest) # 1
      BY <1>1, <1>4, <2>1
    <3>2. Len(Tail(rest)) = Len(rest) - 1 /\ Tail(rest) \in Seq(committed)
      BY <1>1, <2>1
    <3> QED
      BY <3>1, <3>2
  <2>3. sending'[w] = Tail(rest) /\ sending' \in [Relays -> Seq(committed)]
        /\ \A v \in Relays \ {w} : sending'[v] = sending[v]
    BY <1>1, <1>4, <2>1, <2>2 DEF TypeOK
  <2>4. TopicGrows
    BY <1>1, QuietStep
  <2>5. Turn(w)'
    <3>1. Shape(w)'
      BY <1>1, <1>4, <2>2, <2>3 DEF Turn, Shape
    <3>2. Listed(items[w])'
      BY <1>1, <1>4 DEF Turn, Listed, Orderly, Lossless, Precedes, InTopic, Log
    <3>3. Call(items[w])' = Call(items[w])
      BY <1>1, <1>4 DEF Call
    <3>4. Sent(w)'
      BY <1>1, <1>4, <3>3 DEF Turn, Sent, Placed, InTopic, Behind, Log, Precedes
    <3> QED
      BY <3>1, <3>2, <3>4 DEF Turn
  <2>6. \A v \in Relays \ {w} : Turn(v)'
    BY <1>1, <1>4, <2>3, <2>4, IdleKeepsTurn DEF IInv
  <2>7. TypeOK'
    BY <1>1, <1>2, <1>4, <2>3 DEF TypeOK
  <2> QED
    BY <1>1, <2>5, <2>6, <2>7, QuietStep DEF IInv
<1> QED
  BY <1>3, <1>4 DEF MarkFailed

\* What a relay forgets when it dies, it owes to nobody: the events are listed again.
LEMMA CrashKeeps ==
  ASSUME IInv, NEW w \in Relays, Crash(w) \/ Restart(w)
  PROVE  IInv'
<1>1. /\ TypeOK /\ Turn(w)
      /\ UNCHANGED <<setting, committed, published, lastError, topic>>
      /\ pc' \in [Relays -> {"poll", "publish", "mark", "fail", "down"}]
      /\ pc'[w] \in {"poll", "down"}
      /\ \A v \in Relays \ {w} :
           /\ pc'[v] = pc[v] /\ items'[v] = items[v] /\ sending'[v] = sending[v]
           /\ (v \in failed') <=> (v \in failed)
  BY DEF IInv, TypeOK, Crash, Restart
<1>2. /\ items'[w] \in {<<>>, items[w]}
      /\ items' \in [Relays -> Seq(committed)]
      /\ sending' \in [Relays -> Seq(committed)]
      /\ failed' \subseteq Relays
  <2>1. CASE Crash(w)
    <3>1. /\ items \in [Relays -> Seq(committed)] /\ sending \in [Relays -> Seq(committed)]
          /\ failed \subseteq Relays /\ <<>> \in Seq(committed)
      BY <1>1 DEF TypeOK
    <3> QED
      BY <2>1, <3>1 DEF Crash
  <2>2. CASE Restart(w)
    BY <1>1, <2>2 DEF TypeOK, Restart
  <2> QED
    BY <2>1, <2>2
<1>3. faults' \in 0..MaxFaults
  BY <1>1, FaultCounted DEF TypeOK, Crash, Restart
<1>4. TopicGrows
  BY <1>1, QuietStep
<1>5. Turn(w)'
  <2>1. Shape(w)' /\ Sent(w)'
    BY <1>1 DEF Shape, Sent
  <2>2. ASSUME items'[w] = <<>> PROVE Listed(items[w])'
    BY <2>2 DEF Listed
  <2>3. ASSUME items'[w] = items[w] PROVE Listed(items[w])'
    BY <1>1, <2>3 DEF Turn, Listed, Orderly, Lossless, Precedes, InTopic, Log
  <2> QED
    BY <1>2, <2>1, <2>2, <2>3 DEF Turn
<1>6. \A v \in Relays \ {w} : Turn(v)'
  BY <1>1, <1>4, IdleKeepsTurn DEF IInv
<1>7. TypeOK'
  BY <1>1, <1>2, <1>3 DEF TypeOK
<1> QED
  BY <1>1, <1>5, <1>6, <1>7, QuietStep DEF IInv

\* Every step keeps the invariant.
LEMMA NextKeeps == IInv /\ [Next]_vars => IInv'
<1> SUFFICES ASSUME IInv, [Next]_vars PROVE IInv'
  OBVIOUS
<1>1. ASSUME NEW e \in Events, Commit(e) PROVE IInv'
  BY <1>1, CommitKeeps
<1>2. ASSUME NEW w \in Relays, Run(w) PROVE IInv'
  BY <1>2, ListKeeps, WriteKeeps, WrittenKeeps, MarkKeeps, MarkFailedKeeps, CrashKeeps DEF Run
<1>3. ASSUME NEW w \in Relays, WriteAgain(w) PROVE IInv'
  BY <1>3, WriteAgainKeeps
<1>4. ASSUME NEW w \in Relays, WriteError(w) \/ MarkError(w) \/ Crash(w) PROVE IInv'
  BY <1>4, WriteKeeps, MarkKeeps, CrashKeeps
<1>5. CASE UNCHANGED vars
  <2>1. UNCHANGED <<setting, committed, published, topic>>
    BY <1>5 DEF vars
  <2>2. TypeOK'
    BY <1>5 DEF IInv, TypeOK, vars
  <2>3. \A v \in Relays : Turn(v)'
    BY <1>5, <2>1, QuietStep, IdleKeepsTurn DEF IInv, vars
  <2> QED
    BY <2>1, <2>2, <2>3, QuietStep DEF IInv
<1> QED
  BY <1>1, <1>2, <1>3, <1>4, <1>5 DEF Next

\* The invariant holds always.
LEMMA Invariance == Spec => []IInv
BY InitHolds, NextKeeps, PTL DEF Spec

\* What every step does to the outbox and the topic: it accepts an event, or sends
\* one behind those that precede it, or marks some that are in the topic, or none
\* of these.
LEMMA EachStep ==
  ASSUME IInv, [Next]_vars
  PROVE  \/ \E e \in Events : /\ e \notin committed
                             /\ committed' = committed \cup {e}
                             /\ UNCHANGED <<setting, published, topic>>
         \/ \E e \in committed :
              /\ Lossless => \A d \in Events : Precedes(d, e) => InTopic(d)
              /\ Appended(e)
              /\ UNCHANGED <<setting, committed, published>>
         \/ \E marked \in SUBSET committed :
              /\ \A e \in marked : InTopic(e)
              /\ published' = published \cup marked
              /\ UNCHANGED <<setting, committed, topic>>
         \/ UNCHANGED <<setting, committed, published, topic>>
<1>1. ASSUME NEW e \in Events, Commit(e)
      PROVE  /\ e \notin committed
             /\ committed' = committed \cup {e}
             /\ UNCHANGED <<setting, published, topic>>
  BY <1>1 DEF Commit
<1>2. ASSUME NEW w \in Relays, Write(w) \/ WriteError(w)
      PROVE  \/ UNCHANGED <<setting, committed, published, topic>>
             \/ \E e \in committed :
                  /\ Lossless => \A d \in Events : Precedes(d, e) => InTopic(d)
                  /\ Appended(e)
                  /\ UNCHANGED <<setting, committed, published>>
  <2>1. /\ TypeOK /\ Turn(w) /\ pc[w] = "publish" /\ sending[w] # <<>>
        /\ UNCHANGED <<setting, committed, published>>
        /\ UNCHANGED topic \/ Appended(Head(sending[w]))
    BY <1>2 DEF IInv, Write, WriteError
  <2>2. PICK e : e = Head(sending[w])
    OBVIOUS
  <2>3. e \in committed /\ (Lossless => \A d \in Events : Precedes(d, e) => InTopic(d))
    BY <2>1, <2>2, NextMessage DEF Orderly, Lossless
  <2> QED
    BY <2>1, <2>2, <2>3
<1>3. ASSUME NEW w \in Relays, Mark(w) \/ MarkError(w)
      PROVE  \E marked \in SUBSET committed :
               /\ \A e \in marked : InTopic(e)
               /\ published' = published \cup marked
               /\ UNCHANGED <<setting, committed, topic>>
  <2>1. /\ TypeOK /\ Turn(w) /\ pc[w] = "mark"
        /\ UNCHANGED <<setting, committed, topic>>
    BY <1>3 DEF IInv, Mark, MarkError
  <2>2. PICK marked \in SUBSET Marks(items[w]) : published' = published \cup marked
    BY <1>3 DEF Mark, MarkError, Marked
  <2>3. Call(items[w]) \in Seq(committed)
    BY <2>1, CallOfList DEF Turn, Shape, TypeOK
  <2>4. \A e \in marked : e \in committed /\ InTopic(e)
    BY <2>1, <2>2, <2>3 DEF Turn, Sent, Placed, Marks, ToSet
  <2> QED
    BY <2>1, <2>2, <2>4
<1>4. ASSUME NEW w \in Relays,
             \/ List(w) \/ WriteAgain(w) \/ Written(w)
             \/ MarkFailed(w) \/ Crash(w) \/ Restart(w)
      PROVE  UNCHANGED <<setting, committed, published, topic>>
  BY <1>4 DEF List, WriteAgain, Written, MarkFailed, Crash, Restart
<1>5. CASE UNCHANGED vars
  BY <1>5 DEF vars
<1>6. ASSUME NEW w \in Relays, Run(w) \/ WriteAgain(w) \/ WriteError(w) \/ MarkError(w) \/ Crash(w)
      PROVE  \/ Write(w) \/ WriteError(w) \/ Mark(w) \/ MarkError(w)
             \/ List(w) \/ WriteAgain(w) \/ Written(w)
             \/ MarkFailed(w) \/ Crash(w) \/ Restart(w)
  BY <1>6 DEF Run
<1> QED
  BY <1>1, <1>2, <1>3, <1>4, <1>5, <1>6 DEF Next

-----------------------------------------------------------------------------
(* The theorems. *)

\* The relays keep to their types: among others, only committed events are listed,
\* sent and marked.
THEOREM TypeCorrect == Spec => []TypeOK
BY Invariance, PTL DEF IInv

\* No event is marked as published that is not in the topic, for any number of
\* relays, crashes, lost acknowledgements and failed updates.
THEOREM PublishedAlwaysInTopic == Spec => []PublishedInTopic
<1>1. IInv => PublishedInTopic
  BY DEF IInv, Placed, PublishedInTopic
<1> QED
  BY <1>1, Invariance, PTL

\* Where no message is left out, every message of the topic, also a repeated one,
\* comes behind the events that precede it.
THEOREM RecordsAlwaysInOrder == Spec => []RecordsInOrder
BY Invariance, PTL DEF IInv

\* Where calls lose messages, the batches repair the order: what is marked is in
\* the topic behind the events that precede it.
THEOREM PublishedAlwaysInOrder == Spec => []PublishedInOrder
<1>1. IInv => PublishedInOrder
  BY DEF IInv, Placed, Behind, PublishedInOrder
<1> QED
  BY <1>1, Invariance, PTL
=============================================================================
