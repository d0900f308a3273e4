---------------------- MODULE ParallelProcessorProofs ----------------------
(***************************************************************************)
(* Theorems of ParallelProcessor, for any pool, input, partition size and  *)
(* concurrency: nothing is lost (NoPartitionLost), the types, what it      *)
(* promises (ImplementsParallelMap), and where resets bring the sizes of   *)
(* its pool (AdjustSizeReaches).                                           *)
(***************************************************************************)
EXTENDS ParallelProcessor, FiniteSetTheorems, WellFoundedInduction, TLAPS

LEMMA CountType ==
    ASSUME size \in Nat, partitionSize \in Nat \ {0}
    PROVE  /\ Count \in Nat
           /\ size = 0 => Count = 0
  BY DEF Count

LEMMA SetOfAppend ==
    ASSUME NEW S, NEW s \in Seq(S), NEW e \in S
    PROVE  /\ Append(s, e) \in Seq(S)
           /\ ToSet(Append(s, e)) = ToSet(s) \cup {e}
<1>1. /\ Append(s, e) \in Seq(S)
      /\ Len(Append(s, e)) = Len(s) + 1
      /\ \A i \in 1..Len(s) : Append(s, e)[i] = s[i]
      /\ Append(s, e)[Len(s) + 1] = e
  OBVIOUS
<1>2. DOMAIN s = 1..Len(s) /\ DOMAIN Append(s, e) = 1..(Len(s) + 1) /\ Len(s) \in Nat
  BY <1>1
<1>3. \A x : x \in ToSet(Append(s, e)) <=> x \in ToSet(s) \/ x = e
  BY <1>1, <1>2 DEF ToSet
<1> QED
  BY <1>1, <1>3

LEMMA SetOfTail ==
    ASSUME NEW S, NEW s \in Seq(S), s # <<>>
    PROVE  /\ Tail(s) \in Seq(S) /\ Head(s) \in S
           /\ ToSet(s) = ToSet(Tail(s)) \cup {Head(s)}
<1>1. /\ Tail(s) \in Seq(S) /\ Len(Tail(s)) = Len(s) - 1 /\ Len(s) \in Nat \ {0}
      /\ Head(s) = s[1] /\ Head(s) \in S
      /\ \A i \in 1..Len(s) - 1 : Tail(s)[i] = s[i + 1]
  OBVIOUS
<1>2. DOMAIN s = 1..Len(s) /\ DOMAIN Tail(s) = 1..(Len(s) - 1)
  BY <1>1
<1>3. ASSUME NEW i \in 1..Len(s), i # 1
      PROVE  s[i] \in ToSet(Tail(s))
  <2>1. i - 1 \in 1..Len(s) - 1 /\ Tail(s)[i - 1] = s[i]
    BY <1>1, <1>3
  <2> QED
    BY <2>1, <1>2 DEF ToSet
<1>4. \A x : x \in ToSet(s) <=> x \in ToSet(Tail(s)) \/ x = Head(s)
  BY <1>1, <1>2, <1>3 DEF ToSet
<1> QED
  BY <1>1, <1>4

(* Division is multiplication by the quotient. *)
LEMMA Quotient ==
    ASSUME NEW a \in Nat, NEW b \in Nat \ {0}, NEW q \in Nat
    PROVE  q = a \div b <=> q * b <= a /\ a < (q + 1) * b
<1>1. a \div b \in Nat /\ b * (a \div b) <= a /\ a < b * ((a \div b) + 1)
  OBVIOUS
<1> QED
  BY <1>1

(* The items of a partition are a piece of the input. *)
LEMMA PartitionPiece ==
    ASSUME partitionSize \in Nat \ {0}, NEW i \in Nat \ {0}, NEW p \in Nat \ {0}
    PROVE  PartitionOf(i) = p <=> (p - 1) * partitionSize < i /\ i <= p * partitionSize
<1> DEFINE a == i + partitionSize - 1
<1>1. a \in Nat
  OBVIOUS
<1>2. p = PartitionOf(i) <=> p * partitionSize <= a /\ a < (p + 1) * partitionSize
  BY <1>1, Quotient DEF PartitionOf
<1>3. /\ (p - 1) * partitionSize = p * partitionSize - partitionSize
      /\ (p + 1) * partitionSize = p * partitionSize + partitionSize
      /\ p * partitionSize \in Nat
  OBVIOUS
<1> QED
  BY <1>2, <1>3

LEMMA PartitionOfType ==
    ASSUME size \in Nat, partitionSize \in Nat \ {0}, NEW i \in 1..size
    PROVE  PartitionOf(i) \in Partitions
<1> DEFINE q == PartitionOf(i)
           a == i + partitionSize - 1
           z == size + partitionSize - 1
<1>1. a \in Nat /\ z \in Nat /\ partitionSize <= a /\ a <= z
  OBVIOUS
<1>2. q \in Nat /\ q * partitionSize <= a /\ a < (q + 1) * partitionSize
  BY <1>1, Quotient DEF PartitionOf
<1>3. Count \in Nat /\ z < (Count + 1) * partitionSize
  BY <1>1, CountType, Quotient DEF Count
<1> HIDE DEF q
<1>4. q > 0
  BY <1>1, <1>2
<1>5. q * partitionSize < (Count + 1) * partitionSize
  BY <1>1, <1>2, <1>3
<1>6. q < Count + 1
  <2>1. CASE q >= Count + 1
    <3>1. (q - (Count + 1)) * partitionSize >= 0
      BY <1>2, <1>3, <2>1
    <3>2. (q - (Count + 1)) * partitionSize = q * partitionSize - (Count + 1) * partitionSize
      BY <1>2, <1>3
    <3> QED
      BY <1>2, <1>3, <1>5, <3>1, <3>2
  <2> QED
    BY <1>2, <1>3, <2>1
<1> QED
  BY <1>2, <1>3, <1>4, <1>6 DEF Partitions, q

LEMMA ItemsOfPartition ==
    ASSUME size \in Nat, partitionSize \in Nat \ {0}, NEW p \in Partitions
    PROVE  /\ ItemsOf(p) \in Seq(1..size)
           /\ \A m, n \in DOMAIN ItemsOf(p) : ItemsOf(p)[m] = ItemsOf(p)[n] => m = n
           /\ \A i \in 1..size :
                 PartitionOf(i) = p <=> \E n \in DOMAIN ItemsOf(p) : ItemsOf(p)[n] = i
<1> DEFINE base == (p - 1) * partitionSize
           end == p * partitionSize
           k == Smaller(size, end) - base
<1>1. Count \in Nat /\ p \in Nat \ {0} /\ p <= Count
  BY CountType DEF Partitions
<1>2. base \in Nat /\ end \in Nat /\ base < end
  BY <1>1
<1>3. base < size
  <2>1. Count * partitionSize <= size + partitionSize - 1
    <3>1. size + partitionSize - 1 \in Nat
      OBVIOUS
    <3> QED
      BY <1>1, <3>1, Quotient DEF Count
  <2>2. p * partitionSize <= Count * partitionSize
    BY <1>1
  <2>3. base = p * partitionSize - partitionSize /\ Count * partitionSize \in Nat
    BY <1>1
  <2> QED
    BY <1>2, <2>1, <2>2, <2>3
<1>4. ItemsOf(p) = [n \in 1..k |-> base + n]
  BY DEF ItemsOf
<1>5. \A i \in 1..size : PartitionOf(i) = p <=> base < i /\ i <= end
  BY <1>1, PartitionPiece
<1> HIDE DEF base, end
<1>6. k \in Nat /\ base + k <= size /\ base + k <= end /\ (base + k = size \/ base + k = end)
  BY <1>2, <1>3 DEF Smaller
<1> HIDE DEF k
<1>7. \A n \in 1..k : base + n \in 1..size
  BY <1>2, <1>6
<1>8. ItemsOf(p) \in Seq(1..size) /\ DOMAIN ItemsOf(p) = 1..k
  BY <1>4, <1>6, <1>7
<1>9. \A n \in 1..k : ItemsOf(p)[n] = base + n
  BY <1>4
<1>10. ASSUME NEW i \in 1..size
       PROVE  PartitionOf(i) = p <=> \E n \in 1..k : base + n = i
  <2>1. CASE base < i /\ i <= end
    <3>1. i - base \in 1..k /\ base + (i - base) = i
      BY <1>2, <1>6, <2>1
    <3> QED
      BY <1>5, <2>1, <3>1
  <2>2. CASE ~(base < i /\ i <= end)
    BY <1>2, <1>5, <1>6, <2>2
  <2> QED
    BY <2>1, <2>2
<1>11. \A m, n \in 1..k : base + m = base + n => m = n
  BY <1>2, <1>6
<1> QED
  BY <1>8, <1>9, <1>10, <1>11
-----------------------------------------------------------------------------
(* The inductive invariant of NoPartitionLost: the types it needs, and     *)
(* itself.                                                                 *)
IInv ==
    /\ size \in Nat /\ partitionSize \in Nat \ {0}
    /\ subscribed \in 0..Count
    /\ queue \in Seq(Nat)
    /\ NoPartitionLost

Places == <<subscribed, rejected, mapping, ready, taken, future, input>>

LEMMA InvInit == Init => IInv
<1> SUFFICES ASSUME Init PROVE IInv
  OBVIOUS
<1>1. size \in Nat /\ partitionSize \in Nat \ {0}
  BY ProcessorAssumption DEF Init
<1>2. Count \in Nat /\ (size = 0 => Count = 0)
  BY <1>1, CountType
<1>3. ToSet(queue) = {}
  BY DEF Init, PoolInit, ToSet
<1>4. subscribed = 0 /\ 1..subscribed = {} /\ subscribed \in 0..Count
  BY <1>2 DEF Init
<1>5. future # <<>> => Partitions = {}
  BY <1>2 DEF Init, Partitions
<1>6. queue \in Seq(Nat)
  BY DEF Init, PoolInit
<1>7. rejected = {} /\ mapping = {} /\ ready = {} /\ taken = {}
  BY DEF Init
<1>8. NoPartitionLost
  BY <1>3, <1>4, <1>5, <1>7 DEF NoPartitionLost, Queued
<1> QED
  BY <1>1, <1>4, <1>6, <1>8 DEF IInv

(* A step that only the pool or the caller sees. *)
LEMMA InvUnmoved ==
    ASSUME IInv, UNCHANGED Places,
           queue' \in Seq(Nat), Queued' = Queued
    PROVE  IInv'
<1>1. Count' = Count /\ Partitions' = Partitions
  BY DEF Places, input, Count, Partitions
<1> QED
  BY <1>1 DEF IInv, NoPartitionLost, Places, input

(* The future is completed when everything has been taken. *)
LEMMA InvCompletes ==
    ASSUME IInv, Completes, UNCHANGED <<subscribed, rejected, mapping, ready, taken, input>>,
           queue' = queue
    PROVE  IInv'
<1>1. Count' = Count /\ Partitions' = Partitions /\ Queued' = Queued
  BY DEF input, Count, Partitions, Queued
<1>2. CASE AllTaken
  <2>1. 1..subscribed \subseteq taken /\ subscribed = Count
    BY <1>2 DEF AllTaken, Active
  <2>2. taken = Partitions /\ rejected = {}
    BY <2>1 DEF IInv, NoPartitionLost, Partitions
  <2> QED
    BY <1>1, <2>2 DEF IInv, NoPartitionLost, input
<1>3. CASE ~AllTaken
  <2>1. UNCHANGED future
    BY <1>3 DEF Completes
  <2> QED
    BY <1>1, <2>1 DEF IInv, NoPartitionLost, input
<1> QED
  BY <1>2, <1>3

(* What Execute does to the queue. *)
LEMMA QueueOfExecute ==
    ASSUME queue \in Seq(Nat), NEW task \in Nat, Execute(task)
    PROVE  /\ queue' \in Seq(Nat)
           /\ Queued' = IF StartsNow THEN Queued ELSE Queued \cup ({task} \ {Other})
<1>1. CASE StartsNow
  BY <1>1 DEF Execute, Queued
<1>2. CASE ~StartsNow
  <2>1. queue' = Append(queue, task)
    BY <1>2 DEF Execute
  <2> QED
    BY <1>2, <2>1, SetOfAppend DEF Queued
<1> QED
  BY <1>1, <1>2

LEMMA InvNext == IInv /\ [Next]_vars => IInv'
<1> SUFFICES ASSUME IInv, [Next]_vars PROVE IInv'
  OBVIOUS
<1>1. CASE UNCHANGED vars
  BY <1>1, InvUnmoved DEF vars, pool, Places, input, Queued, IInv
<1>2. CASE Subscribe
  <2>1. /\ Count \in Nat /\ Count' = Count /\ Partitions' = Partitions
        /\ subscribed < Count /\ subscribed' = subscribed + 1 /\ subscribed \in Nat
        /\ UNCHANGED <<size, partitionSize, ready, taken, future>>
    BY <1>2, CountType DEF Subscribe, CanSubscribe, IInv, input, Count, Partitions
  <2>2. 1..subscribed' = 1..subscribed \cup {subscribed + 1} /\ subscribed' \in 0..Count'
    BY <2>1
  <2>3. subscribed + 1 \notin 1..subscribed /\ subscribed + 1 \in Nat /\ subscribed + 1 # Other
    BY <2>1 DEF Other
  <2>4. future = <<>>
    <3>1. Count \in Partitions /\ Count \notin 1..subscribed
      BY <2>1 DEF Partitions
    <3> QED
      BY <3>1 DEF IInv, NoPartitionLost
  <2>5. CASE Execute(subscribed + 1) /\ UNCHANGED rejected
                /\ mapping' = IF StartsNow THEN mapping \cup {subscribed + 1} ELSE mapping
    <3>1. /\ queue' \in Seq(Nat)
          /\ Queued' = IF StartsNow THEN Queued ELSE Queued \cup {subscribed + 1}
      BY <2>3, <2>5, QueueOfExecute DEF IInv
    <3>2. NoPartitionLost'
      BY <2>1, <2>2, <2>3, <2>4, <2>5, <3>1 DEF IInv, NoPartitionLost
    <3> QED
      BY <2>1, <2>2, <3>1, <3>2 DEF IInv
  <2>6. CASE rejected' = rejected \cup {subscribed + 1} /\ UNCHANGED <<pool, mapping>>
    <3>1. UNCHANGED <<queue, Queued>>
      BY <2>6 DEF pool, Queued
    <3>2. NoPartitionLost'
      BY <2>1, <2>2, <2>3, <2>4, <2>6, <3>1 DEF IInv, NoPartitionLost
    <3> QED
      BY <2>1, <2>2, <3>1, <3>2 DEF IInv
  <2> QED
    BY <1>2, <2>5, <2>6 DEF Subscribe
<1>3. CASE CallerReturns
  <2>1. /\ UNCHANGED <<subscribed, rejected, mapping, ready, taken, input, queue, Queued>>
        /\ UNCHANGED future \/ Completes
    BY <1>3 DEF CallerReturns, pool, Queued
  <2> QED
    BY <2>1, InvUnmoved, InvCompletes DEF Places, IInv
<1>4. CASE StartNext
  <2>1. /\ queue' = Tail(queue) /\ queue # <<>>
        /\ mapping' = IF Head(queue) = Other THEN mapping ELSE mapping \cup {Head(queue)}
        /\ UNCHANGED <<size, partitionSize, Count, Partitions, subscribed, rejected, ready, taken, future>>
    BY <1>4 DEF StartNext, Take, input, Count, Partitions
  <2>2. queue' \in Seq(Nat) /\ ToSet(queue) = ToSet(queue') \cup {Head(queue)}
    BY <2>1, SetOfTail DEF IInv
  <2>3. Queued \cup mapping = Queued' \cup mapping'
    BY <2>1, <2>2 DEF Queued
  <2>4. NoPartitionLost'
    BY <2>1, <2>3 DEF IInv, NoPartitionLost
  <2> QED
    BY <2>1, <2>2, <2>4 DEF IInv
<1>5. ASSUME NEW p \in Partitions, MapEnds(p) PROVE IInv'
  <2>1. /\ mapping' = mapping \ {p} /\ ready' = ready \cup {p} /\ p \in mapping
        /\ UNCHANGED <<input, subscribed, rejected, taken, future, queue, Queued>>
    BY <1>5 DEF MapEnds, TaskEnds, pool, Queued
  <2>2. Count' = Count /\ Partitions' = Partitions /\ mapping' \cup ready' = mapping \cup ready
    BY <2>1 DEF input, Count, Partitions
  <2>3. NoPartitionLost'
    BY <2>1, <2>2 DEF IInv, NoPartitionLost
  <2> QED
    BY <2>1, <2>2, <2>3 DEF IInv, input
<1>6. ASSUME NEW p \in Partitions, TakeResult(p) PROVE IInv'
  <2>1. /\ ready' = ready \ {p} /\ taken' = taken \cup {p} /\ p \in ready
        /\ UNCHANGED <<input, subscribed, rejected, mapping, future, queue, Queued>>
    BY <1>6 DEF TakeResult, pool, Queued
  <2>2. /\ Count' = Count /\ Partitions' = Partitions
        /\ ready' \cup taken' = ready \cup taken
    BY <2>1 DEF input, Count, Partitions
  <2>3. NoPartitionLost'
    BY <2>1, <2>2 DEF IInv, NoPartitionLost
  <2> QED
    BY <2>1, <2>2, <2>3 DEF IInv, input
<1>7. CASE DrainEnds
  <2>1. /\ UNCHANGED <<subscribed, rejected, mapping, ready, taken, input, queue, Queued>>
        /\ UNCHANGED future \/ Completes
    BY <1>7 DEF DrainEnds, TaskEnds, Queued
  <2> QED
    BY <2>1, InvUnmoved, InvCompletes DEF Places, IInv
<1>8. CASE OtherComes
  <2>1. Other \in Nat /\ Execute(Other) /\ UNCHANGED Places
    BY <1>8 DEF OtherComes, Other, Places
  <2>2. queue' \in Seq(Nat) /\ Queued' = Queued
    BY <2>1, QueueOfExecute DEF IInv
  <2> QED
    BY <2>1, <2>2, InvUnmoved
<1>9. CASE OtherEnds
  BY <1>9, InvUnmoved DEF OtherEnds, TaskEnds, Places, Queued, IInv
<1>10. CASE PoolChanges
  <2>1. UNCHANGED queue
    BY <1>10 DEF PoolChanges, Leave, Resize, resetCoreSize, resetMaximumPoolSize, resetQueueSize
  <2>2. UNCHANGED Places
    BY <1>10 DEF PoolChanges, Places
  <2> QED
    BY <2>1, <2>2, InvUnmoved DEF Queued, IInv
<1> QED
  BY <1>1, <1>2, <1>3, <1>4, <1>5, <1>6, <1>7, <1>8, <1>9, <1>10 DEF Next

(* NoPartitionLost holds for every pool, input and size of partitions: a   *)
(* future that is completed has the results of all partitions, and one of  *)
(* which the pool rejected a partition is never completed.                 *)
THEOREM NoPartitionLostCorrect == Spec => []NoPartitionLost
<1>1. IInv => NoPartitionLost
  BY DEF IInv
<1> QED
  BY <1>1, InvInit, InvNext, PTL DEF Spec
-----------------------------------------------------------------------------
(* What adjustSize returns is a size, whatever is asked for. *)
LEMMA AdjustSizeType ==
    ASSUME NEW desired \in Nat, NEW old \in Nat
    PROVE  adjustSize(desired, old) \in Nat
  BY DEF adjustSize, Towards, Smaller, Distance

LEMMA PoolTypeInit == PoolInit => PoolTypeOK
  BY PoolAssumption DEF PoolInit, PoolTypeOK

LEMMA PoolTypeNext ==
    ASSUME PoolTypeOK,
           \/ \E task \in Nat : Execute(task)
           \/ Take
           \/ busy > 0 /\ TaskEnds
           \/ Leave
           \/ Resize
    PROVE  PoolTypeOK'
<1> USE DEF PoolTypeOK
<1>1. ASSUME NEW task \in Nat, Execute(task) PROVE PoolTypeOK'
  <2>1. Append(queue, task) \in Seq(Nat)
    OBVIOUS
  <2>2. UNCHANGED <<core, max, capacity>>
    BY <1>1 DEF Execute, sizes
  <2>3. CASE StartsNow
    BY <1>1, <2>2, <2>3 DEF Execute
  <2>4. CASE ~StartsNow
    <3>1. queue' = Append(queue, task) /\ UNCHANGED <<workers, busy>>
      BY <1>1, <2>4 DEF Execute
    <3> QED
      BY <2>1, <2>2, <3>1
  <2> QED
    BY <2>3, <2>4
<1>2. CASE Take
  BY <1>2, SetOfTail DEF Take, sizes
<1>3. CASE busy > 0 /\ TaskEnds
  BY <1>3 DEF TaskEnds, sizes
<1>4. CASE Leave
  BY <1>4 DEF Leave, sizes
<1>5. ASSUME NEW d \in Desired, resetCoreSize(d) PROVE PoolTypeOK'
  <2>1. adjustSize(d, core) \in Nat
    BY PoolAssumption, AdjustSizeType
  <2>2. /\ core' = adjustSize(d, core) /\ core' <= max
        /\ UNCHANGED <<max, capacity, busy, queue>>
    BY <1>5 DEF resetCoreSize
  <2>3. workers' \in Nat /\ workers' >= workers
    <3>1. CASE workers >= core' \/ core' <= core
      BY <1>5, <2>2, <3>1 DEF resetCoreSize
    <3>2. CASE ~(workers >= core' \/ core' <= core)
      <4>1. workers' = workers + Smaller(core' - workers, Smaller(core' - core, Len(queue)))
        BY <1>5, <2>2, <3>2 DEF resetCoreSize
      <4>2. core' - workers \in Nat /\ core' - core \in Nat /\ Len(queue) \in Nat
        BY <2>1, <2>2, <3>2
      <4>3. Smaller(core' - workers, Smaller(core' - core, Len(queue))) \in Nat
        BY <4>2 DEF Smaller
      <4> QED
        BY <4>1, <4>3
    <3> QED
      BY <3>1, <3>2
  <2> QED
    BY <2>1, <2>2, <2>3
<1>6. ASSUME NEW d \in Desired, resetMaximumPoolSize(d) PROVE PoolTypeOK'
  <2>1. adjustSize(d, max) \in Nat
    BY PoolAssumption, AdjustSizeType
  <2> QED
    BY <1>6, <2>1 DEF resetMaximumPoolSize
<1>7. ASSUME NEW c \in Capacities, resetQueueSize(c) PROVE PoolTypeOK'
  BY <1>7 DEF resetQueueSize
<1> QED
  BY <1>1, <1>2, <1>3, <1>4, <1>5, <1>6, <1>7 DEF Resize

(* The partitions that are mapped can be counted, one more or one less. *)
LEMMA MappingFinite ==
    ASSUME IInv, mapping \subseteq Partitions
    PROVE  IsFiniteSet(mapping) /\ Cardinality(mapping) \in Nat
<1>1. Count \in Int /\ 1 \in Int
  BY CountType DEF IInv
<1>2. IsFiniteSet(1..Count)
  BY <1>1, FS_Interval
<1>3. IsFiniteSet(mapping)
  BY <1>2, FS_Subset DEF Partitions
<1> QED
  BY <1>3, FS_CardinalityType

LEMMA TypeNext == IInv /\ TypeOK /\ [Next]_vars => TypeOK'
<1> SUFFICES ASSUME IInv, TypeOK, [Next]_vars PROVE TypeOK'
  OBVIOUS
<1> DEFINE Drainers(d) == IF d THEN 1 ELSE 0
           Threads == Cardinality(mapping) + Drainers(drainer)
<1>a. IInv'
  BY InvNext
<1>b. /\ IsFiniteSet(mapping) /\ Cardinality(mapping) \in Nat
      /\ busy \in Nat /\ workers \in Nat
      /\ Threads \in Nat /\ Threads <= busy
  BY MappingFinite DEF TypeOK, PoolTypeOK, OthersBusy
<1>c. Count \in Nat /\ subscribed \in 0..Count /\ Queued \subseteq Partitions
      /\ mapping \subseteq 1..subscribed
  BY CountType DEF IInv, NoPartitionLost, Partitions
<1>d. ASSUME UNCHANGED input PROVE Count' = Count /\ Partitions' = Partitions /\ size' = size
  BY <1>d DEF input, Count, Partitions
<1>1. CASE UNCHANGED vars
  BY <1>1, <1>d DEF vars, pool, input, TypeOK, PoolTypeOK, OthersBusy
<1>2. CASE Subscribe
  <2> DEFINE next == subscribed + 1
  <2>1. /\ next \in Partitions /\ next \in Nat /\ next \notin mapping
        /\ Count' = Count /\ Partitions' = Partitions
        /\ subscribed' \in 0..Count
        /\ UNCHANGED <<size, caller, ready, failed, drainer, taken, collected>>
    BY <1>2, <1>c, <1>d DEF Subscribe, CanSubscribe, Partitions
  <2>2. CASE Execute(next) /\ UNCHANGED rejected
                /\ mapping' = IF StartsNow THEN mapping \cup {next} ELSE mapping
    <3>1. PoolTypeOK'
      BY <2>1, <2>2, PoolTypeNext DEF TypeOK
    <3>2. Cardinality(mapping \cup {next}) = Cardinality(mapping) + 1
      BY <1>b, <2>1, FS_AddElement
    <3>3. busy' - Cardinality(mapping') = busy - Cardinality(mapping)
      BY <1>b, <2>2, <3>2 DEF Execute
    <3>4. mapping' \subseteq Partitions
      BY <2>1, <2>2 DEF TypeOK
    <3>5. OthersBusy' = OthersBusy
      BY <2>1, <3>3 DEF OthersBusy
    <3> QED
      BY <2>1, <2>2, <3>1, <3>4, <3>5 DEF TypeOK
  <2>3. CASE rejected' = rejected \cup {next} /\ UNCHANGED <<pool, mapping>>
    BY <2>1, <2>3 DEF TypeOK, PoolTypeOK, pool, OthersBusy
  <2> QED
    BY <1>2, <2>2, <2>3 DEF Subscribe
<1>3. CASE CallerReturns
  BY <1>3, <1>d DEF CallerReturns, TypeOK, PoolTypeOK, pool, OthersBusy
<1>4. CASE StartNext
  <2>1. PoolTypeOK'
    BY <1>4, PoolTypeNext DEF StartNext, TypeOK
  <2>2. /\ busy' = busy + 1 /\ queue # <<>>
        /\ mapping' = IF Head(queue) = Other THEN mapping ELSE mapping \cup {Head(queue)}
        /\ UNCHANGED <<input, caller, subscribed, rejected, ready, failed, drainer, taken, collected>>
    BY <1>4 DEF StartNext, Take
  <2>3. Head(queue) # Other => Head(queue) \in Partitions
    BY <1>c, <2>2, SetOfTail DEF Queued, IInv
  <2>4. mapping' \subseteq Partitions
    BY <2>2, <2>3 DEF TypeOK
  <2>5. Cardinality(mapping') <= Cardinality(mapping) + 1 /\ Cardinality(mapping') \in Nat
    <3>1. CASE Head(queue) = Other \/ Head(queue) \in mapping
      <4>1. mapping' = mapping
        BY <2>2, <3>1
      <4> QED
        BY <1>b, <4>1
    <3>2. CASE Head(queue) # Other /\ Head(queue) \notin mapping
      <4>1. mapping' = mapping \cup {Head(queue)}
        BY <2>2, <3>2
      <4>2. Cardinality(mapping \cup {Head(queue)}) = Cardinality(mapping) + 1
        BY <1>b, <3>2, FS_AddElement
      <4> QED
        BY <1>b, <4>1, <4>2
    <3> QED
      BY <3>1, <3>2
  <2>6. OthersBusy' >= 0
    BY <1>b, <2>2, <2>5 DEF OthersBusy
  <2> QED
    BY <1>d, <2>1, <2>2, <2>4, <2>6 DEF TypeOK
<1>5. ASSUME NEW p \in Partitions, MapEnds(p) PROVE TypeOK'
  <2>1. /\ p \in mapping /\ mapping' = mapping \ {p} /\ ready' = ready \cup {p}
        /\ failed' \subseteq failed \cup {p} /\ drainer' = TRUE
        /\ IF drainer THEN TaskEnds ELSE UNCHANGED pool
        /\ UNCHANGED <<input, caller, subscribed, rejected, taken, collected>>
    BY <1>5 DEF MapEnds
  <2>2. Cardinality(mapping') = Cardinality(mapping) - 1
    BY <1>b, <2>1, FS_RemoveElement
  <2>3. Cardinality(mapping) > 0
    BY <1>b, <2>1, FS_EmptySet
  <2>4. PoolTypeOK'
    <3>1. CASE drainer
      BY <1>b, <2>1, <2>3, <3>1, PoolTypeNext DEF TypeOK
    <3>2. CASE ~drainer
      BY <2>1, <3>2 DEF TypeOK, PoolTypeOK, pool
    <3> QED
      BY <3>1, <3>2
  <2>5. OthersBusy' = OthersBusy
    BY <1>b, <2>1, <2>2 DEF OthersBusy, TaskEnds, pool, TypeOK
  <2> QED
    BY <1>d, <2>1, <2>4, <2>5 DEF TypeOK
<1>6. ASSUME NEW p \in Partitions, TakeResult(p) PROVE TypeOK'
  <2>1. ItemsOf(p) \in Seq(1..size)
    BY ItemsOfPartition DEF IInv
  <2>2. collected \o ItemsOf(p) \in Seq(1..size)
    BY <2>1 DEF TypeOK
  <2>3. size' = size /\ collected' \in Seq(1..size')
    BY <1>6, <1>d, <2>2 DEF TakeResult, TypeOK
  <2> QED
    BY <1>6, <1>d, <2>3 DEF TakeResult, TypeOK, PoolTypeOK, pool, OthersBusy
<1>7. CASE DrainEnds
  <2>1. busy > 0
    BY <1>b, <1>7 DEF DrainEnds
  <2>2. PoolTypeOK'
    BY <1>7, <2>1, PoolTypeNext DEF DrainEnds, TypeOK
  <2>3. OthersBusy' = OthersBusy
    BY <1>b, <1>7 DEF DrainEnds, TaskEnds, OthersBusy
  <2> QED
    BY <1>7, <1>d, <2>2, <2>3 DEF DrainEnds, TypeOK
<1>8. CASE OtherComes
  <2>1. PoolTypeOK'
    BY <1>8, PoolTypeNext DEF OtherComes, TypeOK, Other
  <2>2. OthersBusy' >= OthersBusy /\ OthersBusy \in Int /\ OthersBusy' \in Int
    BY <1>b, <1>8 DEF OtherComes, Execute, OthersBusy
  <2>3. OthersBusy' >= 0
    BY <2>2 DEF TypeOK
  <2> QED
    BY <1>8, <1>d, <2>1, <2>3 DEF OtherComes, TypeOK
<1>9. CASE OtherEnds
  <2>1. busy > 0
    BY <1>b, <1>9 DEF OtherEnds, OthersBusy
  <2>2. PoolTypeOK'
    BY <1>9, <2>1, PoolTypeNext DEF OtherEnds, TypeOK
  <2>3. OthersBusy' >= 0
    BY <1>b, <1>9 DEF OtherEnds, TaskEnds, OthersBusy
  <2> QED
    BY <1>9, <1>d, <2>2, <2>3 DEF OtherEnds, TypeOK
<1>10. CASE PoolChanges
  <2>1. PoolTypeOK'
    BY <1>10, PoolTypeNext DEF PoolChanges, TypeOK
  <2>2. UNCHANGED busy
    BY <1>10 DEF PoolChanges, Leave, Resize, resetCoreSize, resetMaximumPoolSize, resetQueueSize
  <2> QED
    BY <1>10, <1>d, <2>1, <2>2 DEF PoolChanges, TypeOK, OthersBusy
<1> QED
  BY <1>1, <1>2, <1>3, <1>4, <1>5, <1>6, <1>7, <1>8, <1>9, <1>10 DEF Next

LEMMA TypeInit == Init => TypeOK
<1> SUFFICES ASSUME Init PROVE TypeOK
  OBVIOUS
<1>1. size \in Nat /\ partitionSize \in Nat \ {0}
  BY ProcessorAssumption DEF Init
<1>2. 0 \in 0..Count
  BY <1>1, CountType
<1>3. OthersBusy = 0
  BY FS_EmptySet DEF Init, PoolInit, OthersBusy
<1>4. <<>> \in Seq(1..size)
  OBVIOUS
<1>5. PoolTypeOK
  BY PoolTypeInit DEF Init
<1>6. /\ caller \in {"subscribing", "returned"} /\ subscribed = 0 /\ taken = {} /\ collected = <<>>
      /\ rejected = {} /\ mapping = {} /\ ready = {} /\ failed = {} /\ drainer = FALSE
  BY DEF Init
<1>7. subscribed \in 0..Count /\ collected \in Seq(1..size)
  BY <1>2, <1>4, <1>6
<1>8. OthersBusy >= 0
  BY <1>3
<1> QED
  BY <1>5, <1>6, <1>7, <1>8 DEF TypeOK

(* TypeOK holds; in particular core never exceeds max, and no more workers *)
(* are busy than there are.                                                *)
THEOREM TypeCorrect == Spec => []TypeOK
  BY TypeInit, InvInit, InvNext, TypeNext, PTL DEF Spec
-----------------------------------------------------------------------------
(* The ranks of a sequence of numbers are its indices, each once. *)
LEMMA RankOrder ==
    ASSUME NEW s \in Seq(Nat)
    PROVE  /\ \A i \in DOMAIN s : Rank(s, i) \in DOMAIN s
           /\ \A i, j \in DOMAIN s :
                 s[i] < s[j] \/ (s[i] = s[j] /\ i < j) => Rank(s, i) < Rank(s, j)
           /\ \A r \in DOMAIN s : \E i \in DOMAIN s : Rank(s, i) = r
<1> DEFINE D == DOMAIN s
           Upto(i) == {m \in D : s[m] < s[i] \/ (s[m] = s[i] /\ m <= i)}
<1>1. /\ Len(s) \in Nat /\ D = 1..Len(s) /\ D \subseteq Nat
      /\ \A i \in D : s[i] \in Nat
  OBVIOUS
<1>2. IsFiniteSet(D) /\ Cardinality(D) = Len(s)
  <2>1. 1 \in Int /\ Len(s) \in Int
    BY <1>1
  <2>2. IsFiniteSet(1..Len(s)) /\ Cardinality(1..Len(s)) = IF 1 > Len(s) THEN 0 ELSE Len(s) - 1 + 1
    BY <2>1, FS_Interval
  <2> QED
    BY <1>1, <2>2
<1>3. \A i \in D : Rank(s, i) = Cardinality(Upto(i))
  BY DEF Rank
<1>4. \A i \in D : i \in Upto(i) /\ Upto(i) \subseteq D
  BY <1>1
<1> HIDE DEF D
<1>5. ASSUME NEW i \in D
      PROVE  IsFiniteSet(Upto(i)) /\ Rank(s, i) \in 1..Len(s)
  <2>1. Upto(i) \in SUBSET D /\ Upto(i) # {}
    BY <1>4
  <2> HIDE DEF Upto
  <2>2. IsFiniteSet(Upto(i)) /\ Cardinality(Upto(i)) <= Cardinality(D)
    BY <1>2, <2>1, FS_Subset
  <2>3. Cardinality(Upto(i)) \in Nat
    BY <2>2, FS_CardinalityType
  <2>4. Cardinality(Upto(i)) # 0
    BY <2>1, <2>2, FS_EmptySet
  <2> QED
    BY <1>1, <1>2, <1>3, <2>2, <2>3, <2>4
<1>6. ASSUME NEW i \in D, NEW j \in D, s[i] < s[j] \/ (s[i] = s[j] /\ i < j)
      PROVE  Rank(s, i) < Rank(s, j)
  <2>1. Upto(i) \subseteq Upto(j) /\ j \notin Upto(i)
    BY <1>1, <1>6
  <2>2. j \in Upto(j)
    BY <1>4
  <2> HIDE DEF Upto
  <2>3. Upto(i) \in SUBSET Upto(j) /\ Upto(i) # Upto(j)
    BY <2>1, <2>2
  <2>4. IsFiniteSet(Upto(j))
    BY <1>5
  <2>5. /\ Cardinality(Upto(i)) <= Cardinality(Upto(j))
        /\ Cardinality(Upto(j)) # Cardinality(Upto(i))
    BY <2>3, <2>4, FS_Subset
  <2>6. Cardinality(Upto(i)) = Rank(s, i) /\ Cardinality(Upto(j)) = Rank(s, j)
    BY <1>3
  <2> QED
    BY <1>5, <2>5, <2>6
<1> HIDE DEF Upto
<1>7. \A i \in D : Rank(s, i) \in D
  BY <1>1, <1>5
<1>8. ASSUME NEW i \in D, NEW j \in D, Rank(s, i) = Rank(s, j)
      PROVE  i = j
  <2>1. Rank(s, i) \in Nat /\ Rank(s, j) \in Nat
    BY <1>5
  <2>2. ~(Rank(s, i) < Rank(s, j)) /\ ~(Rank(s, j) < Rank(s, i))
    BY <1>8, <2>1
  <2>3. ~(s[i] < s[j] \/ (s[i] = s[j] /\ i < j)) /\ ~(s[j] < s[i] \/ (s[j] = s[i] /\ j < i))
    BY <1>6, <2>2
  <2>4. i \in Nat /\ j \in Nat /\ s[i] \in Nat /\ s[j] \in Nat
    BY <1>1
  <2> QED
    BY <2>3, <2>4
<1> DEFINE ranks == [i \in D |-> Rank(s, i)]
<1>9. ranks \in Injection(D, D)
  BY <1>7, <1>8 DEF Injection, IsInjective
<1> HIDE DEF ranks
<1>10. ranks \in Surjection(D, D)
  BY <1>2, <1>9, FS_Injection
<1>11. \A r \in D : \E i \in D : ranks[i] = r
  BY <1>10 DEF Surjection
<1>12. \A r \in D : \E i \in D : Rank(s, i) = r
  BY <1>11 DEF ranks
<1> QED
  BY <1>6, <1>7, <1>12 DEF D

(* Sorting loses nothing, adds nothing and puts into order. *)
LEMMA SortedInOrder ==
    ASSUME NEW s \in Seq(Nat), \A i, j \in DOMAIN s : s[i] = s[j] => i = j
    PROVE  /\ DOMAIN Sorted(s) = 1..Len(s)
           /\ \A r \in DOMAIN Sorted(s) : \E i \in DOMAIN s : Sorted(s)[r] = s[i]
           /\ \A i \in DOMAIN s : \E r \in DOMAIN Sorted(s) : Sorted(s)[r] = s[i]
           /\ \A q, r \in DOMAIN Sorted(s) : q < r => Sorted(s)[q] < Sorted(s)[r]
<1> DEFINE at(r) == CHOOSE i \in DOMAIN s : Rank(s, i) = r
<1>1. \A r \in DOMAIN s : at(r) \in DOMAIN s /\ Rank(s, at(r)) = r
  BY RankOrder
<1>2. DOMAIN Sorted(s) = DOMAIN s /\ \A r \in DOMAIN s : Sorted(s)[r] = s[at(r)]
  BY DEF Sorted
<1> HIDE DEF at
<1>3. /\ DOMAIN s = 1..Len(s) /\ DOMAIN s \subseteq Nat
      /\ \A i \in DOMAIN s : s[i] \in Nat
  OBVIOUS
<1>4. ASSUME NEW i \in DOMAIN s
      PROVE  \E r \in DOMAIN s : at(r) = i
  <2> DEFINE r == Rank(s, i)
             j == at(r)
  <2>1. r \in DOMAIN s /\ j \in DOMAIN s /\ Rank(s, j) = r
    BY <1>1, RankOrder
  <2> HIDE DEF j
  <2>2. r \in Nat /\ ~(r < r)
    BY <1>3, <2>1
  <2>3. ~(s[i] < s[j]) /\ ~(s[j] < s[i])
    BY <2>1, <2>2, RankOrder
  <2>4. s[i] = s[j]
    BY <1>3, <2>1, <2>3
  <2>5. i = j
    BY <2>1, <2>4
  <2> QED
    BY <2>1, <2>5 DEF j
<1>5. ASSUME NEW q \in DOMAIN s, NEW r \in DOMAIN s, q < r
      PROVE  s[at(q)] < s[at(r)]
  <2>1. /\ at(q) \in DOMAIN s /\ at(r) \in DOMAIN s
        /\ Rank(s, at(q)) = q /\ Rank(s, at(r)) = r
    BY <1>1
  <2>2. q \in Nat /\ r \in Nat /\ ~(r < q) /\ q # r
    BY <1>3, <1>5
  <2>3. ~(s[at(r)] < s[at(q)])
    BY <2>1, <2>2, RankOrder
  <2>4. s[at(q)] # s[at(r)]
    BY <2>1, <2>2
  <2> QED
    BY <1>3, <2>1, <2>3, <2>4
<1>6. \A i \in DOMAIN s : \E r \in DOMAIN s : Sorted(s)[r] = s[i]
  <2> TAKE i \in DOMAIN s
  <2>1. PICK r \in DOMAIN s : at(r) = i
    BY <1>4
  <2>2. Sorted(s)[r] = s[at(r)]
    BY <1>2
  <2> QED
    BY <2>1, <2>2
<1>7. \A q, r \in DOMAIN s : q < r => Sorted(s)[q] < Sorted(s)[r]
  BY <1>2, <1>5
<1>8. \A r \in DOMAIN s : \E i \in DOMAIN s : Sorted(s)[r] = s[i]
  BY <1>1, <1>2
<1> QED
  BY <1>2, <1>3, <1>6, <1>7, <1>8

(* A set of indices has a last one. *)
LEMMA LastExists ==
    ASSUME NEW n \in Nat, NEW T \in SUBSET (1..n), T # {}
    PROVE  \E l \in T : \A t \in T : t <= l
<1> DEFINE Left == {n - t : t \in T}
<1>1. Left \in SUBSET Nat /\ Left # {}
  <2>1. \A t \in T : t \in 1..n /\ n - t \in Nat
    OBVIOUS
  <2>2. PICK t \in T : TRUE
    OBVIOUS
  <2>3. n - t \in Left
    BY <2>2
  <2> QED
    BY <2>1, <2>3
<1>2. PICK m \in Left : \A u \in Left : ~(<<u, m>> \in OpToRel(<, Nat))
  BY <1>1, NatLessThanWellFounded, WFMin
<1>3. PICK l \in T : m = n - l
  BY <1>2
<1>4. ASSUME NEW t \in T PROVE t <= l
  <2>1. n - t \in Left /\ n - t \in Nat /\ n - l \in Nat
    BY <1>1, <1>3
  <2>2. ~(n - t < n - l)
    BY <1>2, <1>3, <2>1 DEF OpToRel
  <2> QED
    BY <2>1, <2>2
<1> QED
  BY <1>4

(* What is put together has every key, and with it an item of that key. *)
LEMMA PutTogetherKeys ==
    ASSUME collected \in Seq(Nat)
    PROVE  /\ DOMAIN PutTogether = {Key[collected[n]] : n \in DOMAIN collected}
           /\ \A k \in DOMAIN PutTogether : \E n \in DOMAIN collected :
                 PutTogether[k] = collected[n] /\ Key[collected[n]] = k
<1> DEFINE LastOfKey(k, n) == /\ Key[collected[n]] = k
                              /\ \A o \in n + 1..Len(collected) : Key[collected[o]] # k
           Keys == {Key[collected[n]] : n \in DOMAIN collected}
<1>1. PutTogether = [k \in Keys |-> collected[CHOOSE n \in DOMAIN collected : LastOfKey(k, n)]]
  BY DEF PutTogether
<1>2. DOMAIN collected = 1..Len(collected) /\ Len(collected) \in Nat
  OBVIOUS
<1>3. ASSUME NEW k \in Keys
      PROVE  \E n \in DOMAIN collected : LastOfKey(k, n)
  <2> DEFINE T == {n \in DOMAIN collected : Key[collected[n]] = k}
  <2>1. T \in SUBSET (1..Len(collected)) /\ T # {}
    BY <1>2
  <2>2. PICK l \in T : \A t \in T : t <= l
    BY <1>2, <2>1, LastExists
  <2>3. ASSUME NEW o \in l + 1..Len(collected) PROVE Key[collected[o]] # k
    BY <1>2, <2>2
  <2> QED
    BY <2>2, <2>3
<1> HIDE DEF LastOfKey
<1>4. ASSUME NEW k \in Keys
      PROVE  \E n \in DOMAIN collected : PutTogether[k] = collected[n] /\ LastOfKey(k, n)
  BY <1>1, <1>3
<1> QED
  BY <1>1, <1>4 DEF LastOfKey
-----------------------------------------------------------------------------
(* The inductive invariant of the implementation of ParallelMap, next to   *)
(* IInv and TypeOK.  A partition is in one place only, and once in it.     *)
QueuedOnce ==
    \A i, j \in DOMAIN queue : i # j /\ queue[i] = queue[j] => queue[i] = Other
InOnePlace ==
    /\ mapping \cap Queued = {}
    /\ ready \cap (mapping \cup Queued) = {}
    /\ taken \cap (ready \cup mapping \cup Queued) = {}

(* What is collected are the items of the partitions that were taken and   *)
(* have not failed, each once.                                             *)
CollectedMapped ==
    /\ \A i \in 1..size :
          PartitionOf(i) \in taken \ failed <=> \E n \in DOMAIN collected : collected[n] = i
    /\ \A m, n \in DOMAIN collected : collected[m] = collected[n] => m = n

(* A future that is completed is left alone. *)
LeftAlone == future # <<>> => caller = "returned" /\ ~drainer

RInv ==
    /\ IInv /\ TypeOK
    /\ method \in {"list", "map", "void"}
    /\ QueuedOnce /\ InOnePlace /\ CollectedMapped /\ LeftAlone

LEMMA OnceAppended ==
    ASSUME queue \in Seq(Nat), QueuedOnce, NEW task \in Nat, task \notin Queued,
           queue' = Append(queue, task)
    PROVE  QueuedOnce'
<1>1. /\ Len(queue) \in Nat /\ DOMAIN queue = 1..Len(queue)
      /\ DOMAIN queue' = 1..Len(queue) + 1
      /\ \A i \in 1..Len(queue) : queue'[i] = queue[i]
      /\ queue'[Len(queue) + 1] = task
  OBVIOUS
<1>2. \A i \in 1..Len(queue) : queue[i] = task => task = Other
  BY <1>1 DEF Queued, ToSet
<1>3. ASSUME NEW i \in DOMAIN queue', NEW j \in DOMAIN queue', i # j, queue'[i] = queue'[j]
      PROVE  queue'[i] = Other
  <2>1. CASE i = Len(queue) + 1
    BY <1>1, <1>2, <1>3, <2>1
  <2>2. CASE j = Len(queue) + 1
    BY <1>1, <1>2, <1>3, <2>2
  <2>3. CASE i \in DOMAIN queue /\ j \in DOMAIN queue
    BY <1>1, <1>3, <2>3 DEF QueuedOnce
  <2> QED
    BY <1>1, <2>1, <2>2, <2>3
<1> QED
  BY <1>3 DEF QueuedOnce

LEMMA OnceTaken ==
    ASSUME queue \in Seq(Nat), queue # <<>>, QueuedOnce, queue' = Tail(queue)
    PROVE  /\ QueuedOnce'
           /\ Head(queue) \notin Queued'
           /\ Queued' \subseteq Queued
           /\ Head(queue) # Other => Head(queue) \in Queued
<1>1. /\ Len(queue) \in Nat \ {0} /\ DOMAIN queue = 1..Len(queue)
      /\ DOMAIN queue' = 1..(Len(queue) - 1)
      /\ \A i \in 1..(Len(queue) - 1) : queue'[i] = queue[i + 1]
      /\ Head(queue) = queue[1]
  OBVIOUS
<1>2. \A i \in DOMAIN queue' : i + 1 \in DOMAIN queue /\ i + 1 # 1 /\ 1 \in DOMAIN queue
  BY <1>1
<1>3. QueuedOnce'
  <2>1. ASSUME NEW i \in DOMAIN queue', NEW j \in DOMAIN queue', i # j, queue'[i] = queue'[j]
        PROVE  queue'[i] = Other
    <3>1. i + 1 # j + 1 /\ queue[i + 1] = queue[j + 1]
      BY <1>1, <2>1
    <3> QED
      BY <1>1, <1>2, <3>1 DEF QueuedOnce
  <2> QED
    BY <2>1 DEF QueuedOnce
<1>4. ASSUME NEW i \in DOMAIN queue', queue'[i] = Head(queue) PROVE Head(queue) = Other
  BY <1>1, <1>2, <1>4 DEF QueuedOnce
<1>5. Head(queue) \notin Queued'
  BY <1>4 DEF Queued, ToSet
<1>6. ToSet(queue) = ToSet(queue') \cup {Head(queue)}
  BY SetOfTail
<1> QED
  BY <1>3, <1>5, <1>6 DEF Queued

LEMMA OnceInit == Init => QueuedOnce /\ InOnePlace /\ CollectedMapped /\ LeftAlone
<1> SUFFICES ASSUME Init PROVE QueuedOnce /\ InOnePlace /\ CollectedMapped /\ LeftAlone
  OBVIOUS
<1>1. QueuedOnce
  BY DEF Init, PoolInit, QueuedOnce
<1>2. InOnePlace
  BY DEF Init, InOnePlace
<1>3. taken = {} /\ collected = <<>> /\ DOMAIN collected = {}
  BY DEF Init
<1>4. CollectedMapped
  BY <1>3 DEF CollectedMapped
<1>5. LeftAlone
  BY DEF Init, LeftAlone
<1> QED
  BY <1>1, <1>2, <1>4, <1>5

(* Steps of which the places of the partitions see nothing. *)
LEMMA OnceUnmoved ==
    ASSUME QueuedOnce, InOnePlace, UNCHANGED <<queue, mapping, ready, taken>>
    PROVE  QueuedOnce' /\ InOnePlace'
<1>1. UNCHANGED <<Queued>>
  BY DEF Queued
<1> QED
  BY <1>1 DEF QueuedOnce, InOnePlace

LEMMA OnceNext == IInv /\ QueuedOnce /\ InOnePlace /\ [Next]_vars => QueuedOnce' /\ InOnePlace'
<1> SUFFICES ASSUME IInv, QueuedOnce, InOnePlace, [Next]_vars
             PROVE  QueuedOnce' /\ InOnePlace'
  OBVIOUS
<1>1. CASE UNCHANGED vars
  BY <1>1, OnceUnmoved DEF vars, pool
<1>2. CASE Subscribe
  <2> DEFINE next == subscribed + 1
  <2>1. /\ subscribed \in Nat /\ next \in Nat /\ next # Other
        /\ next \notin 1..subscribed /\ UNCHANGED <<ready, taken>>
    BY <1>2, CountType DEF Subscribe, IInv, Other
  <2>2. next \notin Queued /\ next \notin mapping /\ next \notin ready /\ next \notin taken
    BY <2>1 DEF IInv, NoPartitionLost
  <2> HIDE DEF next
  <2>3. CASE Execute(next) /\ mapping' = IF StartsNow THEN mapping \cup {next} ELSE mapping
    <3>1. Queued' = IF StartsNow THEN Queued ELSE Queued \cup {next}
      BY <2>1, <2>3, QueueOfExecute DEF IInv
    <3>2. InOnePlace'
      BY <2>1, <2>2, <2>3, <3>1 DEF InOnePlace
    <3>3. CASE StartsNow
      <4>1. UNCHANGED queue
        BY <2>3, <3>3 DEF Execute
      <4> QED
        BY <3>2, <4>1 DEF QueuedOnce
    <3>4. CASE ~StartsNow
      <4>1. queue' = Append(queue, next)
        BY <2>3, <3>4 DEF Execute
      <4> QED
        BY <2>1, <2>2, <3>2, <4>1, OnceAppended DEF IInv
    <3> QED
      BY <3>3, <3>4
  <2>4. CASE UNCHANGED <<pool, mapping>>
    BY <2>1, <2>4, OnceUnmoved DEF pool
  <2> QED
    BY <1>2, <2>3, <2>4 DEF Subscribe, next
<1>3. CASE CallerReturns
  BY <1>3, OnceUnmoved DEF CallerReturns, pool
<1>4. CASE StartNext
  <2>1. /\ queue # <<>> /\ queue' = Tail(queue) /\ UNCHANGED <<ready, taken>>
        /\ mapping' = IF Head(queue) = Other THEN mapping ELSE mapping \cup {Head(queue)}
    BY <1>4 DEF StartNext, Take
  <2>2. /\ QueuedOnce' /\ Head(queue) \notin Queued' /\ Queued' \subseteq Queued
        /\ Head(queue) # Other => Head(queue) \in Queued
    BY <2>1, OnceTaken DEF IInv
  <2> QED
    BY <2>1, <2>2 DEF InOnePlace
<1>5. ASSUME NEW p \in Partitions, MapEnds(p) PROVE QueuedOnce' /\ InOnePlace'
  <2>1. /\ p \in mapping /\ mapping' = mapping \ {p} /\ ready' = ready \cup {p}
        /\ UNCHANGED <<taken, queue, Queued>>
    BY <1>5 DEF MapEnds, TaskEnds, pool, Queued
  <2> QED
    BY <2>1 DEF QueuedOnce, InOnePlace
<1>6. ASSUME NEW p \in Partitions, TakeResult(p) PROVE QueuedOnce' /\ InOnePlace'
  <2>1. /\ p \in ready /\ ready' = ready \ {p} /\ taken' = taken \cup {p}
        /\ UNCHANGED <<mapping, queue, Queued>>
    BY <1>6 DEF TakeResult, pool, Queued
  <2> QED
    BY <2>1 DEF QueuedOnce, InOnePlace
<1>7. CASE DrainEnds
  BY <1>7, OnceUnmoved DEF DrainEnds, TaskEnds
<1>8. CASE OtherComes
  <2>1. /\ Execute(Other) /\ Other \in Nat /\ Other \notin Queued
        /\ UNCHANGED <<mapping, ready, taken>>
    BY <1>8 DEF OtherComes, Other, Queued
  <2>2. UNCHANGED Queued
    BY <2>1, QueueOfExecute DEF IInv
  <2>3. QueuedOnce'
    <3>1. CASE queue' = Append(queue, Other)
      BY <2>1, <3>1, OnceAppended DEF IInv
    <3>2. CASE UNCHANGED queue
      BY <3>2 DEF QueuedOnce
    <3> QED
      BY <2>1, <3>1, <3>2 DEF Execute
  <2> QED
    BY <2>1, <2>2, <2>3 DEF InOnePlace
<1>9. CASE OtherEnds
  BY <1>9, OnceUnmoved DEF OtherEnds, TaskEnds
<1>10. CASE PoolChanges
  <2>1. UNCHANGED <<queue, mapping, ready, taken>>
    BY <1>10 DEF PoolChanges, Leave, Resize, resetCoreSize, resetMaximumPoolSize, resetQueueSize
  <2> QED
    BY <2>1, OnceUnmoved
<1> QED
  BY <1>1, <1>2, <1>3, <1>4, <1>5, <1>6, <1>7, <1>8, <1>9, <1>10 DEF Next

(* Once the future is completed all partitions are taken, and none is      *)
(* mapped that could set a drainer to work again.                          *)
LEMMA NothingLeft ==
    ASSUME IInv, TypeOK, InOnePlace, future # <<>>
    PROVE  mapping = {} /\ ready = {} /\ subscribed = Count
<1>1. taken = Partitions /\ Count \in Nat /\ subscribed \in 0..Count
  BY CountType DEF IInv, NoPartitionLost
<1>2. mapping = {} /\ ready = {}
  BY <1>1 DEF TypeOK, InOnePlace
<1>3. 1..Count \subseteq 1..subscribed
  BY <1>1 DEF IInv, NoPartitionLost, Partitions
<1>4. Count = 0 \/ Count \in 1..subscribed
  BY <1>1, <1>3
<1> QED
  BY <1>1, <1>2, <1>4

LEMMA LeftAloneNext ==
    IInv /\ TypeOK /\ InOnePlace /\ LeftAlone /\ [Next]_vars => LeftAlone'
<1> SUFFICES ASSUME IInv, TypeOK, InOnePlace, LeftAlone, [Next]_vars
             PROVE  LeftAlone'
  OBVIOUS
<1>1. CASE CallerReturns
  BY <1>1 DEF CallerReturns, LeftAlone
<1>2. CASE DrainEnds
  BY <1>2 DEF DrainEnds, LeftAlone
<1>3. ASSUME NEW p \in Partitions, MapEnds(p) PROVE LeftAlone'
  BY <1>3, NothingLeft DEF MapEnds, LeftAlone
<1>4. CASE UNCHANGED <<caller, drainer, future>>
  BY <1>4 DEF LeftAlone
<1> QED
  BY <1>1, <1>2, <1>3, <1>4
     DEF Next, vars, Subscribe, StartNext, TakeResult, OtherComes, OtherEnds, PoolChanges

LEMMA ElementType ==
    ASSUME NEW S, NEW s \in Seq(S), NEW n \in DOMAIN s
    PROVE  s[n] \in S
  OBVIOUS

LEMMA CollectedNext ==
    IInv /\ TypeOK /\ InOnePlace /\ CollectedMapped /\ [Next]_vars => CollectedMapped'
<1> SUFFICES ASSUME IInv, TypeOK, InOnePlace, CollectedMapped, [Next]_vars
             PROVE  CollectedMapped'
  OBVIOUS
<1>t. size \in Nat /\ partitionSize \in Nat \ {0} /\ collected \in Seq(1..size)
  BY DEF IInv, TypeOK
<1>1. CASE UNCHANGED <<size, partitionSize, taken, failed, collected>>
  <2>1. \A i : PartitionOf(i)' = PartitionOf(i)
    BY <1>1 DEF PartitionOf
  <2> QED
    BY <1>1, <2>1 DEF CollectedMapped
<1>2. ASSUME NEW p \in Partitions, MapEnds(p) PROVE CollectedMapped'
  <2>1. /\ p \notin taken /\ taken \ failed' = taken \ failed
        /\ UNCHANGED <<size, partitionSize, taken, collected>>
    BY <1>2 DEF MapEnds, InOnePlace, input
  <2>2. \A i : PartitionOf(i)' = PartitionOf(i)
    BY <2>1 DEF PartitionOf
  <2> QED
    BY <2>1, <2>2 DEF CollectedMapped
<1>3. ASSUME NEW p \in Partitions, TakeResult(p) PROVE CollectedMapped'
  <2>1. /\ p \in ready /\ taken' = taken \cup {p} /\ p \notin taken
        /\ UNCHANGED <<size, partitionSize, failed>>
    BY <1>3 DEF TakeResult, InOnePlace, input
  <2>2. \A i : PartitionOf(i)' = PartitionOf(i)
    BY <2>1 DEF PartitionOf
  <2>3. CASE p \in failed
    <3>1. taken' \ failed = taken \ failed /\ UNCHANGED collected
      BY <1>3, <2>1, <2>3 DEF TakeResult
    <3> QED
      BY <2>1, <2>2, <3>1 DEF CollectedMapped
  <2>4. CASE p \notin failed
    <3> DEFINE s == collected
               t == ItemsOf(p)
    <3>1. collected' = s \o t
      BY <1>3, <2>4 DEF TakeResult
    <3>2. /\ t \in Seq(1..size)
          /\ \A m, n \in DOMAIN t : t[m] = t[n] => m = n
          /\ \A i \in 1..size : PartitionOf(i) = p <=> \E n \in DOMAIN t : t[n] = i
      BY <1>t, ItemsOfPartition
    <3>3. /\ s \in Seq(1..size)
          /\ \A m, n \in DOMAIN s : s[m] = s[n] => m = n
          /\ \A i \in 1..size :
                PartitionOf(i) \in taken \ failed <=> \E n \in DOMAIN s : s[n] = i
      BY <1>t DEF CollectedMapped
    <3> HIDE DEF s, t
    <3>4. /\ Len(s) \in Nat /\ Len(t) \in Nat
          /\ DOMAIN s = 1..Len(s) /\ DOMAIN t = 1..Len(t)
          /\ DOMAIN (s \o t) = 1..Len(s) + Len(t)
          /\ \A n \in 1..Len(s) : (s \o t)[n] = s[n]
          /\ \A n \in 1..Len(t) : Len(s) + n \in DOMAIN (s \o t) /\ (s \o t)[Len(s) + n] = t[n]
      BY <3>2, <3>3
    <3>5. \A n \in DOMAIN (s \o t) : n \in DOMAIN s \/ (n - Len(s) \in DOMAIN t
                                        /\ n = Len(s) + (n - Len(s)))
      BY <3>4
    <3>6. \A m \in DOMAIN s, n \in DOMAIN t : s[m] # t[n]
      <4> TAKE m \in DOMAIN s, n \in DOMAIN t
      <4>1. s[m] \in 1..size /\ t[n] \in 1..size
        BY <3>2, <3>3, ElementType
      <4>2. PartitionOf(s[m]) \in taken \ failed /\ PartitionOf(t[n]) = p
        BY <3>2, <3>3, <4>1
      <4> QED
        BY <2>1, <4>2
    <3>7. ASSUME NEW i \in 1..size
          PROVE  PartitionOf(i) \in taken' \ failed <=> \E n \in DOMAIN (s \o t) : (s \o t)[n] = i
      <4>1. PartitionOf(i) \in taken' \ failed
               <=> PartitionOf(i) \in taken \ failed \/ PartitionOf(i) = p
        BY <2>1, <2>4
      <4>2. (\E n \in DOMAIN (s \o t) : (s \o t)[n] = i)
               <=> (\E n \in DOMAIN s : s[n] = i) \/ (\E n \in DOMAIN t : t[n] = i)
        BY <3>4, <3>5
      <4> QED
        BY <3>2, <3>3, <4>1, <4>2
    <3>8. ASSUME NEW m \in DOMAIN (s \o t), NEW n \in DOMAIN (s \o t), (s \o t)[m] = (s \o t)[n]
          PROVE  m = n
      <4>1. CASE m \in DOMAIN s /\ n \in DOMAIN s
        BY <3>3, <3>4, <3>8, <4>1
      <4>2. CASE m \in DOMAIN s /\ n \notin DOMAIN s
        BY <3>4, <3>5, <3>6, <3>8, <4>2
      <4>3. CASE m \notin DOMAIN s /\ n \in DOMAIN s
        BY <3>4, <3>5, <3>6, <3>8, <4>3
      <4>4. CASE m \notin DOMAIN s /\ n \notin DOMAIN s
        <5>1. /\ m - Len(s) \in DOMAIN t /\ n - Len(s) \in DOMAIN t
              /\ t[m - Len(s)] = t[n - Len(s)]
          BY <3>4, <3>5, <3>8, <4>4
        <5>2. m - Len(s) = n - Len(s)
          BY <3>2, <5>1
        <5> QED
          BY <3>4, <5>2
      <4> QED
        BY <4>1, <4>2, <4>3, <4>4
    <3> QED
      BY <2>1, <2>2, <3>1, <3>7, <3>8 DEF CollectedMapped, s, t
  <2> QED
    BY <2>3, <2>4
<1> QED
  BY <1>1, <1>2, <1>3
     DEF Next, vars, input, Subscribe, CallerReturns, StartNext, DrainEnds, OtherComes,
         OtherEnds, PoolChanges
-----------------------------------------------------------------------------
(* What is put together from the items that were mapped is what ParallelMap *)
(* promises.                                                               *)
LEMMA ValuePromised ==
    ASSUME IInv, TypeOK, CollectedMapped, method \in {"list", "map", "void"},
           \A i \in 1..size : Fate[i] = "mapped" <=> PartitionOf(i) \in taken \ failed
    PROVE  Abstract!Promised(Value)
<1> DEFINE M == Abstract!Mapped
<1>1. /\ collected \in Seq(1..size) /\ size \in Nat
      /\ \A m, n \in DOMAIN collected : collected[m] = collected[n] => m = n
  BY DEF IInv, TypeOK, CollectedMapped
<1>2. M = {i \in 1..size : Fate[i] = "mapped"}
  BY DEF Abstract!Mapped, Fate
<1>3. \A i \in 1..size : i \in M <=> \E n \in DOMAIN collected : collected[n] = i
  BY <1>2 DEF CollectedMapped
<1>4. M \subseteq 1..size
  BY <1>2
<1>5. \A n \in DOMAIN collected : collected[n] \in M
  BY <1>1, <1>3
<1>6. collected \in Seq(Nat)
  BY <1>1
<1> HIDE DEF M
<1>7. CASE method = "list"
  <2> DEFINE v == Sorted(collected)
  <2>1. /\ DOMAIN v = 1..Len(collected)
        /\ \A r \in DOMAIN v : \E i \in DOMAIN collected : v[r] = collected[i]
        /\ \A i \in DOMAIN collected : \E r \in DOMAIN v : v[r] = collected[i]
        /\ \A q, r \in DOMAIN v : q < r => v[q] < v[r]
    BY <1>1, <1>6, SortedInOrder
  <2>2. v = [r \in DOMAIN v |-> v[r]]
    BY DEF Sorted
  <2> HIDE DEF v
  <2>3. Len(collected) \in Nat /\ \A r \in 1..Len(collected) : v[r] \in M
    <3>1. \A r \in DOMAIN v : v[r] \in M
      <4> TAKE r \in DOMAIN v
      <4>1. PICK i \in DOMAIN collected : v[r] = collected[i]
        BY <2>1
      <4> QED
        BY <1>5, <4>1
    <3>2. Len(collected) \in Nat
      BY <1>6
    <3> QED
      BY <2>1, <3>1, <3>2
  <2>4. v \in Seq(M)
    BY <2>1, <2>2, <2>3
  <2>5. \A i \in M : \E r \in DOMAIN v : v[r] = i
    BY <1>3, <1>4, <2>1
  <2>6. Abstract!InOrder(v)
    BY <2>1, <2>4, <2>5 DEF Abstract!InOrder, M
  <2>7. Value = v
    BY <1>7 DEF Value, v
  <2> QED
    BY <1>7, <2>6, <2>7 DEF Abstract!Promised
<1>8. CASE method = "map"
  <2>1. /\ DOMAIN PutTogether = {Key[collected[n]] : n \in DOMAIN collected}
        /\ \A k \in DOMAIN PutTogether : \E n \in DOMAIN collected :
              PutTogether[k] = collected[n] /\ Key[collected[n]] = k
    BY <1>6, PutTogetherKeys
  <2>2. {Key[collected[n]] : n \in DOMAIN collected} = {Key[i] : i \in M}
    <3>1. ASSUME NEW i \in M PROVE Key[i] \in {Key[collected[n]] : n \in DOMAIN collected}
      <4>1. PICK n \in DOMAIN collected : collected[n] = i
        BY <1>3, <1>4
      <4> QED
        BY <4>1
    <3>2. ASSUME NEW n \in DOMAIN collected PROVE Key[collected[n]] \in {Key[i] : i \in M}
      BY <1>5
    <3> QED
      BY <3>1, <3>2
  <2>3. \A k \in DOMAIN PutTogether : PutTogether[k] \in {i \in M : Key[i] = k}
    BY <1>5, <2>1
  <2>4. Value = PutTogether
    BY <1>8 DEF Value
  <2> QED
    BY <1>8, <2>1, <2>2, <2>3, <2>4 DEF Abstract!Promised, M
<1>9. CASE method = "void"
  BY <1>9 DEF Abstract!Promised, Value
<1> QED
  BY <1>7, <1>8, <1>9

LEMMA FateUnmoved ==
    ASSUME UNCHANGED <<size, partitionSize, failed>>, ready' \cup taken' = ready \cup taken
    PROVE  Fate' = Fate
<1>1. \A i : PartitionFate(PartitionOf(i))' = PartitionFate(PartitionOf(i))
  BY DEF PartitionFate, PartitionOf
<1> QED
  BY <1>1 DEF Fate

(* The future is completed with what was promised, if at all. *)
LEMMA CompletesPromised ==
    ASSUME RInv, Completes, future = <<>>, UNCHANGED <<method, Fate>>
    PROVE  Abstract!Complete \/ UNCHANGED <<method, Fate, future>>
<1>1. CASE ~AllTaken
  BY <1>1 DEF Completes
<1>2. CASE AllTaken
  <2>1. future' = <<Value>> /\ Len(future') = 1 /\ future'[1] = Value
    BY <1>2 DEF Completes
  <2>2. Partitions \subseteq taken /\ size \in Nat /\ partitionSize \in Nat \ {0}
    BY <1>2 DEF AllTaken, Active, Partitions, RInv, IInv
  <2>3. \A i \in 1..size : PartitionOf(i) \in taken
    BY <2>2, PartitionOfType
  <2>4. \A i \in 1..size : Fate[i] = IF PartitionOf(i) \in failed THEN "failed" ELSE "mapped"
    BY <2>3 DEF Fate, PartitionFate
  <2>5. \A i \in DOMAIN Fate : Fate[i] # "pending"
    BY <2>4 DEF Fate
  <2>6. \A i \in 1..size : Fate[i] = "mapped" <=> PartitionOf(i) \in taken \ failed
    BY <2>3, <2>4
  <2>7. Abstract!Promised(Value)
    BY <2>6, ValuePromised DEF RInv
  <2>8. Abstract!Promised(future'[1])
    BY <2>1, <2>7, Zenon
  <2> QED
    BY <2>1, <2>5, <2>8 DEF Abstract!Complete
<1> QED
  BY <1>1, <1>2

LEMMA ParallelMapInit == Init => Abstract!PMInit
<1> SUFFICES ASSUME Init PROVE Abstract!PMInit
  OBVIOUS
<1>1. /\ ready = {} /\ taken = {} /\ collected = <<>> /\ size \in Nat
      /\ method \in {"list", "map", "void"}
  BY ProcessorAssumption DEF Init
<1>2. DOMAIN Fate = 1..size /\ \A i \in 1..size : Fate[i] = "pending"
  BY <1>1 DEF Fate, PartitionFate
<1>3. CASE size > 0
  <2>1. 1 \in DOMAIN Fate
    BY <1>1, <1>2, <1>3
  <2>2. Fate # <<>> /\ future = <<>>
    BY <1>3, <2>1 DEF Init
  <2> QED
    BY <1>1, <1>2, <2>2 DEF Abstract!PMInit
<1>4. CASE size = 0
  <2>1. future = <<Value>> /\ Len(future) = 1 /\ future[1] = Value
    BY <1>4 DEF Init
  <2>2. IInv /\ TypeOK /\ CollectedMapped
    BY InvInit, OnceInit, TypeInit
  <2>3. Abstract!Promised(Value)
    BY <1>1, <1>4, <2>2, ValuePromised
  <2>4. Abstract!Promised(future[1])
    BY <2>1, <2>3, Zenon
  <2>5. Fate = <<>>
    BY <1>4 DEF Fate
  <2> QED
    BY <1>1, <1>2, <2>1, <2>4, <2>5 DEF Abstract!PMInit
<1> QED
  BY <1>1, <1>3, <1>4

LEMMA ParallelMapNext ==
    RInv /\ [Next]_vars => [Abstract!Decide \/ Abstract!Complete]_<<method, Fate, future>>
<1> SUFFICES ASSUME RInv, [Next]_vars
             PROVE  Abstract!Decide \/ Abstract!Complete \/ UNCHANGED <<method, Fate, future>>
  OBVIOUS
<1>1. CASE UNCHANGED <<method, size, partitionSize, ready, taken, failed, future>>
  BY <1>1, FateUnmoved
<1>2. CASE CallerReturns
  <2>1. UNCHANGED <<method, Fate>> /\ future = <<>>
    BY <1>2, FateUnmoved DEF CallerReturns, input, RInv, LeftAlone
  <2> QED
    BY <1>2, <2>1, CompletesPromised DEF CallerReturns
<1>3. CASE DrainEnds
  <2>1. UNCHANGED <<method, Fate>> /\ future = <<>>
    BY <1>3, FateUnmoved DEF DrainEnds, input, RInv, LeftAlone
  <2> QED
    BY <1>3, <2>1, CompletesPromised DEF DrainEnds
<1>4. ASSUME NEW p \in Partitions, TakeResult(p)
      PROVE  UNCHANGED <<method, Fate, future>>
  BY <1>4, FateUnmoved DEF TakeResult, input
<1>5. ASSUME NEW p \in Partitions, MapEnds(p)
      PROVE  Abstract!Decide \/ UNCHANGED <<method, Fate, future>>
  <2>1. /\ p \in mapping /\ p \notin ready \cup taken
        /\ ready' = ready \cup {p} /\ (failed' = failed \/ failed' = failed \cup {p})
        /\ UNCHANGED <<method, size, partitionSize, taken, future>>
    BY <1>5 DEF MapEnds, RInv, InOnePlace, input
  <2> DEFINE outcome == IF p \in failed' THEN "failed" ELSE "mapped"
  <2>2. DOMAIN Fate = 1..size /\ DOMAIN Fate' = 1..size
    BY <2>1 DEF Fate
  <2>3. ASSUME NEW i \in 1..size
        PROVE  Fate'[i] = IF PartitionOf(i) = p THEN outcome ELSE Fate[i]
    <3>1. /\ Fate[i] = PartitionFate(PartitionOf(i))
          /\ Fate'[i] = PartitionFate(PartitionOf(i))'
          /\ PartitionOf(i)' = PartitionOf(i)
      BY <2>1 DEF Fate, PartitionOf
    <3> QED
      BY <2>1, <3>1 DEF PartitionFate
  <2>4. \A i \in 1..size : PartitionOf(i) = p => Fate[i] = "pending"
    BY <2>1 DEF Fate, PartitionFate
  <2>5. outcome \in {"mapped", "failed"}
    OBVIOUS
  <2> HIDE DEF outcome
  <2>6. CASE Fate' = Fate
    BY <2>1, <2>6
  <2>7. CASE Fate' # Fate
    BY <2>1, <2>2, <2>3, <2>4, <2>5, <2>7 DEF Abstract!Decide
  <2> QED
    BY <2>6, <2>7
<1> QED
  BY <1>1, <1>2, <1>3, <1>4, <1>5
     DEF Next, vars, input, Subscribe, StartNext, OtherComes, OtherEnds, PoolChanges

(* ParallelProcessor implements ParallelMap, on any pool and for any input *)
(* and partition size: the future is completed once, when every item is    *)
(* mapped or has failed, with the list in the order of the input, or the   *)
(* map with all the keys, of exactly the items that were mapped.           *)
THEOREM ImplementsParallelMapCorrect == Spec => ImplementsParallelMap
<1>1. Init => RInv
  BY InvInit, TypeInit, OnceInit DEF RInv, Init
<1>2. RInv /\ [Next]_vars => RInv'
  <2>1. UNCHANGED method \/ ~[Next]_vars
    BY DEF Next, vars, input, Subscribe, CallerReturns, StartNext, MapEnds, TakeResult,
           DrainEnds, OtherComes, OtherEnds, PoolChanges
  <2> QED
    BY <2>1, InvNext, TypeNext, OnceNext, CollectedNext, LeftAloneNext DEF RInv
<1> QED
  BY <1>1, <1>2, ParallelMapInit, ParallelMapNext, PTL
     DEF Spec, ImplementsParallelMap, Abstract!PMSpec
-----------------------------------------------------------------------------
(* How adjustSize moves a size. *)
LEMMA AdjustSizeSteps ==
    ASSUME NEW desired \in Nat, NEW now \in Nat
    PROVE  LET new == adjustSize(desired, now)
           IN  /\ new \in Nat
               /\ now <= desired => new \in now..desired
               /\ now >= desired => new \in desired..now
               /\ now <= 4 => new = now
               /\ now >= 5 /\ now # desired => new # now
               /\ now >= 5 /\ desired >= 4 => new >= 5 \/ new = desired
               /\ now >= 5 /\ desired < 4 => new >= 4
<1> DEFINE tenth == (now + 5) \div 10
           new == adjustSize(desired, now)
<1>1. /\ tenth \in Nat /\ 10 * tenth <= now + 5 /\ now + 5 < 10 * tenth + 10
  OBVIOUS
<1>2. /\ now <= 4 => tenth = 0
      /\ now >= 5 => tenth >= 1 /\ tenth <= now
      /\ now >= 6 => now - tenth >= 5
  BY <1>1
<1> HIDE DEF tenth
<1>3. CASE desired > now
  <2>1. new = now + (IF desired - now <= tenth THEN desired - now ELSE tenth)
    BY <1>3 DEF adjustSize, Towards, Smaller, Distance, tenth
  <2> QED
    BY <1>1, <1>2, <1>3, <2>1
<1>4. CASE desired <= now
  <2>1. new = now - (IF now - desired <= tenth THEN now - desired ELSE tenth)
    BY <1>4 DEF adjustSize, Towards, Smaller, Distance, tenth
  <2> QED
    BY <1>1, <1>2, <1>4, <2>1
<1> QED
  BY <1>3, <1>4

(* The size that resets come to: none goes below four. *)
Goal(desired) == IF desired < 4 THEN 4 ELSE desired

(* Sizes from which the goal is reached. *)
Movable(desired) == {n \in Nat : n >= 5 \/ n = Goal(desired)}

(* From now, new is at the goal or k nearer to it. *)
Nearer(desired, now, new, k) ==
    /\ new \in Movable(desired)
    /\ \/ new = Goal(desired)
       \/ Distance(Goal(desired), new) + k <= Distance(Goal(desired), now)

LEMMA AdjustSizeNearer ==
    ASSUME NEW desired \in Nat, NEW now \in Movable(desired)
    PROVE  Nearer(desired, now, adjustSize(desired, now), 1)
<1>1. now \in Nat /\ Goal(desired) \in Nat
  BY DEF Movable, Goal
<1>2. CASE desired >= 4
  <2>1. Goal(desired) = desired
    BY <1>2 DEF Goal
  <2>2. CASE now = desired
    BY <1>1, <2>1, <2>2, AdjustSizeSteps DEF Nearer, Movable
  <2>3. CASE now # desired
    <3>1. now >= 5
      BY <2>1, <2>3 DEF Movable
    <3> DEFINE new == adjustSize(desired, now)
    <3>2. /\ new \in Nat /\ new # now /\ (new >= 5 \/ new = desired)
          /\ now <= desired => new \in now..desired
          /\ now >= desired => new \in desired..now
      BY <1>1, <1>2, <2>3, <3>1, AdjustSizeSteps
    <3> HIDE DEF new
    <3>3. new \in Movable(desired)
      BY <2>1, <3>2 DEF Movable
    <3>4. Distance(desired, new) + 1 <= Distance(desired, now)
      BY <1>1, <2>3, <3>2 DEF Distance
    <3> QED
      BY <2>1, <3>3, <3>4 DEF Nearer, new
  <2> QED
    BY <2>2, <2>3
<1>3. CASE desired < 4
  <2>1. Goal(desired) = 4
    BY <1>3 DEF Goal
  <2>2. CASE now = 4
    BY <1>1, <2>1, <2>2, AdjustSizeSteps DEF Nearer, Movable
  <2>3. CASE now # 4
    <3>1. now >= 5
      BY <2>1, <2>3 DEF Movable
    <3> DEFINE new == adjustSize(desired, now)
    <3>2. new \in Nat /\ new # now /\ new >= 4 /\ new \in desired..now
      BY <1>1, <1>3, <2>3, <3>1, AdjustSizeSteps
    <3> HIDE DEF new
    <3>3. new \in Movable(desired)
      BY <2>1, <3>2 DEF Movable
    <3>4. Distance(4, new) + 1 <= Distance(4, now)
      BY <1>1, <3>1, <3>2 DEF Distance
    <3> QED
      BY <2>1, <3>3, <3>4 DEF Nearer, new
  <2> QED
    BY <2>2, <2>3
<1> QED
  BY <1>2, <1>3

(* Asked for again and again, every size of four or more is reached from   *)
(* any of five or more, and four if less is asked for: whatever contains   *)
(* the size of the pool and, with a size, the one after the next reset,    *)
(* contains the goal.                                                      *)
THEOREM EverySizeIsReached ==
    ASSUME NEW desired \in Nat, NEW now \in Nat, now >= 5,
           NEW S \in SUBSET Nat, now \in S,
           \A n \in S : adjustSize(desired, n) \in S
    PROVE  (IF desired < 4 THEN 4 ELSE desired) \in S
<1> DEFINE goal == Goal(desired)
           Visited == S \cap Movable(desired)
           Left == {Distance(goal, n) : n \in Visited}
<1>1. goal \in Nat /\ now \in Visited
  BY DEF Goal, Movable
<1>2. Left \in SUBSET Nat /\ Left # {}
  BY <1>1 DEF Distance
<1>3. PICK l \in Left : \A u \in Left : ~(<<u, l>> \in OpToRel(<, Nat))
  BY <1>2, NatLessThanWellFounded, WFMin
<1>4. PICK n \in Visited : l = Distance(goal, n)
  BY <1>3
<1> DEFINE new == adjustSize(desired, n)
<1>5. Nearer(desired, n, new, 1)
  BY AdjustSizeNearer
<1>6. new \in Visited
  BY <1>5 DEF Nearer
<1>7. ~(Distance(goal, new) < Distance(goal, n))
  BY <1>2, <1>3, <1>4, <1>6 DEF OpToRel
<1>8. Distance(goal, new) \in Nat /\ Distance(goal, n) \in Nat
  BY <1>2, <1>4, <1>6
<1>9. new = goal
  BY <1>5, <1>7, <1>8 DEF Nearer
<1> QED
  BY <1>6, <1>9 DEF Goal

(* Two series of resets, one after the other. *)
LEMMA NearerTwice ==
    ASSUME NEW desired \in Nat, NEW now \in Movable(desired), NEW k \in Nat,
           NEW new \in Movable(desired), NEW newer,
           Nearer(desired, now, new, k), Nearer(desired, new, newer, k)
    PROVE  Nearer(desired, now, newer, k + k)
<1>1. /\ Goal(desired) \in Nat /\ now \in Nat /\ new \in Nat
      /\ newer \in Movable(desired) /\ newer \in Nat
  BY DEF Nearer, Movable, Goal
<1>2. CASE newer = Goal(desired)
  BY <1>1, <1>2 DEF Nearer
<1>3. CASE newer # Goal(desired)
  <2>1. Distance(Goal(desired), newer) + k <= Distance(Goal(desired), new)
    BY <1>3 DEF Nearer
  <2>2. CASE new = Goal(desired)
    BY <1>1, <1>3, <2>1, <2>2 DEF Distance
  <2>3. CASE Distance(Goal(desired), new) + k <= Distance(Goal(desired), now)
    BY <1>1, <2>1, <2>3 DEF Nearer, Distance
  <2> QED
    BY <2>2, <2>3 DEF Nearer
<1> QED
  BY <1>2, <1>3

LEMMA ResetsNearer ==
    ASSUME NEW desired \in Nat, NEW now \in Movable(desired)
    PROVE  Nearer(desired, now, Resets64(desired, now), 64)
<1>1. \A n \in Movable(desired) : Nearer(desired, n, adjustSize(desired, n), 1)
  BY AdjustSizeNearer
<1>2. \A n \in Movable(desired) : Nearer(desired, n, Resets2(desired, n), 2)
  BY <1>1, NearerTwice, 1 + 1 = 2 DEF Resets2, Nearer
<1>4. \A n \in Movable(desired) : Nearer(desired, n, Resets4(desired, n), 4)
  BY <1>2, NearerTwice, 2 + 2 = 4 DEF Resets4, Nearer
<1>8. \A n \in Movable(desired) : Nearer(desired, n, Resets8(desired, n), 8)
  BY <1>4, NearerTwice, 4 + 4 = 8 DEF Resets8, Nearer
<1>16. \A n \in Movable(desired) : Nearer(desired, n, Resets16(desired, n), 16)
  BY <1>8, NearerTwice, 8 + 8 = 16 DEF Resets16, Nearer
<1>32. \A n \in Movable(desired) : Nearer(desired, n, Resets32(desired, n), 32)
  BY <1>16, NearerTwice, 16 + 16 = 32 DEF Resets32, Nearer
<1>64. \A n \in Movable(desired) : Nearer(desired, n, Resets64(desired, n), 64)
  BY <1>32, NearerTwice, 32 + 32 = 64 DEF Resets64, Nearer
<1> QED
  BY <1>64

(* A size of four or less stays. *)
LEMMA ResetsNothing ==
    ASSUME NEW desired \in Nat, NEW now \in 0..4
    PROVE  Resets64(desired, now) = now
<1>1. adjustSize(desired, now) = now
  <2>1. now \in Nat /\ now <= 4
    OBVIOUS
  <2> QED
    BY <2>1, AdjustSizeSteps
<1> QED
  BY <1>1 DEF Resets64, Resets32, Resets16, Resets8, Resets4, Resets2

LEMMA AnyIsReached == AnyReached
<1>1. ASSUME NEW now \in Sampled, NEW desired \in Sampled
      PROVE  Arrives(now, desired) /\ NotBeyond(now, desired)
  <2>1. now \in Nat /\ desired \in Nat /\ now <= 40 /\ desired <= 40
    BY DEF Sampled
  <2>2. NotBeyond(now, desired)
    <3> DEFINE new == adjustSize(desired, now)
    <3>1. /\ now <= desired => new \in now..desired
          /\ now >= desired => new \in desired..now
      BY <2>1, AdjustSizeSteps
    <3> HIDE DEF new
    <3>2. new \in (now..desired) \cup (desired..now)
      BY <2>1, <3>1
    <3> QED
      BY <3>2 DEF NotBeyond, new
  <2>3. CASE now <= 4
    BY <2>1, <2>2, <2>3, ResetsNothing DEF Arrives
  <2>4. CASE now >= 5
    <3>1. now \in Movable(desired)
      BY <2>1, <2>4 DEF Movable
    <3> DEFINE new == Resets64(desired, now)
    <3>2. Nearer(desired, now, new, 64)
      BY <2>1, <3>1, ResetsNearer
    <3> HIDE DEF new
    <3>3. Goal(desired) \in 0..40 /\ new \in Nat
      BY <2>1, <3>2 DEF Goal, Nearer, Movable
    <3>4. new = Goal(desired)
      BY <2>1, <3>2, <3>3 DEF Nearer, Distance
    <3> QED
      BY <2>1, <2>2, <2>4, <3>4 DEF Arrives, Goal, new
  <2> QED
    BY <2>1, <2>3, <2>4
<1> QED
  BY <1>1 DEF AnyReached, Reached

(* A reset within the sampled sizes stays there. *)
LEMMA AdjustSizeSampled ==
    ASSUME NEW desired \in Sampled, NEW now \in Sampled
    PROVE  adjustSize(desired, now) \in Sampled
<1> DEFINE new == adjustSize(desired, now)
<1>1. now \in 0..40 /\ desired \in 0..40 /\ now \in Nat /\ desired \in Nat
  BY DEF Sampled
<1>2. /\ now <= desired => new \in now..desired
      /\ now >= desired => new \in desired..now
  BY <1>1, AdjustSizeSteps
<1> HIDE DEF new
<1>3. new \in 0..40
  BY <1>1, <1>2
<1> QED
  BY <1>3 DEF Sampled, new

(* For a pool whose sizes, and those asked for, are among the sampled ones *)
(* (up to 40): it keeps to them, and every size that can be reached from   *)
(* one of them is.                                                         *)
THEOREM AdjustSizeReachesCorrect ==
    {CoreSize, MaxSize} \cup Desired \subseteq Sampled /\ Spec => []AdjustSizeReaches
<1> SUFFICES ASSUME {CoreSize, MaxSize} \cup Desired \subseteq Sampled
             PROVE  Spec => []AdjustSizeReaches
  OBVIOUS
<1>1. Init => {core, max} \subseteq Sampled
  BY DEF Init, PoolInit
<1>2. {core, max} \subseteq Sampled /\ [Next]_vars => ({core, max} \subseteq Sampled)'
  <2> SUFFICES ASSUME core \in Sampled, max \in Sampled, [Next]_vars
               PROVE  core' \in Sampled /\ max' \in Sampled
    OBVIOUS
  <2>1. ASSUME NEW d \in Desired, resetCoreSize(d) PROVE core' \in Sampled /\ max' \in Sampled
    BY <2>1, AdjustSizeSampled DEF resetCoreSize
  <2>2. ASSUME NEW d \in Desired, resetMaximumPoolSize(d)
        PROVE  core' \in Sampled /\ max' \in Sampled
    BY <2>2, AdjustSizeSampled DEF resetMaximumPoolSize
  <2>3. CASE UNCHANGED <<core, max>>
    BY <2>3
  <2>4. CASE Resize
    BY <2>1, <2>2, <2>3, <2>4 DEF Resize, resetQueueSize
  <2> QED
    BY <2>3, <2>4
       DEF Next, vars, pool, sizes, Subscribe, Execute, CallerReturns, StartNext, Take, MapEnds,
           TaskEnds, TakeResult, DrainEnds, OtherComes, OtherEnds, PoolChanges, Leave
<1>3. {core, max} \subseteq Sampled => AdjustSizeReaches
  BY AnyIsReached DEF AdjustSizeReaches
<1> QED
  BY <1>1, <1>2, <1>3, PTL DEF Spec
=============================================================================
