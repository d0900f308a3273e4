------------------------- MODULE ParallelProcessor -------------------------
(***************************************************************************)
(* ParallelProcessor on a pool that it shares with other tasks: one call   *)
(* of processListResult, processMapResult or process.                      *)
(*                                                                         *)
(* The input is split into partitions, each is mapped by a task of the     *)
(* pool, and the results are put together one at a time (flatMap and       *)
(* collect) by a thread that has come with a result while no other was at  *)
(* it: it takes the results of the others too, and subscribes to further   *)
(* partitions in the place of the caller.  A partition that the pool       *)
(* rejects is reported to the error handler of RxJava and to nobody else.  *)
(* An input of one partition goes the same way, without a merge.           *)
(***************************************************************************)
EXTENDS ThreadPool, SequencesExt

CONSTANTS Sizes,           \* the sizes of the input
          PartitionSizes,
          Key,             \* Key[i]: the key that processMapResult gets for item i
          MaxConcurrency   \* of flatMap: partitions subscribed to at a time

ASSUME ProcessorAssumption ==
    /\ Sizes \subseteq Nat
    /\ PartitionSizes \subseteq Nat \ {0}
    /\ MaxConcurrency \in Nat \ {0}

VARIABLES method,     \* "list", "map" or "void"
          size, partitionSize,
          caller,     \* "subscribing" or "returned"
          subscribed, \* the number of partitions subscribed to
          rejected,   \* partitions the pool has rejected
          mapping,    \* partitions whose mapFunc runs
          ready,      \* partitions with a result that is not taken yet
          failed,     \* partitions whose result is returnOnErrorItem
          drainer,    \* a worker is putting results together
          taken,      \* partitions whose result is taken
          collected,  \* what addAll or putAll was called with: items stand for results
          future      \* <<>>, and <<value>> once it is completed

input == <<method, size, partitionSize>>
vars == <<pool, input, caller, subscribed, rejected, mapping, ready, failed, drainer, taken, collected, future>>

Other == 0   \* a task of somebody else
Count == (size + partitionSize - 1) \div partitionSize
Partitions == 1..Count
ItemsOf(p) == [n \in 1..(Smaller(size, p * partitionSize) - (p - 1) * partitionSize)
                 |-> (p - 1) * partitionSize + n]
PartitionOf(i) == (i + partitionSize - 1) \div partitionSize

(* A stable sort: Rank is the place that an item comes to. *)
Rank(s, n) == Cardinality({m \in DOMAIN s : s[m] < s[n] \/ (s[m] = s[n] /\ m <= n)})
Sorted(s)  == [r \in DOMAIN s |-> s[CHOOSE n \in DOMAIN s : Rank(s, n) = r]]

(* putAll keeps the value that is put last. *)
PutTogether ==
    [k \in {Key[collected[n]] : n \in DOMAIN collected} |->
        collected[CHOOSE n \in DOMAIN collected :
                    /\ Key[collected[n]] = k
                    /\ \A o \in n + 1..Len(collected) : Key[collected[o]] # k]]

(* Mutant of Value: the list is not sorted. *)
ValueUnsorted ==
    CASE method = "list" -> collected
      [] method = "map"  -> PutTogether
      [] method = "void" -> "void"

Value ==
    CASE method = "list" -> Sorted(collected)
      [] method = "map"  -> PutTogether
      [] method = "void" -> "void"

(* An empty input is answered at once. *)
Init ==
    /\ PoolInit
    /\ method \in {"list", "map", "void"}
    /\ size \in Sizes /\ partitionSize \in PartitionSizes
    /\ caller = IF size = 0 THEN "returned" ELSE "subscribing"
    /\ subscribed = 0
    /\ rejected = {} /\ mapping = {} /\ ready = {} /\ failed = {}
    /\ drainer = FALSE
    /\ taken = {} /\ collected = <<>>
    /\ future = IF size = 0 THEN <<Value>> ELSE <<>>
-----------------------------------------------------------------------------
Active == (1..subscribed) \ taken
CanSubscribe == subscribed < Count /\ Cardinality(Active) < MaxConcurrency
AllTaken == subscribed = Count /\ Active = {}

(* The caller, or else the worker that drains, hands the next partition to *)
(* the pool.                                                               *)
Subscribe ==
    /\ CanSubscribe
    /\ caller = "subscribing" \/ drainer
    /\ subscribed' = subscribed + 1
    /\ \/ /\ Execute(subscribed + 1)
          /\ mapping' = IF StartsNow THEN mapping \cup {subscribed + 1} ELSE mapping
          /\ UNCHANGED rejected
       \/ /\ Rejects
          /\ rejected' = rejected \cup {subscribed + 1}
          /\ UNCHANGED <<pool, mapping>>
    /\ UNCHANGED <<input, caller, ready, failed, drainer, taken, collected, future>>

(* Whoever sees the last of it completes the future. *)
Completes == future' = IF AllTaken THEN <<Value>> ELSE future

CallerReturns ==
    /\ caller = "subscribing" /\ ~CanSubscribe
    /\ caller' = "returned"
    /\ IF drainer THEN UNCHANGED future ELSE Completes
    /\ UNCHANGED <<pool, input, subscribed, rejected, mapping, ready, failed, drainer, taken, collected>>

StartNext ==
    /\ Take
    /\ mapping' = IF Head(queue) = Other THEN mapping ELSE mapping \cup {Head(queue)}
    /\ UNCHANGED <<input, caller, subscribed, rejected, ready, failed, drainer, taken, collected, future>>

(* mapFunc returns, throws, or returns a list of another size than its     *)
(* input, which processListResult does not accept.                         *)
Outcomes == IF method = "list" THEN {"returns", "throws", "short"} ELSE {"returns", "throws"}

(* Mutant of MapEnds: an error is swallowed, and no result comes of it. *)
MapEndsOrDies(p) ==
    /\ p \in mapping
    /\ mapping' = mapping \ {p}
    /\ \E how \in Outcomes :
          /\ failed' = IF how = "returns" THEN failed ELSE failed \cup {p}
          /\ ready' = IF how = "returns" THEN ready \cup {p} ELSE ready
    /\ drainer' = TRUE
    /\ IF drainer THEN TaskEnds ELSE UNCHANGED pool
    /\ UNCHANGED <<input, caller, subscribed, rejected, taken, collected, future>>

(* The worker leaves its result to the one that drains, or drains itself. *)
MapEnds(p) ==
    /\ p \in mapping
    /\ mapping' = mapping \ {p}
    /\ \E how \in Outcomes : failed' = IF how = "returns" THEN failed ELSE failed \cup {p}
    /\ ready' = ready \cup {p}
    /\ drainer' = TRUE
    /\ IF drainer THEN TaskEnds ELSE UNCHANGED pool
    /\ UNCHANGED <<input, caller, subscribed, rejected, taken, collected, future>>

TakeResult(p) ==
    /\ drainer /\ p \in ready
    /\ ready' = ready \ {p}
    /\ taken' = taken \cup {p}
    /\ collected' = IF p \in failed THEN collected ELSE collected \o ItemsOf(p)
    /\ UNCHANGED <<pool, input, caller, subscribed, rejected, mapping, failed, drainer, future>>

DrainEnds ==
    /\ drainer /\ ready = {}
    /\ caller = "subscribing" \/ ~CanSubscribe
    /\ drainer' = FALSE
    /\ TaskEnds
    /\ IF caller = "returned" THEN Completes ELSE UNCHANGED future
    /\ UNCHANGED <<input, caller, subscribed, rejected, mapping, ready, failed, taken, collected>>

(* The other tasks of the pool. *)
OthersBusy == busy - Cardinality(mapping) - (IF drainer THEN 1 ELSE 0)

OtherComes ==
    /\ Execute(Other)
    /\ UNCHANGED <<input, caller, subscribed, rejected, mapping, ready, failed, drainer, taken, collected, future>>

OtherEnds ==
    /\ OthersBusy > 0
    /\ TaskEnds
    /\ UNCHANGED <<input, caller, subscribed, rejected, mapping, ready, failed, drainer, taken, collected, future>>

PoolChanges ==
    /\ Leave \/ Resize
    /\ UNCHANGED <<input, caller, subscribed, rejected, mapping, ready, failed, drainer, taken, collected, future>>

Next ==
    \/ Subscribe \/ CallerReturns
    \/ StartNext
    \/ \E p \in Partitions : MapEnds(p) \/ TakeResult(p)
    \/ DrainEnds
    \/ OtherComes \/ OtherEnds \/ PoolChanges

Spec == Init /\ [][Next]_vars

(* The threads go on, and every task ends. *)
Fairness ==
    /\ WF_vars(Subscribe) /\ WF_vars(CallerReturns)
    /\ SF_vars(StartNext)
    /\ WF_vars(\E p \in Partitions : MapEnds(p))
    /\ WF_vars(\E p \in Partitions : TakeResult(p))
    /\ WF_vars(DrainEnds) /\ WF_vars(OtherEnds)

FairSpec == Spec /\ Fairness
-----------------------------------------------------------------------------
Queued == ToSet(queue) \ {Other}

TypeOK ==
    /\ PoolTypeOK
    /\ caller \in {"subscribing", "returned"}
    /\ subscribed \in 0..Count
    /\ rejected \subseteq Partitions /\ mapping \subseteq Partitions
    /\ ready \subseteq Partitions /\ failed \subseteq Partitions
    /\ drainer \in BOOLEAN
    /\ taken \subseteq Partitions /\ collected \in Seq(1..size)
    /\ OthersBusy >= 0

(* No partition that was subscribed to goes missing: it waits, is mapped,  *)
(* has its result in one of two places, or was rejected, and then it is    *)
(* nowhere else.  So a future that is completed has the result of every    *)
(* partition, and with a rejected one it is never completed.               *)
NoPartitionLost ==
    /\ 1..subscribed = Queued \cup mapping \cup ready \cup taken \cup rejected
    /\ rejected \cap (Queued \cup mapping \cup ready \cup taken) = {}
    /\ future # <<>> => /\ taken = Partitions
                        /\ rejected = {}

(* The partitions and the threads are not to be seen from outside. *)
PartitionFate(p) == IF p \notin ready \cup taken THEN "pending"
                    ELSE IF p \in failed THEN "failed" ELSE "mapped"
Fate == [i \in 1..size |-> PartitionFate(PartitionOf(i))]

Abstract == INSTANCE ParallelMap WITH fate <- Fate
ImplementsParallelMap == Abstract!PMSpec

(* The future is completed, whatever else the pool has to do and however   *)
(* it is resized, unless the pool rejected a partition.                    *)
CompletesUnlessRejected == <>(future # <<>> \/ rejected # {})
=============================================================================
