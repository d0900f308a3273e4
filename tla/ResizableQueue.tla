--------------------------- MODULE ResizableQueue ---------------------------
(***************************************************************************)
(* BoundedBlockingQueue and its subclass ResizableBlockingQueue: a queue   *)
(* around a delegate queue that keeps its own count of the elements in an  *)
(* AtomicInteger, reserves a place in the count before it hands an element *)
(* to the delegate, and gives the place back after it took one out.  No    *)
(* lock covers the two, so the count and the delegate differ in between.   *)
(*                                                                         *)
(* The delegate (a LinkedBlockingQueue in ExecutorServices) is external:   *)
(* only the number of its elements matters here.                           *)
(***************************************************************************)
EXTENDS Integers, FiniteSets

CONSTANTS Threads,            \* the threads that use the queue
          InitialCapacity, MinCapacity, MaxCapacity, AdjustAmount,
          Desired,            \* the capacities that adjustCapacity is asked for
          DelegateCapacity,   \* the bound of the delegate itself
          IntMax,             \* the largest int
          MaxLost             \* bound: offers whose delegate call throws

ASSUME ResizableQueueAssumption ==
    /\ IsFiniteSet(Threads)
    /\ InitialCapacity \in Nat
    /\ MinCapacity \in Nat
    /\ MaxCapacity \in Nat
    /\ MaxCapacity >= MinCapacity
    /\ AdjustAmount \in Nat \ {0}
    /\ Desired \subseteq 0..IntMax
    /\ DelegateCapacity \in Nat \ {0}
    /\ IntMax \in Nat
    /\ {InitialCapacity, MaxCapacity, AdjustAmount} \subseteq 0..IntMax
    /\ MaxLost \in Nat

VARIABLES length,     \* the number of elements in the delegate
          size,       \* the AtomicInteger
          capacity,   \* the volatile field
          pc,         \* pc[t]: where thread t is in offer, poll, remove or drainTo
          current,    \* current[t]: the local variable of offer
          taken,      \* taken[t]: elements t took out and has yet to subtract
          lost,       \* places reserved for elements the delegate threw on
          peak        \* the largest capacity there has been

vars == <<length, size, capacity, pc, current, taken, lost, peak>>

larger(a, b)  == IF a >= b THEN a ELSE b
smaller(a, b) == IF a <= b THEN a ELSE b

(* The sum of two ints, as an int. *)
int(n) == IF n > IntMax THEN n - 2 * (IntMax + 1)
          ELSE IF n < -(IntMax + 1) THEN n + 2 * (IntMax + 1) ELSE n

Init ==
    /\ length = 0
    /\ size = 0
    /\ capacity = InitialCapacity
    /\ pc = [t \in Threads |-> "idle"]
    /\ current = [t \in Threads |-> 0]
    /\ taken = [t \in Threads |-> 0]
    /\ lost = 0
    /\ peak = InitialCapacity

Goto(t, label) == pc' = [pc EXCEPT ![t] = label]
Forget(t) == current' = [current EXCEPT ![t] = 0]

-----------------------------------------------------------------------------
(* offer: the count is read, ... *)
OfferRead(t) ==
    /\ pc[t] \in {"idle", "retry"}
    /\ current' = [current EXCEPT ![t] = size]
    /\ Goto(t, "check")
    /\ UNCHANGED <<length, size, capacity, taken, lost, peak>>

(* Mutants of OfferCheck: one element too many; waiting for room. *)
OfferCheckLate(t) ==
    /\ pc[t] = "check"
    /\ \/ current[t] > capacity /\ Goto(t, "idle") /\ Forget(t)
       \/ current[t] <= capacity /\ Goto(t, "reserve") /\ UNCHANGED current
    /\ UNCHANGED <<length, size, capacity, taken, lost, peak>>

OfferCheckSpin(t) ==
    /\ pc[t] = "check"
    /\ \/ current[t] >= capacity /\ Goto(t, "retry") /\ Forget(t)
       \/ current[t] < capacity /\ Goto(t, "reserve") /\ UNCHANGED current
    /\ UNCHANGED <<length, size, capacity, taken, lost, peak>>

(* ... compared with the capacity of the moment (full: offer is false), ... *)
OfferCheck(t) ==
    /\ pc[t] = "check"
    /\ \/ current[t] >= capacity /\ Goto(t, "idle") /\ Forget(t)
       \/ current[t] < capacity /\ Goto(t, "reserve") /\ UNCHANGED current
    /\ UNCHANGED <<length, size, capacity, taken, lost, peak>>

(* Mutant of OfferReserve: a set instead of a compareAndSet. *)
OfferReserveBlind(t) ==
    /\ pc[t] = "reserve"
    /\ size' = 1 + current[t]
    /\ Goto(t, "add")
    /\ Forget(t)
    /\ UNCHANGED <<length, capacity, taken, lost, peak>>

(* ... and incremented, unless it has changed since: then once more. *)
OfferReserve(t) ==
    /\ pc[t] = "reserve"
    /\ \/ size = current[t] /\ size' = 1 + current[t] /\ Goto(t, "add")
       \/ size # current[t] /\ UNCHANGED size /\ Goto(t, "retry")
    /\ Forget(t)
    /\ UNCHANGED <<length, capacity, taken, lost, peak>>

(* The delegate takes the element, or has no room for it and the place is  *)
(* to be given back, or throws and the place is not given back.            *)
OfferAdd(t) ==
    /\ pc[t] = "add"
    /\ \/ /\ length < DelegateCapacity
          /\ length' = length + 1
          /\ Goto(t, "idle")
          /\ UNCHANGED <<taken, lost>>
       \/ /\ length >= DelegateCapacity
          /\ taken' = [taken EXCEPT ![t] = 1]
          /\ Goto(t, "settle")
          /\ UNCHANGED <<length, lost>>
       \/ /\ lost < MaxLost
          /\ lost' = lost + 1
          /\ Goto(t, "idle")
          /\ UNCHANGED <<length, taken>>
    /\ UNCHANGED <<size, capacity, current, peak>>

(* Mutant of Drain: the limit is subtracted, not what was taken out. *)
DrainLimit(t, n) ==
    /\ pc[t] = "idle"
    /\ n \in 1..length
    /\ length' = length - n
    /\ taken' = [taken EXCEPT ![t] = DelegateCapacity + 1]
    /\ Goto(t, "settle")
    /\ UNCHANGED <<size, capacity, current, lost, peak>>

(* drainTo takes n elements out of the delegate, ... *)
Drain(t, n) ==
    /\ pc[t] = "idle"
    /\ n \in 1..length
    /\ length' = length - n
    /\ taken' = [taken EXCEPT ![t] = n]
    /\ Goto(t, "settle")
    /\ UNCHANGED <<size, capacity, current, lost, peak>>

(* ... poll, take, remove and the remove of an iterator take one, ... *)
Remove(t) == Drain(t, 1)

(* ... and the count follows afterwards. *)
Settle(t) ==
    /\ pc[t] = "settle"
    /\ size' = size - taken[t]
    /\ taken' = [taken EXCEPT ![t] = 0]
    /\ Goto(t, "idle")
    /\ UNCHANGED <<length, capacity, current, lost, peak>>

(* Mutant of Adjusted: straight to the desired capacity, within the range. *)
AdjustedAtOnce(d) == smaller(MaxCapacity, larger(MinCapacity, d))

(* adjustCapacity moves the capacity by at most AdjustAmount.  It is the   *)
(* only writer of the field and synchronized: one step.                    *)
Adjusted(d) ==
    IF d > int(capacity + AdjustAmount)
    THEN smaller(MaxCapacity, int(capacity + AdjustAmount))
    ELSE IF d < int(capacity - AdjustAmount)
    THEN larger(MinCapacity, int(capacity - AdjustAmount))
    ELSE d

AdjustCapacity(d) ==
    /\ capacity' = Adjusted(d)
    /\ peak' = larger(peak, capacity')
    /\ UNCHANGED <<length, size, pc, current, taken, lost>>

ThreadStep(t) ==
    \/ OfferRead(t) \/ OfferCheck(t) \/ OfferReserve(t) \/ OfferAdd(t)
    \/ Remove(t) \/ Settle(t)
    \/ \E n \in 2..length : Drain(t, n)

Next ==
    \/ \E t \in Threads : ThreadStep(t)
    \/ \E d \in Desired : AdjustCapacity(d)

Spec == Init /\ [][Next]_vars

(* The JVM runs every thread that is inside a call. *)
Running(t) == pc[t] # "idle" /\ ThreadStep(t)
FairSpec == Spec /\ \A t \in Threads : WF_vars(Running(t))
-----------------------------------------------------------------------------
(* The variables are of the types of the fields and locals. *)
TypeOK ==
    /\ length \in 0..DelegateCapacity
    /\ size \in Int
    /\ capacity \in Int
    /\ pc \in [Threads -> {"idle", "check", "reserve", "retry", "add", "settle"}]
    /\ current \in [Threads -> Int]
    /\ taken \in [Threads -> 0..DelegateCapacity]
    /\ lost \in 0..MaxLost
    /\ peak \in Int

(* The threads with a reserved place, and one pair for each element that   *)
(* was taken out and not yet subtracted.                                   *)
Reserved == {t \in Threads : pc[t] = "add"}
Owed(f)  == {p \in Threads \X (1..DelegateCapacity) : p[2] <= f[p[1]]}

(* The count is the number of elements plus what the calls under way       *)
(* account for.  Hence it never falls behind: size() = 0, which isEmpty    *)
(* and the thread pool go by, means that the delegate is empty.            *)
SizeAccounts ==
    /\ \A t \in Threads : taken[t] # 0 => pc[t] = "settle"
    /\ size = length + Cardinality(Reserved) + Cardinality(Owed(taken)) + lost

(* The queue never holds more elements than the largest capacity allowed,  *)
(* although the capacity is compared with a count read earlier and may     *)
(* have shrunk or grown since.                                             *)
Bounded ==
    /\ capacity <= peak
    /\ length <= size
    /\ size <= peak
    /\ \A t \in Threads : pc[t] = "reserve" => current[t] < peak

(* The threads that offer cannot keep each other from coming to an end. *)
SomeCallReturns == []<>(\E t \in Threads : pc[t] = "idle")

(* From a capacity in its range, adjustCapacity moves it by no more than   *)
(* AdjustAmount, towards the desired capacity and never beyond it.         *)
AdjustsTowards ==
    [][\A d \in Desired :
          /\ AdjustCapacity(d)
          /\ capacity \in MinCapacity..MaxCapacity
          /\ capacity + AdjustAmount <= IntMax
          => /\ capacity' - capacity \in -AdjustAmount..AdjustAmount
             /\ d >= capacity => capacity' \in capacity..d
             /\ d <= capacity => capacity' \in d..capacity]_vars
=============================================================================
