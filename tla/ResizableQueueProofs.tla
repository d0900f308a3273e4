------------------------ MODULE ResizableQueueProofs ------------------------
(* Theorems about ResizableQueue, for any number of threads and any        *)
(* capacities.                                                             *)
EXTENDS ResizableQueue, FiniteSetTheorems, TLAPS

LEMMA IntOfInt == \A n \in Int : int(n) \in Int
  BY ResizableQueueAssumption DEF int

LEMMA AdjustedType == ASSUME TypeOK, NEW d \in Desired PROVE Adjusted(d) \in Int
  <1>1. int(capacity + AdjustAmount) \in Int /\ int(capacity - AdjustAmount) \in Int
    BY IntOfInt, ResizableQueueAssumption DEF TypeOK
  <1>2. d \in Int /\ MaxCapacity \in Int /\ MinCapacity \in Int
    BY ResizableQueueAssumption
  <1>3. QED
    BY <1>1, <1>2 DEF Adjusted, smaller, larger

(* The fields and locals keep their types under every interleaving; in     *)
(* particular no thread ever owes the count more than the delegate holds.  *)
THEOREM TypeCorrect == Spec => []TypeOK
  <1>1. Init => TypeOK
    BY ResizableQueueAssumption DEF Init, TypeOK
  <1>2. TypeOK /\ [Next]_vars => TypeOK'
    <2> SUFFICES ASSUME TypeOK, [Next]_vars PROVE TypeOK'
      OBVIOUS
    <2> USE ResizableQueueAssumption
    <2>1. CASE UNCHANGED vars
      BY <2>1 DEF TypeOK, vars
    <2>2. ASSUME NEW t \in Threads, OfferRead(t) PROVE TypeOK'
      BY <2>2 DEF TypeOK, OfferRead, Goto
    <2>3. ASSUME NEW t \in Threads, OfferCheck(t) PROVE TypeOK'
      BY <2>3 DEF TypeOK, OfferCheck, Goto, Forget
    <2>4. ASSUME NEW t \in Threads, OfferReserve(t) PROVE TypeOK'
      BY <2>4 DEF TypeOK, OfferReserve, Goto, Forget
    <2>5. ASSUME NEW t \in Threads, OfferAdd(t) PROVE TypeOK'
      BY <2>5 DEF TypeOK, OfferAdd, Goto
    <2>6. ASSUME NEW t \in Threads, NEW n \in 1..length, Drain(t, n) PROVE TypeOK'
      BY <2>6 DEF TypeOK, Drain, Goto
    <2>7. ASSUME NEW t \in Threads, Settle(t) PROVE TypeOK'
      BY <2>7 DEF TypeOK, Settle, Goto
    <2>8. ASSUME NEW d \in Desired, AdjustCapacity(d) PROVE TypeOK'
      BY <2>8, AdjustedType DEF TypeOK, AdjustCapacity, larger
    <2>9. ASSUME NEW t \in Threads, Remove(t) PROVE TypeOK'
      BY <2>9, <2>6 DEF Remove, Drain
    <2>10. ASSUME NEW t \in Threads, NEW n \in 2..length, Drain(t, n) PROVE TypeOK'
      BY <2>10, <2>6 DEF TypeOK
    <2>11. QED
      BY <2>1, <2>2, <2>3, <2>4, <2>5, <2>7, <2>8, <2>9, <2>10 DEF Next, ThreadStep
  <1>3. QED
    BY <1>1, <1>2, PTL DEF Spec

-----------------------------------------------------------------------------
(* How the two sets that the count accounts for grow and shrink.           *)
LEMMA OwedFinite ==
    ASSUME NEW f \in [Threads -> 0..DelegateCapacity]
    PROVE  IsFiniteSet(Owed(f)) /\ Cardinality(Owed(f)) \in Nat
  <1>1. IsFiniteSet(1..DelegateCapacity)
    BY FS_Interval, ResizableQueueAssumption
  <1>2. IsFiniteSet(Threads \X (1..DelegateCapacity))
    BY <1>1, FS_Product, ResizableQueueAssumption
  <1>3. Owed(f) \subseteq Threads \X (1..DelegateCapacity)
    BY DEF Owed
  <1>4. IsFiniteSet(Owed(f))
    BY <1>2, <1>3, FS_Subset
  <1>5. QED
    BY <1>4, FS_CardinalityType

LEMMA OwedGrows ==
    ASSUME NEW f \in [Threads -> 0..DelegateCapacity], NEW t \in Threads, f[t] = 0,
           NEW n \in 0..DelegateCapacity
    PROVE  Cardinality(Owed([f EXCEPT ![t] = n])) = Cardinality(Owed(f)) + n
  <1> DEFINE own == {t} \X (1..n)
  <1>1. Owed([f EXCEPT ![t] = n]) = Owed(f) \cup own
    BY ResizableQueueAssumption DEF Owed
  <1>2. Owed(f) \cap own = {}
    BY DEF Owed
  <1>3. IsFiniteSet({t}) /\ Cardinality({t}) = 1
    BY FS_Singleton
  <1>4. IsFiniteSet(1..n) /\ Cardinality(1..n) = n
    BY FS_Interval
  <1>5. IsFiniteSet(own) /\ Cardinality(own) = n
    <2>1. IsFiniteSet(own) /\ Cardinality(own) = Cardinality({t}) * Cardinality(1..n)
      BY <1>3, <1>4, FS_Product
    <2>2. n \in Int
      OBVIOUS
    <2>3. QED
      BY <1>3, <1>4, <2>1, <2>2
  <1>6. IsFiniteSet(Owed(f)) /\ Cardinality(Owed(f)) \in Nat
    BY OwedFinite
  <1>7. Cardinality(Owed(f) \cup own)
           = Cardinality(Owed(f)) + Cardinality(own) - Cardinality(Owed(f) \cap own)
    BY <1>5, <1>6, FS_Union
  <1>8. Cardinality(Owed(f) \cap own) = 0
    BY <1>2, FS_EmptySet
  <1>9. n \in Int
    OBVIOUS
  <1>10. Cardinality(Owed(f) \cup own) = Cardinality(Owed(f)) + n
    BY <1>5, <1>6, <1>7, <1>8, <1>9
  <1>11. QED
    BY <1>1, <1>10, Zenon

LEMMA ReservedFinite == IsFiniteSet(Reserved) /\ Cardinality(Reserved) \in Nat
  <1>1. Reserved \subseteq Threads
    BY DEF Reserved
  <1>2. IsFiniteSet(Reserved)
    BY <1>1, FS_Subset, ResizableQueueAssumption
  <1>3. QED
    BY <1>2, FS_CardinalityType

(* The count accounts for every element, in the delegate or on its way.    *)
THEOREM SizeAccountsCorrect == Spec => []SizeAccounts
  <1>1. Init => SizeAccounts
    <2> SUFFICES ASSUME Init PROVE SizeAccounts
      OBVIOUS
    <2>1. Reserved = {} /\ Owed(taken) = {}
      BY DEF Init, Reserved, Owed
    <2>2. QED
      BY <2>1, FS_EmptySet DEF Init, SizeAccounts
  <1>2. TypeOK /\ SizeAccounts /\ [Next]_vars => SizeAccounts'
    <2> SUFFICES ASSUME TypeOK, SizeAccounts, [Next]_vars PROVE SizeAccounts'
      OBVIOUS
    <2> USE ResizableQueueAssumption
    <2>0. /\ Cardinality(Reserved) \in Nat /\ Cardinality(Owed(taken)) \in Nat
          /\ length \in Int /\ size \in Int /\ lost \in Int
      BY ReservedFinite, OwedFinite DEF TypeOK
    <2>1. CASE UNCHANGED vars
      <3>1. Reserved' = Reserved /\ Owed(taken)' = Owed(taken)
        BY <2>1 DEF vars, Reserved, Owed
      <3>2. QED
        BY <2>1, <3>1 DEF vars, SizeAccounts
    <2>2. ASSUME NEW t \in Threads, OfferRead(t) \/ OfferCheck(t) PROVE SizeAccounts'
      <3>1. Reserved' = Reserved /\ Owed(taken)' = Owed(taken)
        BY <2>2 DEF OfferRead, OfferCheck, Goto, TypeOK, Reserved, Owed
      <3>2. QED
        BY <2>2, <3>1 DEF OfferRead, OfferCheck, Goto, TypeOK, SizeAccounts
    <2>3. ASSUME NEW t \in Threads, OfferReserve(t) PROVE SizeAccounts'
      <3>1. Owed(taken)' = Owed(taken)
        BY <2>3 DEF OfferReserve, Owed
      <3>2. CASE size = current[t] /\ size' = 1 + current[t] /\ Goto(t, "add")
        <4>1. Reserved' = Reserved \cup {t} /\ t \notin Reserved
          BY <2>3, <3>2 DEF OfferReserve, Goto, TypeOK, Reserved
        <4>2. Cardinality(Reserved') = Cardinality(Reserved) + 1
          BY <4>1, ReservedFinite, FS_AddElement
        <4>3. QED
          BY <2>0, <2>3, <3>1, <3>2, <4>2 DEF OfferReserve, Goto, TypeOK, SizeAccounts
      <3>3. CASE size # current[t] /\ UNCHANGED size /\ Goto(t, "retry")
        <4>1. Reserved' = Reserved
          BY <2>3, <3>3 DEF OfferReserve, Goto, TypeOK, Reserved
        <4>2. QED
          BY <2>3, <3>1, <3>3, <4>1 DEF OfferReserve, Goto, TypeOK, SizeAccounts
      <3>4. QED
        BY <2>3, <3>2, <3>3 DEF OfferReserve
    <2>4. ASSUME NEW t \in Threads, OfferAdd(t) PROVE SizeAccounts'
      <3>1. Reserved' = Reserved \ {t} /\ t \in Reserved
        BY <2>4 DEF OfferAdd, Goto, TypeOK, Reserved
      <3>2. Cardinality(Reserved') = Cardinality(Reserved) - 1
        BY <3>1, ReservedFinite, FS_RemoveElement
      <3>3. taken[t] = 0 /\ size' = size
        BY <2>4 DEF OfferAdd, SizeAccounts
      <3>4. CASE length' = length + 1 /\ Goto(t, "idle") /\ UNCHANGED <<taken, lost>>
        BY <2>0, <2>4, <3>2, <3>3, <3>4 DEF Goto, TypeOK, SizeAccounts, Owed
      <3>5. CASE taken' = [taken EXCEPT ![t] = 1] /\ Goto(t, "settle")
                 /\ UNCHANGED <<length, lost>>
        <4>1. Cardinality(Owed(taken')) = Cardinality(Owed(taken)) + 1
          <5>1. taken \in [Threads -> 0..DelegateCapacity] /\ 1 \in 0..DelegateCapacity
            BY DEF TypeOK
          <5>2. Cardinality(Owed([taken EXCEPT ![t] = 1])) = Cardinality(Owed(taken)) + 1
            BY <3>3, <5>1, OwedGrows
          <5>3. QED
            BY <3>5, <5>2
        <4>2. \A u \in Threads : taken'[u] # 0 => pc'[u] = "settle"
          BY <3>5 DEF Goto, TypeOK, SizeAccounts
        <4>3. QED
          BY <2>0, <3>2, <3>3, <3>5, <4>1, <4>2 DEF SizeAccounts, Owed
      <3>6. CASE lost' = lost + 1 /\ Goto(t, "idle") /\ UNCHANGED <<length, taken>>
        BY <2>0, <2>4, <3>2, <3>3, <3>6 DEF Goto, TypeOK, SizeAccounts, Owed
      <3>7. QED
        BY <2>4, <3>4, <3>5, <3>6 DEF OfferAdd
    <2>5. ASSUME NEW t \in Threads, NEW n \in 1..length, Drain(t, n) PROVE SizeAccounts'
      <3>1. Reserved' = Reserved /\ taken[t] = 0
        BY <2>5 DEF Drain, Goto, TypeOK, Reserved, SizeAccounts
      <3>2. Cardinality(Owed(taken')) = Cardinality(Owed(taken)) + n
        <4>1. taken \in [Threads -> 0..DelegateCapacity] /\ n \in 0..DelegateCapacity
          BY DEF TypeOK
        <4>2. Cardinality(Owed([taken EXCEPT ![t] = n])) = Cardinality(Owed(taken)) + n
          BY <3>1, <4>1, OwedGrows
        <4>3. QED
          BY <2>5, <4>2 DEF Drain
      <3>3. \A u \in Threads : taken'[u] # 0 => pc'[u] = "settle"
        BY <2>5 DEF Drain, Goto, TypeOK, SizeAccounts
      <3>4. QED
        BY <2>0, <2>5, <3>1, <3>2, <3>3 DEF Drain, SizeAccounts, Owed
    <2>6. ASSUME NEW t \in Threads, Settle(t) PROVE SizeAccounts'
      <3>1. Reserved' = Reserved
        BY <2>6 DEF Settle, Goto, TypeOK, Reserved
      <3>2. Cardinality(Owed(taken)) = Cardinality(Owed(taken')) + taken[t]
        <4>1. taken' \in [Threads -> 0..DelegateCapacity] /\ taken'[t] = 0
          BY <2>6 DEF Settle, TypeOK
        <4>2. [taken' EXCEPT ![t] = taken[t]] = taken
          BY <2>6 DEF Settle, TypeOK
        <4>3. taken[t] \in 0..DelegateCapacity
          BY DEF TypeOK
        <4>4. QED
          BY <4>1, <4>2, <4>3, OwedGrows
      <3>3. \A u \in Threads : taken'[u] # 0 => pc'[u] = "settle"
        BY <2>6 DEF Settle, Goto, TypeOK, SizeAccounts
      <3>4. Cardinality(Owed(taken')) \in Nat /\ taken[t] \in Int
        <4>1. taken' \in [Threads -> 0..DelegateCapacity] /\ taken[t] \in 0..DelegateCapacity
          BY <2>6 DEF Settle, TypeOK
        <4>2. QED
          BY <4>1, OwedFinite
      <3>5. QED
        BY <2>0, <2>6, <3>1, <3>2, <3>3, <3>4 DEF Settle, SizeAccounts, Owed
    <2>7. ASSUME NEW d \in Desired, AdjustCapacity(d) PROVE SizeAccounts'
      <3>1. Reserved' = Reserved /\ Owed(taken)' = Owed(taken)
        BY <2>7 DEF AdjustCapacity, Reserved, Owed
      <3>2. QED
        BY <2>7, <3>1 DEF AdjustCapacity, SizeAccounts
    <2>8. ASSUME NEW t \in Threads, Remove(t) PROVE SizeAccounts'
      BY <2>8, <2>5 DEF Remove, Drain
    <2>9. ASSUME NEW t \in Threads, NEW n \in 2..length, Drain(t, n) PROVE SizeAccounts'
      BY <2>9, <2>5 DEF TypeOK
    <2>10. QED
      BY <2>1, <2>2, <2>3, <2>4, <2>6, <2>7, <2>8, <2>9 DEF Next, ThreadStep
  <1>3. QED
    BY <1>1, <1>2, TypeCorrect, PTL DEF Spec

-----------------------------------------------------------------------------
(* The queue never holds more than the largest capacity there has been:    *)
(* what was compared with a capacity of the past is bounded by the peak.   *)
THEOREM BoundedCorrect == Spec => []Bounded
  <1>1. Init => Bounded
    BY ResizableQueueAssumption DEF Init, Bounded
  <1>2. TypeOK /\ SizeAccounts /\ SizeAccounts' /\ TypeOK' /\ Bounded /\ [Next]_vars => Bounded'
    <2> SUFFICES ASSUME TypeOK, TypeOK', SizeAccounts', Bounded, [Next]_vars
                 PROVE  Bounded'
      OBVIOUS
    <2> USE ResizableQueueAssumption
    <2>0. length' <= size'
      <3>1. Cardinality(Reserved') \in Nat
        BY FS_Subset, FS_CardinalityType DEF Reserved
      <3>2. Cardinality(Owed(taken')) \in Nat
        BY OwedFinite DEF TypeOK
      <3>3. size' = length' + Cardinality(Reserved') + Cardinality(Owed(taken')) + lost'
        BY DEF SizeAccounts, Owed
      <3>4. length' \in Nat /\ lost' \in Nat
        BY DEF TypeOK
      <3>5. QED
        BY <3>1, <3>2, <3>3, <3>4
    <2>1. CASE UNCHANGED vars
      BY <2>1 DEF vars, Bounded
    <2>2. ASSUME NEW t \in Threads, OfferRead(t) PROVE Bounded'
      BY <2>0, <2>2 DEF OfferRead, Goto, TypeOK, Bounded
    <2>3. ASSUME NEW t \in Threads, OfferCheck(t) PROVE Bounded'
      BY <2>0, <2>3 DEF OfferCheck, Goto, Forget, TypeOK, Bounded
    <2>4. ASSUME NEW t \in Threads, OfferReserve(t) PROVE Bounded'
      BY <2>0, <2>4 DEF OfferReserve, Goto, Forget, TypeOK, Bounded
    <2>5. ASSUME NEW t \in Threads, OfferAdd(t) PROVE Bounded'
      BY <2>0, <2>5 DEF OfferAdd, Goto, TypeOK, Bounded
    <2>6. ASSUME NEW t \in Threads, NEW n \in 1..length, Drain(t, n) PROVE Bounded'
      BY <2>0, <2>6 DEF Drain, Goto, TypeOK, Bounded
    <2>7. ASSUME NEW t \in Threads, Settle(t) PROVE Bounded'
      BY <2>0, <2>7 DEF Settle, Goto, TypeOK, Bounded
    <2>8. ASSUME NEW d \in Desired, AdjustCapacity(d) PROVE Bounded'
      BY <2>0, <2>8, AdjustedType DEF AdjustCapacity, larger, TypeOK, Bounded
    <2>9. ASSUME NEW t \in Threads, Remove(t) PROVE Bounded'
      BY <2>9, <2>6 DEF Remove, Drain
    <2>10. ASSUME NEW t \in Threads, NEW n \in 2..length, Drain(t, n) PROVE Bounded'
      BY <2>10, <2>6 DEF TypeOK
    <2>11. QED
      BY <2>1, <2>2, <2>3, <2>4, <2>5, <2>7, <2>8, <2>9, <2>10 DEF Next, ThreadStep
  <1>3. QED
    BY <1>1, <1>2, TypeCorrect, SizeAccountsCorrect, PTL DEF Spec

-----------------------------------------------------------------------------
(* The new capacity, by the three cases of adjustCapacity. *)
LEMMA AdjustedTowards ==
    ASSUME NEW d \in Desired, capacity \in MinCapacity..MaxCapacity,
           capacity + AdjustAmount <= IntMax
    PROVE  /\ Adjusted(d) - capacity \in -AdjustAmount..AdjustAmount
           /\ d >= capacity => Adjusted(d) \in capacity..d
           /\ d <= capacity => Adjusted(d) \in d..capacity
  <1> DEFINE up == capacity + AdjustAmount
             down == capacity - AdjustAmount
  <1>1. /\ capacity \in Nat /\ MinCapacity \in Nat /\ MaxCapacity \in Nat
        /\ MinCapacity <= capacity /\ capacity <= MaxCapacity
        /\ AdjustAmount \in Nat /\ AdjustAmount <= IntMax /\ IntMax \in Nat /\ d \in Nat
    BY ResizableQueueAssumption
  <1>2. int(up) = up /\ int(down) = down
    BY <1>1 DEF int
  <1>3. CASE d > up
    <2>1. Adjusted(d) = smaller(MaxCapacity, up)
      BY <1>2, <1>3 DEF Adjusted
    <2>2. QED
      BY <1>1, <1>3, <2>1 DEF smaller
  <1>4. CASE ~(d > up) /\ d < down
    <2>1. Adjusted(d) = larger(MinCapacity, down)
      BY <1>2, <1>4 DEF Adjusted
    <2>2. QED
      BY <1>1, <1>4, <2>1 DEF larger
  <1>5. CASE ~(d > up) /\ ~(d < down)
    <2>1. Adjusted(d) = d
      BY <1>2, <1>5 DEF Adjusted
    <2>2. QED
      BY <1>1, <1>5, <2>1
  <1>6. QED
    BY <1>3, <1>4, <1>5

(* Within int, and from a capacity in its range, adjustCapacity moves the  *)
(* capacity by no more than AdjustAmount, towards the desired capacity and *)
(* never beyond it.                                                        *)
THEOREM AdjustsTowardsCorrect == Spec => AdjustsTowards
  <1>1. [\A d \in Desired :
            /\ AdjustCapacity(d)
            /\ capacity \in MinCapacity..MaxCapacity
            /\ capacity + AdjustAmount <= IntMax
            => /\ capacity' - capacity \in -AdjustAmount..AdjustAmount
               /\ d >= capacity => capacity' \in capacity..d
               /\ d <= capacity => capacity' \in d..capacity]_vars
    BY AdjustedTowards DEF AdjustCapacity
  <1>2. QED
    BY <1>1, PTL DEF AdjustsTowards
=============================================================================
