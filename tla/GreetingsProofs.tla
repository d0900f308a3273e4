-------------------------- MODULE GreetingsProofs --------------------------
(* Proofs about Greetings, for any ids, times and clients whose requests   *)
(* are well-formed.                                                        *)
EXTENDS Greetings, FiniteSetTheorems, WellFoundedInduction, TLAPS

(* A window has its low end first. *)
Ordered(r) == r.high_time # None /\ r.low_time # None => r.low_time <= r.high_time

(* A set of numbers has a lowest, and a bounded one a highest. *)
LEMMA LowestExists ==
    ASSUME NEW T \in SUBSET Nat, T # {}
    PROVE  \E l \in T : \A u \in T : l <= u
<1>1. \E l \in T : \A u \in T : ~(<<u, l>> \in OpToRel(<, Nat))
  BY NatLessThanWellFounded, WFMin
<1>2. PICK l \in T : \A u \in T : ~(<<u, l>> \in OpToRel(<, Nat))
  BY <1>1
<1>3. \A u \in T : ~(u < l)
  BY <1>2 DEF OpToRel
<1> QED
  BY <1>3

LEMMA HighestExists ==
    ASSUME NEW n \in Nat, NEW T \in SUBSET (0..n), T # {}
    PROVE  \E h \in T : \A u \in T : u <= h
<1> DEFINE Mirror == {n - u : u \in T}
<1>1. Mirror \in SUBSET Nat /\ Mirror # {}
  <2>1. \A u \in T : u \in 0..n /\ n - u \in Nat
    OBVIOUS
  <2>2. \A m \in Mirror : m \in Nat
    BY <2>1
  <2>3. PICK u \in T : TRUE
    OBVIOUS
  <2>4. n - u \in Mirror
    BY <2>3
  <2> QED
    BY <2>2, <2>4
<1>2. PICK l \in Mirror : \A u \in Mirror : l <= u
  BY <1>1, LowestExists
<1>3. PICK h \in T : l = n - h
  BY <1>2
<1>4. ASSUME NEW u \in T PROVE u <= h
  <2>1. n - u \in Mirror
    OBVIOUS
  <2>2. n - h <= n - u
    BY <1>2, <1>3, <2>1
  <2> QED
    BY <2>2
<1> QED
  BY <1>4

(* What Highest and Lowest choose. *)
LEMMA Extremes ==
    ASSUME NEW n \in Nat, NEW T \in SUBSET (0..n), T # {}
    PROVE  /\ Highest(T) \in T /\ \A u \in T : u <= Highest(T)
           /\ Lowest(T) \in T /\ \A u \in T : Lowest(T) <= u
<1>1. \E h \in T : \A u \in T : u <= h
  BY HighestExists
<1>2. \E l \in T : \A u \in T : l <= u
  <2>1. T \in SUBSET Nat
    OBVIOUS
  <2> QED
    BY <2>1, LowestExists
<1> QED
  BY <1>1, <1>2 DEF Highest, Lowest

-----------------------------------------------------------------------------
(* A request for all greetings, ordered by one of the times. *)
All(r) == /\ r.column_name = "" /\ r.order_by \in Columns
          /\ r.include_ids = {} /\ r.exclude_ids = {}

(* A request is normalized in its page and size only. *)
LEMMA NormalizedType ==
    ASSUME NEW r \in Request
    PROVE  /\ Normalized(r) \in Request
           /\ Normalized(r).column_name = r.column_name
           /\ Normalized(r).high_time = r.high_time
           /\ Normalized(r).low_time = r.low_time
           /\ Normalized(r).order_by = r.order_by
  BY PagingAssumption DEF Normalized, Request

LEMMA NormalizedPage ==
    ASSUME NEW r \in Request
    PROVE  /\ Normalized(r).page >= 1 /\ Normalized(r).size >= 1
           /\ All(r) => All(Normalized(r))
           /\ (All(r) /\ r.page >= 1) => Normalized(r).page = r.page
           /\ r.size >= 1 => Normalized(r).size = r.size
<1>1. r.page \in Nat /\ r.size \in Nat
  BY DEF Request
<1>2. /\ Normalized(r).page = IF r.page = 0 \/ r.exclude_ids # {} \/ r.include_ids # {} THEN 1 ELSE r.page
      /\ Normalized(r).size = IF r.size = 0 THEN DefaultSize ELSE r.size
  BY DEF Normalized, Request
<1>3. /\ Normalized(r).column_name = r.column_name /\ Normalized(r).order_by = r.order_by
      /\ Normalized(r).include_ids = r.include_ids /\ Normalized(r).exclude_ids = r.exclude_ids
  BY DEF Normalized, Request
<1>4. Normalized(r).page >= 1
  <2>1. Normalized(r).page = 1 \/ (Normalized(r).page = r.page /\ r.page # 0)
    BY <1>2
  <2> QED
    BY <1>1, <2>1
<1>5. (All(r) /\ r.page >= 1) => Normalized(r).page = r.page
  <2>1. r.page >= 1 => r.page # 0
    BY <1>1
  <2> QED
    BY <1>2, <2>1 DEF All
<1>6. Normalized(r).size >= 1 /\ (r.size >= 1 => Normalized(r).size = r.size)
  BY <1>1, <1>2, PagingAssumption
<1> QED
  BY <1>3, <1>4, <1>5, <1>6 DEF All

LEMMA SkippedType == ASSUME NEW r \in Request, r.page >= 1 PROVE Skipped(r) \in Nat
<1>1. r.size \in Nat /\ r.page \in Nat
  BY DEF Request
<1>2. r.page - 1 \in Nat
  BY <1>1
<1> QED
  BY <1>1, <1>2 DEF Skipped

LEMMA TimesOfPage ==
    ASSUME TypeOK, NEW r \in Request, NEW P \in SUBSET Matching(rows, r)
    PROVE  /\ P \in SUBSET Ids
           /\ Times(rows, r, P) \in SUBSET (0..MaxTime)
           /\ (r.column_name # "" /\ r.high_time # None) =>
                 \A u \in Times(rows, r, P) : u <= r.high_time
<1>1. ASSUME NEW i \in P PROVE i \in Ids /\ rows[i] \in Row /\ InWindow(rows, r, i)
  BY DEF Matching, TypeOK
<1>2. ASSUME NEW i \in P, r.column_name \in Columns PROVE rows[i][r.column_name] \in 0..MaxTime
  BY <1>1, <1>2 DEF Row, Columns
<1>3. P \in SUBSET Ids
  BY <1>1
<1>4. CASE r.column_name \in Columns
  <2>1. Times(rows, r, P) = {rows[i][r.column_name] : i \in P}
    BY <1>4 DEF Times
  <2>2. ASSUME r.column_name # "", r.high_time # None, NEW i \in P
        PROVE  rows[i][r.column_name] <= r.high_time
    BY <1>1, <2>2 DEF InWindow
  <2> QED
    BY <1>2, <1>3, <1>4, <2>1, <2>2
<1>5. CASE r.column_name \notin Columns
  BY <1>3, <1>5 DEF Times
<1> QED
  BY <1>4, <1>5

(* The request that goes back is well-formed, and if the one that came has *)
(* its window in order, so has this one, and is not moved forward.         *)
LEMMA NextRequest ==
    ASSUME TypeOK, NEW r \in Request, NEW P \in SUBSET Matching(rows, r), Ordered(r)
    PROVE  LET n == NextCommonFilter(rows, NextCommonOption(r), P)
           IN  /\ n \in Request
               /\ Ordered(n)
               /\ (r.column_name # "" /\ r.high_time # None /\ r.low_time # None) =>
                     n.high_time # None /\ n.high_time <= r.high_time
<1> DEFINE o == NextCommonOption(r)
           T == Times(rows, o, P)
           n == NextCommonFilter(rows, o, P)
<1> HIDE DEF o, T, n
<1>1. /\ o \in Request
      /\ o.column_name = r.column_name
      /\ o.high_time = r.high_time /\ o.low_time = r.low_time
  <2>1. r.page \in Nat
    BY DEF Request
  <2>2. o = [r EXCEPT !.page = r.page + 1]
    BY DEF o, NextCommonOption
  <2>3. r.page + 1 \in Nat
    BY <2>1
  <2> QED
    BY <2>2, <2>3 DEF Request
<1>2. T = Times(rows, r, P)
  BY <1>1 DEF T, Times
<1>3. T \in SUBSET (0..MaxTime) /\ P \in SUBSET Ids
  BY <1>2, TimesOfPage
<1>4. CASE T = {}
  <2>1. n = [o EXCEPT !.high_time = o.low_time, !.low_time = None]
    BY <1>4 DEF n, T, NextCommonFilter
  <2>2. n \in Request /\ n.high_time = r.low_time /\ n.low_time = None
    BY <1>1, <2>1 DEF Request
  <2> QED
    BY <2>2 DEF Ordered, n, o, Request
<1>5. CASE T # {}
  <2>1. Highest(T) \in 0..MaxTime /\ Lowest(T) \in 0..MaxTime /\ Lowest(T) <= Highest(T)
    BY <1>3, <1>5, Extremes, GreetingsAssumption
  <2> DEFINE low == Lowest(T) - (Highest(T) - Lowest(T)) - Duration
  <2>2. low \in Int /\ low <= Highest(T)
    BY <2>1, PagingAssumption, GreetingsAssumption
  <2>3. n = [o EXCEPT !.high_time = Highest(T), !.low_time = low,
                      !.exclude_ids = {i \in P : rows[i][o.column_name] = Lowest(T)}]
    BY <1>5 DEF n, T, NextCommonFilter
  <2>4. {i \in P : rows[i][o.column_name] = Lowest(T)} \in SUBSET Ids
    BY <1>3
  <2>5. Highest(T) \in Int
    BY <2>1, GreetingsAssumption
  <2> HIDE DEF low
  <2>6. n \in Request /\ n.high_time = Highest(T) /\ n.low_time = low
    BY <1>1, <2>2, <2>3, <2>4, <2>5 DEF Request
  <2>7. (r.column_name # "" /\ r.high_time # None) => Highest(T) <= r.high_time
    <3>1. Highest(T) \in T
      BY <1>3, <1>5, Extremes, GreetingsAssumption
    <3> QED
      BY <1>2, <3>1, TimesOfPage
  <2>8. Highest(T) # None
    BY <2>5, PagingAssumption
  <2> QED
    BY <2>2, <2>6, <2>7, <2>8 DEF Ordered, n, o
<1> QED
  BY <1>4, <1>5
-----------------------------------------------------------------------------
(* The types, and the windows of the requests in order. *)
GInv == TypeOK /\ Ordered(request)

WellFormed == \A r \in Requests : r \in Request /\ Ordered(r)

LEMMA GInvInit == Init => GInv
<1> SUFFICES ASSUME Init PROVE GInv
  OBVIOUS
<1>1. NoRequest \in Request /\ Ordered(NoRequest)
  BY DEF NoRequest, Request, Ordered
<1>2. 0 \in 0..MaxTime /\ 1 \in 1..MaxId + 1
  BY GreetingsAssumption
<1> QED
  BY <1>1, <1>2 DEF Init, GInv, TypeOK

(* What is stored is a row. *)
LEMMA StoredType ==
    ASSUME TypeOK, NEW i \in Ids, Stored(i)
    PROVE  rows' \in [Ids -> Row \cup {None}]
<1>1. [create_at |-> now, update_at |-> now] \in Row
  BY DEF TypeOK, Row
<1> QED
  BY <1>1 DEF TypeOK, Stored

(* A page that is sent. *)
LEMMA SentStep ==
    ASSUME GInv, NEW P \in SUBSET Matching(rows, Normalized(request)),
           Sent(Normalized(request), P)
    PROVE  /\ request' \in Request /\ Ordered(request')
           /\ listing' \in {"over", "open"} /\ seen' \in SUBSET Ids
           /\ UNCHANGED <<now, rows, next, doomed, plain, owed>>
           /\ (request.column_name # "" /\ request.high_time # None /\ request.low_time # None) =>
                 request'.high_time # None /\ request'.high_time <= request.high_time
<1>1. Normalized(request) \in Request /\ Ordered(Normalized(request))
  BY NormalizedType DEF GInv, TypeOK, Ordered
<1>2. request' = NextCommonFilter(rows, NextCommonOption(Normalized(request)), P)
  BY DEF Sent
<1>3. P \in SUBSET Ids
  BY DEF Matching
<1>4. seen' \in SUBSET Ids
  BY <1>3 DEF Sent, GInv, TypeOK
<1>5. /\ request' \in Request /\ Ordered(request')
      /\ (request.column_name # "" /\ request.high_time # None /\ request.low_time # None) =>
            request'.high_time # None /\ request'.high_time <= request.high_time
  BY <1>1, <1>2, NextRequest, NormalizedType DEF GInv, TypeOK
<1> QED
  BY <1>4, <1>5 DEF Sent

LEMMA GInvNext == WellFormed /\ GInv /\ [Next]_vars => GInv'
<1> SUFFICES ASSUME WellFormed, GInv, [Next]_vars PROVE GInv'
  OBVIOUS
<1> USE DEF GInv
<1>0. now \in 0..MaxTime /\ next \in 1..MaxId + 1 /\ MaxTime \in Nat /\ MaxId \in Nat
  BY GreetingsAssumption DEF TypeOK
<1>1. CASE UNCHANGED vars
  BY <1>1 DEF vars, TypeOK, Ordered
<1>2. CASE Tick
  <2>1. now' \in 0..MaxTime
    BY <1>0, <1>2 DEF Tick
  <2> QED
    BY <1>2, <2>1 DEF Tick, client, TypeOK, Ordered
<1>3. CASE CreateGreeting
  <2>1. rows' \in [Ids -> Row \cup {None}]
    BY <1>3, StoredType DEF CreateGreeting
  <2>2. next' \in 1..MaxId + 1
    BY <1>3, GreetingsAssumption DEF CreateGreeting
  <2> QED
    BY <1>3, <2>1, <2>2 DEF CreateGreeting, client, TypeOK, Ordered
<1>4. ASSUME NEW i \in Ids \cup {0}, UpdateGreeting(i) PROVE GInv'
  <2>0. /\ owed' \in SUBSET Ids
        /\ UNCHANGED <<now, doomed, disturbed, listing, request, plain, seen>>
    BY <1>4 DEF UpdateGreeting, TypeOK
  <2>1. CASE i \in Live
    <3>1. i \in Ids /\ rows[i] \in Row
      BY <2>1 DEF Live, TypeOK
    <3>2. [rows[i] EXCEPT !.update_at = now] \in Row
      BY <3>1 DEF Row, TypeOK
    <3>3. rows' = [rows EXCEPT ![i] = [rows[i] EXCEPT !.update_at = now]]
      BY <1>4, <2>1 DEF UpdateGreeting
    <3>4. rows' \in [Ids -> Row \cup {None}]
      BY <3>1, <3>2, <3>3 DEF TypeOK
    <3> QED
      BY <1>4, <2>0, <2>1, <3>4 DEF UpdateGreeting, TypeOK, Ordered
  <2>2. CASE i \notin Live
    <3> DEFINE id == IF i = 0 THEN next ELSE i
    <3>1. id \in Ids /\ Stored(id) /\ next' = IF id >= next THEN id + 1 ELSE next
      BY <1>4, <2>2 DEF UpdateGreeting
    <3> HIDE DEF id
    <3>2. rows' \in [Ids -> Row \cup {None}]
      BY <3>1, StoredType
    <3>3. next' \in 1..MaxId + 1
      <4>1. id \in 1..MaxId
        BY <3>1, GreetingsAssumption
      <4> QED
        BY <1>0, <3>1, <4>1
    <3> QED
      BY <2>0, <3>2, <3>3 DEF TypeOK, Ordered
  <2> QED
    BY <2>1, <2>2
<1>5. ASSUME NEW S \in SUBSET Live, DeleteSelect(S) PROVE GInv'
  BY <1>5 DEF DeleteSelect, Live, client, TypeOK, Ordered
<1>6. CASE Delete
  <2>1. rows' \in [Ids -> Row \cup {None}]
    BY <1>6 DEF Delete, TypeOK
  <2>2. disturbed' \in BOOLEAN
    BY <1>6 DEF Delete, TypeOK
  <2> QED
    BY <1>6, <2>1, <2>2 DEF Delete, client, TypeOK, Ordered
<1>7. ASSUME NEW r \in Requests, Begin(r) PROVE GInv'
  <2>1. request' \in Request /\ Ordered(request')
    BY <1>7 DEF Begin, WellFormed
  <2>2. plain' \in BOOLEAN
    BY <1>7 DEF Begin
  <2>3. owed' \in SUBSET Ids
    BY <1>7 DEF Begin, Live
  <2> QED
    BY <1>7, <2>1, <2>2, <2>3 DEF Begin, TypeOK
<1>8. ASSUME NEW P \in SUBSET Matching(rows, Normalized(request)),
             Sent(Normalized(request), P), disturbed' \in BOOLEAN
      PROVE  GInv'
  BY <1>8, SentStep DEF TypeOK
<1>9. CASE ListGreetings(Normalized(request))
  <2>1. disturbed' \in BOOLEAN
    BY <1>9 DEF ListGreetings, TypeOK
  <2> QED
    BY <1>8, <1>9, <2>1 DEF ListGreetings, Pages
<1>10. CASE ListFails(Normalized(request))
  BY <1>8, <1>10 DEF ListFails
<1> QED
  BY <1>1, <1>2, <1>3, <1>4, <1>5, <1>6, <1>7, <1>9, <1>10 DEF Next

(* TypeOK holds if the client begins with a well-formed request: so are    *)
(* all that the service hands back.                                        *)
THEOREM TypeCorrect == WellFormed /\ Spec => []TypeOK
<1>1. GInv => TypeOK
  BY DEF GInv
<1>2. ASSUME WellFormed PROVE GInv /\ [Next]_vars => GInv'
  BY <1>2, GInvNext
<1>3. CASE WellFormed
  <2>1. GInv /\ [Next]_vars => GInv'
    BY <1>2, <1>3
  <2> QED
    BY <1>1, <2>1, GInvInit, PTL DEF Spec
<1> QED
  BY <1>3

(* WindowMovesBack holds: from a window with both ends in order, no        *)
(* request that the service hands back reaches forward of it.              *)
THEOREM WindowMovesBackCorrect == WellFormed /\ Spec => WindowMovesBack
<1>0. \A h \in Int : h <= h
  OBVIOUS
<1> DEFINE Back == (/\ listing = "open"
                    /\ request.column_name # ""
                    /\ request.high_time # None
                    /\ request.low_time # None)
                     => request'.high_time # None /\ request'.high_time <= request.high_time
<1>1. ASSUME GInv, [Next]_vars PROVE [Back]_vars
  <2> SUFFICES ASSUME Next, listing = "open", request.column_name # "",
                      request.high_time # None, request.low_time # None
               PROVE  request'.high_time # None /\ request'.high_time <= request.high_time
    BY <1>1
  <2>1. request.high_time \in Int
    <3>1. request.high_time \in Int \cup {None}
      BY <1>1 DEF GInv, TypeOK, Request
    <3> QED
      BY <3>1
  <2>2. CASE UNCHANGED request
    <3>1. request.high_time <= request.high_time
      BY <2>1, <1>0, Zenon
    <3> QED
      BY <2>2, <3>1, Zenon
  <2>3. ASSUME NEW r \in Requests, Begin(r) PROVE FALSE
    BY <2>3 DEF Begin
  <2>4. ASSUME NEW P \in SUBSET Matching(rows, Normalized(request)),
               Sent(Normalized(request), P)
        PROVE  request'.high_time # None /\ request'.high_time <= request.high_time
    BY <1>1, <2>4, SentStep
  <2>5. CASE ListGreetings(Normalized(request))
    BY <2>4, <2>5 DEF ListGreetings, Pages
  <2>6. CASE ListFails(Normalized(request))
    BY <2>4, <2>6 DEF ListFails
  <2>7. ASSUME NEW i \in Ids \cup {0}, UpdateGreeting(i) PROVE UNCHANGED request
    BY <2>7 DEF UpdateGreeting
  <2>8. CASE Tick \/ CreateGreeting \/ Delete \/ \E S \in SUBSET Live : DeleteSelect(S)
    BY <2>2, <2>8 DEF Tick, CreateGreeting, DeleteSelect, Delete, client
  <2> QED
    BY <2>2, <2>3, <2>5, <2>6, <2>7, <2>8 DEF Next
<1>2. CASE WellFormed
  <2>1. GInv /\ [Next]_vars => GInv'
    BY <1>2, GInvNext
  <2> QED
    BY <1>1, <2>1, GInvInit, PTL DEF Spec, WindowMovesBack
<1> QED
  BY <1>2
-----------------------------------------------------------------------------
(* NothingSkipped.  The greetings that are newer than one, by the time     *)
(* that orders the pages, decide in which page it is; their number only    *)
(* grows while nothing is deleted, because what is stored or updated is    *)
(* the newest of all.                                                      *)
Newer(column, i) == {b \in Live : rows[b][column] > rows[i][column]}

(* What the client has yet to see is in the pages to come. *)
ToCome == \A i \in owed :
    /\ i \in Live
    /\ i \in seen \/ Cardinality(Newer(request.order_by, i)) >= Skipped(Normalized(request))

PagesInv ==
    /\ \A i \in Live : i < next
    /\ \A i \in Live : rows[i].create_at <= now /\ rows[i].update_at <= now
    /\ plain => listing # "not begun" /\ All(request)
    /\ (plain /\ ~disturbed) =>
          /\ listing = "open" => ToCome
          /\ listing = "over" => owed \subseteq seen

LEMMA LiveFinite ==
    ASSUME NEW S \in SUBSET Ids PROVE IsFiniteSet(S) /\ Cardinality(S) \in Nat
  BY FS_Subset, FS_CardinalityType, PagingAssumption

LEMMA TimesAreInt ==
    ASSUME TypeOK
    PROVE  /\ now \in Int /\ now <= now
           /\ \A j \in Live : /\ rows[j].create_at \in Int /\ rows[j].update_at \in Int
                              /\ \A c \in Columns : rows[j][c] \in Int
<1>1. \A n \in 0..MaxTime : n \in Int /\ n <= n
  BY GreetingsAssumption
<1>2. \A j \in Live : rows[j] \in Row
  BY DEF TypeOK, Live
<1>3. \A j \in Live : rows[j].create_at \in 0..MaxTime /\ rows[j].update_at \in 0..MaxTime
  BY <1>2 DEF Row
<1> QED
  BY <1>1, <1>3 DEF TypeOK, Columns

(* A greeting that is not in the pages up to this one is behind this page  *)
(* too, which is a full one.                                               *)
LEMMA StillBehind ==
    ASSUME TypeOK, NEW r \in Request, All(r), ~Tied(r.order_by), r.page >= 1, r.size >= 1,
           NEW P \in Pages(rows, r), NEW i \in Live \ P,
           Cardinality(Newer(r.order_by, i)) >= Skipped(r)
    PROVE  /\ Cardinality(P) = r.size
           /\ Cardinality(Newer(r.order_by, i)) >= Skipped(r) + r.size
<1> DEFINE at(j) == rows[j][r.order_by]
<1>1. Matching(rows, r) = Live
  BY DEF Matching, InWindow, All, Live
<1>2. PICK Q \in SUBSET (Live \ P) :
          /\ Cardinality(Q) = smaller(Skipped(r), Cardinality(Live))
          /\ Cardinality(P) = smaller(r.size, Cardinality(Live) - Cardinality(Q))
          /\ Ahead(rows, r, Q, P)
          /\ Ahead(rows, r, P, Live \ (P \cup Q))
  BY <1>1 DEF Pages
<1>3. P \subseteq Live /\ Live \subseteq Ids /\ \A j \in Live : at(j) \in Nat
  <2>1. \A j \in Live : rows[j] \in Row
    BY DEF Live, TypeOK
  <2>2. \A j \in Live : at(j) \in 0..MaxTime
    BY <2>1 DEF Row, All, Columns
  <2> QED
    BY <1>1, <2>2, GreetingsAssumption DEF Pages, Live
<1>4. /\ \A a \in Q, b \in P : at(a) >= at(b)
      /\ \A a \in P, b \in Live \ (P \cup Q) : at(a) >= at(b)
  BY <1>2 DEF Ahead, All, Columns
<1>5. /\ IsFiniteSet(Live) /\ IsFiniteSet(P) /\ IsFiniteSet(Q) /\ IsFiniteSet(Newer(r.order_by, i))
      /\ Cardinality(Live) \in Nat /\ Cardinality(P) \in Nat /\ Cardinality(Q) \in Nat
      /\ Cardinality(Newer(r.order_by, i)) \in Nat
  BY <1>2, <1>3, LiveFinite DEF Newer
<1>6. r.size \in Nat /\ Skipped(r) \in Nat
  BY SkippedType DEF Request
<1>7. /\ IsFiniteSet(P \cup Q)
      /\ Cardinality(P \cup Q) = Cardinality(P) + Cardinality(Q)
  <2>1. Cardinality(P \cap Q) = 0
    <3>1. P \cap Q = {}
      BY <1>2
    <3> QED
      BY <3>1, FS_EmptySet
  <2>2. /\ IsFiniteSet(P \cup Q)
        /\ Cardinality(P \cup Q) = Cardinality(P) + Cardinality(Q) - Cardinality(P \cap Q)
    BY <1>5, FS_Union
  <2> QED
    BY <1>5, <2>1, <2>2
<1> HIDE DEF at
(* An empty page has no greeting behind it. *)
<1>8. P = {} => Live \subseteq Q
  <2> SUFFICES ASSUME P = {} PROVE Live = Q
    OBVIOUS
  <2>1. Cardinality(P) = 0
    BY FS_EmptySet
  <2>2. Cardinality(Live) = Cardinality(Q)
    <3>1. Cardinality(Live) - Cardinality(Q) >= 0
      BY <1>2, <1>5, FS_Subset
    <3> QED
      BY <1>2, <1>5, <1>6, <2>1, <3>1 DEF smaller
  <2> QED
    BY <1>2, <1>5, <2>2, FS_Subset
<1>9. ASSUME NEW a \in P \cup Q, NEW b \in Live \ (P \cup Q) PROVE at(a) >= at(b)
  <2>1. PICK p \in P : TRUE
    BY <1>8
  <2>2. at(p) >= at(b) /\ (a \in Q => at(a) >= at(p)) /\ (a \in P => at(a) >= at(b))
    BY <1>4
  <2> QED
    BY <1>2, <1>3, <2>2
<1>10. i \notin Q
  <2> SUFFICES ASSUME i \in Q PROVE FALSE
    OBVIOUS
  <2>1. ASSUME NEW b \in Newer(r.order_by, i), b \notin Q PROVE FALSE
    <3>1. b \in Live /\ at(b) > at(i)
      BY DEF Newer, at
    <3>2. at(i) >= at(b)
      BY <1>4, <1>9, <2>1, <3>1
    <3> QED
      BY <1>3, <3>1, <3>2
  <2>2. Newer(r.order_by, i) \subseteq Q \ {i}
    <3>1. i \notin Newer(r.order_by, i)
      BY <1>3 DEF Newer, at
    <3> QED
      BY <2>1, <3>1
  <2>3. Cardinality(Newer(r.order_by, i)) <= Cardinality(Q) - 1
    <3>1. IsFiniteSet(Q \ {i}) /\ Cardinality(Q \ {i}) = Cardinality(Q) - 1
      BY <1>5, FS_RemoveElement
    <3>2. Cardinality(Newer(r.order_by, i)) <= Cardinality(Q \ {i})
      BY <2>2, <3>1, FS_Subset
    <3> QED
      BY <3>1, <3>2
  <2>4. Cardinality(Q) <= Skipped(r)
    BY <1>2, <1>5, <1>6 DEF smaller
  <2> QED
    BY <1>5, <1>6, <2>3, <2>4
<1>11. P \cup Q \subseteq Newer(r.order_by, i)
  <2> SUFFICES ASSUME NEW a \in P \cup Q PROVE a \in Newer(r.order_by, i)
    OBVIOUS
  <2>1. a \in Live /\ at(a) >= at(i) /\ a # i
    BY <1>2, <1>3, <1>9, <1>10
  <2>2. at(a) # at(i)
    BY <2>1 DEF Tied, All, Columns, at
  <2>3. at(a) > at(i)
    BY <1>3, <2>1, <2>2
  <2> QED
    BY <2>1, <2>3 DEF Newer, at
<1>12. Cardinality(P) + Cardinality(Q) <= Cardinality(Newer(r.order_by, i))
  BY <1>5, <1>7, <1>11, FS_Subset
<1>13. Cardinality(P) + Cardinality(Q) < Cardinality(Live)
  <2>1. P \cup Q \subseteq Live \ {i}
    BY <1>2, <1>3, <1>10
  <2>2. /\ IsFiniteSet(Live \ {i})
        /\ Cardinality(Live \ {i}) = Cardinality(Live) - 1
    BY <1>5, FS_RemoveElement
  <2>3. Cardinality(P \cup Q) <= Cardinality(Live \ {i})
    BY <2>1, <2>2, FS_Subset
  <2> QED
    BY <1>5, <1>7, <2>2, <2>3
<1>14. Cardinality(P) = r.size /\ Cardinality(Q) = Skipped(r)
  BY <1>2, <1>5, <1>6, <1>13 DEF smaller
<1> QED
  BY <1>5, <1>6, <1>12, <1>14

(* While the client pages, nothing that is stored goes, no greeting gets   *)
(* older, and none that is owed gets newer.                                *)
Grows ==
    \A j \in Live :
        /\ j \in Live'
        /\ rows'[j][request.order_by] >= rows[j][request.order_by]
        /\ j \in owed' => rows'[j][request.order_by] = rows[j][request.order_by]

LEMMA GrowsKeeps ==
    ASSUME TypeOK, TypeOK', PagesInv, plain /\ listing = "open" => Grows,
           UNCHANGED <<listing, request, plain, seen, disturbed>>, owed' \subseteq owed,
           \A j \in Live' : j < next',
           \A j \in Live' : rows'[j].create_at <= now' /\ rows'[j].update_at <= now'
    PROVE  PagesInv'
<1> DEFINE c == request.order_by
<1>1. ASSUME plain, NEW j \in Live PROVE rows[j][c] \in Int /\ (j \in Live' => rows'[j][c] \in Int)
  <2>1. c \in Columns
    BY <1>1 DEF PagesInv, All
  <2>2. rows[j] \in Row /\ (j \in Live' => rows'[j] \in Row)
    BY <1>1 DEF TypeOK, Live
  <2> QED
    BY <2>1, <2>2, GreetingsAssumption DEF Row, Columns
<1> HIDE DEF c
<1>2. ASSUME plain, Grows, NEW j \in Live, j \in owed'
      PROVE  Cardinality(Newer(c, j)) <= Cardinality(Newer(c, j)')
  <2>1. ASSUME NEW b \in Newer(c, j) PROVE b \in Newer(c, j)'
    <3>1. b \in Live /\ rows[b][c] > rows[j][c]
      BY DEF Newer
    <3>2. b \in Live' /\ j \in Live' /\ rows'[b][c] >= rows[b][c] /\ rows'[j][c] = rows[j][c]
      BY <1>2, <3>1 DEF Grows, c
    <3>3. rows'[b][c] > rows'[j][c]
      BY <1>1, <1>2, <3>1, <3>2
    <3>4. c' = c
      BY DEF c
    <3> QED
      BY <3>2, <3>3, <3>4 DEF Newer
  <2>2. IsFiniteSet(Newer(c, j)')
    BY LiveFinite DEF Newer, Live
  <2> QED
    BY <2>1, <2>2, FS_Subset
<1>3. \A j \in Live : Cardinality(Newer(c, j)) \in Nat /\ Cardinality(Newer(c, j)') \in Nat
  BY LiveFinite DEF Newer, Live
<1>4. ASSUME plain, Grows, ToCome, NEW j \in owed', j \notin seen
      PROVE  Cardinality(Newer(c, j)') >= Skipped(Normalized(request))
  <2>1. Skipped(Normalized(request)) \in Nat
    BY NormalizedType, NormalizedPage, SkippedType DEF TypeOK
  <2>2. j \in Live /\ Cardinality(Newer(c, j)) >= Skipped(Normalized(request))
    BY <1>4 DEF ToCome, c
  <2> QED
    BY <1>2, <1>3, <1>4, <2>1, <2>2
<1>5. (plain /\ Grows /\ ToCome) => ToCome'
  BY <1>4 DEF ToCome, Grows, c
<1> QED
  BY <1>5 DEF PagesInv

(* The request after a page of all greetings asks for the page behind it. *)
LEMMA NextPage ==
    ASSUME NEW r \in Request, All(r), NEW P, r.page >= 1, r.size >= 1,
           NEW n \in Request, n = NextCommonFilter(rows, NextCommonOption(r), P)
    PROVE  All(n) /\ n.order_by = r.order_by /\ Skipped(Normalized(n)) = Skipped(r) + r.size
<1> DEFINE o == NextCommonOption(r)
<1>1. r.page \in Nat /\ r.size \in Nat
  BY DEF Request
<1> PICK page \in Nat, size \in Nat : page = r.page /\ size = r.size
  BY <1>1
<1>2. /\ o.column_name = "" /\ o.order_by = r.order_by /\ o.include_ids = {} /\ o.exclude_ids = {}
      /\ o.page = page + 1 /\ o.size = size
  BY DEF NextCommonOption, All, Request
<1>0. DOMAIN o = {"page", "size", "order_by", "column_name", "high_time", "low_time",
                  "exclude_ids", "include_ids"}
  BY DEF NextCommonOption, Request
<1> HIDE DEF o
<1>3. Times(rows, o, P) = {}
  BY <1>2 DEF Times, Columns
<1>4. n = [o EXCEPT !.high_time = o.low_time, !.low_time = None]
  BY <1>3 DEF NextCommonFilter, o
<1>5. /\ n.column_name = "" /\ n.order_by = r.order_by /\ n.include_ids = {} /\ n.exclude_ids = {}
      /\ n.page = page + 1 /\ n.size = size
  BY <1>0, <1>2, <1>4
<1>6. Normalized(n).page = page + 1 /\ Normalized(n).size = size
  <2>1. All(n)
    BY <1>5 DEF All
  <2>2. n.page >= 1 /\ n.size >= 1
    <3>1. page + 1 >= 1
      OBVIOUS
    <3>2. size >= 1
      OBVIOUS
    <3> QED
      BY <1>5, <3>1, <3>2, Zenon
  <2> QED
    BY <1>5, <2>1, <2>2, NormalizedPage
<1>7. (page + 1 - 1) * size = (page - 1) * size + size
  OBVIOUS
<1>8. Skipped(Normalized(n)) = (page + 1 - 1) * size /\ Skipped(r) = (page - 1) * size
  BY <1>6 DEF Skipped
<1> QED
  BY <1>5, <1>7, <1>8 DEF All

(* A page is sent. *)
LEMMA PageKeeps ==
    ASSUME GInv, PagesInv, ListGreetings(Normalized(request)) PROVE PagesInv'
<1> DEFINE r == Normalized(request)
<1>1. PICK P \in Pages(rows, r) : Sent(r, P) /\ disturbed' = (disturbed \/ Tied(r.order_by))
  BY DEF ListGreetings
<1>2. UNCHANGED <<rows, next, plain, owed, now>>
  BY <1>1 DEF Sent
<1>3. Live' = Live /\ \A c, j : Newer(c, j)' = Newer(c, j)
  BY <1>2 DEF Live, Newer
<1>4. CASE ~plain
  BY <1>2, <1>3, <1>4 DEF PagesInv
<1>5. CASE plain
  <2>1. r \in Request /\ All(r) /\ r.page >= 1 /\ r.size >= 1
    BY <1>5, NormalizedType, NormalizedPage DEF GInv, TypeOK, PagesInv
  <2> HIDE DEF r
  <2>2. /\ request' = NextCommonFilter(rows, NextCommonOption(r), P)
        /\ listing = "open" /\ listing' = IF Cardinality(P) < r.size THEN "over" ELSE "open"
        /\ seen' = seen \cup P
    BY <1>1, <1>5 DEF Sent
  <2>3. All(request') /\ request'.order_by = r.order_by /\ r.order_by = request.order_by
        /\ Skipped(Normalized(request')) = Skipped(r) + r.size
    <3>1. request' \in Request
      BY <1>1, SentStep DEF Pages, r
    <3>2. r.order_by = request.order_by
      BY NormalizedType DEF r, GInv, TypeOK
    <3> QED
      BY <2>1, <2>2, <3>1, <3>2, NextPage
  <2>4. ASSUME ~disturbed', NEW i \in owed
        PROVE  /\ i \in Live
               /\ i \in seen' \/ (/\ Cardinality(P) = r.size
                                 /\ Cardinality(Newer(r.order_by, i)) >= Skipped(Normalized(request')))
    <3>1. i \in Live /\ (i \in seen \/ Cardinality(Newer(r.order_by, i)) >= Skipped(r))
      BY <1>1, <1>5, <2>2, <2>3, <2>4 DEF PagesInv, ToCome, r
    <3>2. CASE i \in seen \cup P
      BY <2>2, <3>1, <3>2
    <3>3. CASE i \notin seen \cup P
      BY <1>1, <2>1, <2>3, <2>4, <3>1, <3>3, StillBehind DEF GInv
    <3> QED
      BY <3>2, <3>3
  <2>5. (~disturbed' /\ listing' = "over") => owed \subseteq seen'
    <3>1. r.size \in Nat
      BY <2>1 DEF Request
    <3> QED
      BY <2>2, <2>4, <3>1
  <2> QED
    BY <1>2, <1>3, <1>5, <2>2, <2>3, <2>4, <2>5 DEF PagesInv, ToCome
<1> QED
  BY <1>4, <1>5

LEMMA BeginKeeps ==
    ASSUME GInv, GInv', PagesInv, NEW r \in Requests, Begin(r) PROVE PagesInv'
<1>1. /\ UNCHANGED <<now, rows, next, seen, disturbed>>
      /\ request' = r /\ listing' = "open"
      /\ plain' = (r.column_name = "" /\ r.include_ids = {} /\ r.exclude_ids = {}
                     /\ r.page <= 1 /\ r.order_by \in Columns)
      /\ owed' = IF plain' THEN Live ELSE {}
  BY DEF Begin
<1>2. Live' = Live /\ \A c, j : Newer(c, j)' = Newer(c, j)
  BY <1>1 DEF Live, Newer
<1>3. CASE ~plain'
  BY <1>1, <1>2, <1>3 DEF PagesInv
<1>4. CASE plain'
  <2>1. r \in Request /\ All(r) /\ r.page <= 1
    BY <1>1, <1>4 DEF GInv, TypeOK, All
  <2>2. Skipped(Normalized(r)) = 0
    <3>1. r.page \in Nat /\ Normalized(r).size \in Nat
      BY <2>1, NormalizedType DEF Request
    <3>2. Normalized(r).page = 1
      <4>1. r.page = 0 \/ r.page = 1
        BY <2>1, <3>1
      <4> QED
        BY <2>1, <4>1 DEF Normalized, All, Request
    <3>3. Skipped(Normalized(r)) = (1 - 1) * Normalized(r).size
      BY <3>2, Zenon DEF Skipped
    <3> QED
      BY <3>1, <3>3
  <2>3. \A i \in Live : Cardinality(Newer(r.order_by, i)) >= Skipped(Normalized(r))
    BY <2>2, LiveFinite DEF Newer, Live
  <2> QED
    BY <1>1, <1>2, <1>4, <2>1, <2>3 DEF PagesInv, ToCome
<1> QED
  BY <1>3, <1>4

LEMMA NextIsFree ==
    ASSUME GInv, PagesInv PROVE next \in Nat /\ next \notin Live /\ \A j \in Ids : j \in Nat
<1>1. next \in Nat /\ \A j \in Ids : j \in Nat
  <2>1. next \in 1..MaxId + 1
    BY DEF GInv, TypeOK
  <2>2. next \in Nat
    BY <2>1, GreetingsAssumption
  <2>3. \A j \in Ids : j \in Nat
    BY GreetingsAssumption
  <2> QED
    BY <2>2, <2>3
<1>2. ~(next < next)
  BY <1>1
<1> QED
  BY <1>1, <1>2 DEF PagesInv

(* What is stored under the next id, or what is updated, is a greeting     *)
(* more, or one as old as it was.                                          *)
LEMMA StoresKeep ==
    ASSUME GInv, GInv', PagesInv, NEW i \in Ids, i \notin Live, Stored(i),
           UNCHANGED <<now, disturbed, listing, request, plain, seen>>, owed' \subseteq owed,
           next' = IF i >= next THEN i + 1 ELSE next
    PROVE  PagesInv'
<1>1. rows' = [rows EXCEPT ![i] = [create_at |-> now, update_at |-> now]] /\ rows \in [Ids -> Row \cup {None}]
  BY DEF Stored, GInv, TypeOK
<1>2. Live' \subseteq Live \cup {i}
  BY <1>1 DEF Live
<1>3. \A j \in Live : rows'[j] = rows[j]
  BY <1>1 DEF Live
<1>4. plain => Grows
  <2>1. ASSUME plain, NEW j \in Live PROVE rows[j][request.order_by] \in Int
    BY <2>1, TimesAreInt DEF PagesInv, All, GInv
  <2> QED
    BY <1>3, <2>1 DEF Grows, Live
<1>5. \A j \in Live' : j < next'
  <2>1. i \in Nat /\ next \in Nat /\ \A j \in Live : j \in Nat /\ j < next
    BY NextIsFree DEF PagesInv, Live
  <2>2. i < next' /\ next <= next' /\ next' \in Nat
    BY <2>1
  <2> QED
    BY <1>2, <2>1, <2>2
<1>6. \A j \in Live' : rows'[j].create_at <= now' /\ rows'[j].update_at <= now'
  <2>1. rows'[i].create_at = now /\ rows'[i].update_at = now /\ now <= now
    BY <1>1, TimesAreInt DEF GInv
  <2> QED
    BY <1>2, <1>3, <2>1 DEF PagesInv
<1> QED
  BY <1>4, <1>5, <1>6, GrowsKeeps DEF GInv

(* A greeting that is updated is not owed any more, or its create_at is    *)
(* what orders the pages; and it is as new as any.                         *)
LEMMA UpdateKeeps ==
    ASSUME GInv, GInv', PagesInv, NEW i \in Live, UpdateGreeting(i) PROVE PagesInv'
<1>1. /\ rows' = [rows EXCEPT ![i] = [rows[i] EXCEPT !.update_at = now]]
      /\ owed' = IF listing = "open" /\ request.order_by = "update_at" THEN owed \ {i} ELSE owed
      /\ UNCHANGED <<now, next, disturbed, listing, request, plain, seen>>
  BY DEF UpdateGreeting
<1>2. rows[i] \in Row /\ rows \in [Ids -> Row \cup {None}] /\ i \in Ids
  BY DEF GInv, TypeOK, Live
<1>3. rows'[i].create_at = rows[i].create_at /\ rows'[i].update_at = now
  BY <1>1, <1>2 DEF Row
<1>4. \A j \in Live \ {i} : rows'[j] = rows[j]
  BY <1>1, <1>2 DEF Live
<1>5. Live' = Live
  <2>1. rows'[i] # None
    <3>1. rows'[i] \in Row
      BY <1>1, <1>2 DEF GInv, TypeOK, Row
    <3> QED
      BY <3>1, NoneAssumption
  <2> QED
    BY <1>1, <1>2, <2>1 DEF Live
<1>6. \A j \in Live : rows[j].create_at \in Int /\ rows[j].update_at \in Int /\ now \in Int
  BY TimesAreInt DEF GInv
<1>7. \A j \in Live' : rows'[j].create_at <= now' /\ rows'[j].update_at <= now'
  <2>1. now <= now /\ \A j \in Live : rows[j].create_at <= now /\ rows[j].update_at <= now
    BY TimesAreInt DEF PagesInv, GInv
  <2>2. rows'[i].create_at <= now /\ rows'[i].update_at <= now
    BY <1>3, <2>1
  <2> QED
    BY <1>1, <1>4, <1>5, <2>1, <2>2
<1>8. plain /\ listing = "open" => Grows
  <2> SUFFICES ASSUME plain, listing = "open" PROVE Grows
    OBVIOUS
  <2>1. ASSUME NEW j \in Live \ {i}
        PROVE  /\ rows'[j][request.order_by] = rows[j][request.order_by]
               /\ rows'[j][request.order_by] >= rows[j][request.order_by]
    <3>1. rows'[j] = rows[j] /\ rows[j][request.order_by] \in Int
      BY <1>4, TimesAreInt DEF PagesInv, All, GInv
    <3> QED
      BY <3>1
  <2>2. rows'[i].update_at >= rows[i].update_at /\ rows'[i].create_at >= rows[i].create_at
    BY <1>3, <1>6 DEF PagesInv
  <2>3. CASE request.order_by = "update_at"
    BY <1>1, <1>5, <2>1, <2>2, <2>3 DEF Grows
  <2>4. CASE request.order_by = "create_at"
    BY <1>3, <1>5, <2>1, <2>2, <2>4 DEF Grows
  <2> QED
    BY <2>3, <2>4 DEF PagesInv, All, Columns
<1>9. owed' \subseteq owed
  BY <1>1
<1> QED
  BY <1>1, <1>5, <1>7, <1>8, <1>9, GrowsKeeps DEF GInv, PagesInv

(* Where no greeting changes, is deleted or is stored. *)
LEMMA StillKeeps ==
    ASSUME GInv, GInv', PagesInv, UNCHANGED <<rows, next, disturbed, client>>, now <= now'
    PROVE  PagesInv'
<1>1. Live' = Live
  BY DEF Live
<1>2. ASSUME plain, NEW j \in Live PROVE rows[j][request.order_by] \in Int
  BY <1>2, TimesAreInt DEF PagesInv, All, GInv
<1>3. plain => Grows
  BY <1>1, <1>2 DEF Grows, client
<1>4. \A j \in Live : rows[j].create_at <= now' /\ rows[j].update_at <= now'
  <2>1. \A j \in Live : rows[j].create_at \in Int /\ rows[j].update_at \in Int
    BY TimesAreInt DEF GInv
  <2>2. now \in Int /\ now' \in Int
    <3>1. now' \in 0..MaxTime
      BY DEF GInv, TypeOK
    <3> QED
      BY <3>1, TimesAreInt, GreetingsAssumption DEF GInv
  <2>3. \A j \in Live : rows[j].create_at <= now /\ rows[j].update_at <= now
    BY DEF PagesInv
  <2> QED
    BY <2>1, <2>2, <2>3
<1> QED
  BY <1>1, <1>3, <1>4, GrowsKeeps DEF GInv, PagesInv, client

LEMMA PagesStep == GInv /\ GInv' /\ PagesInv /\ [Next]_vars => PagesInv'
<1> SUFFICES ASSUME GInv, GInv', PagesInv, [Next]_vars PROVE PagesInv'
  OBVIOUS
<1>0. now \in Int /\ now <= now
  BY TimesAreInt DEF GInv
<1>1. CASE UNCHANGED <<now, rows, next, disturbed, client>>
  BY <1>0, <1>1, StillKeeps
<1>2. CASE CreateGreeting
  <2>1. next \notin Live /\ next >= next
    BY NextIsFree
  <2>2. next' = IF next >= next THEN next + 1 ELSE next
    BY <1>2, <2>1 DEF CreateGreeting
  <2> QED
    BY <1>2, <2>1, <2>2, StoresKeep DEF CreateGreeting, client
<1>3. ASSUME NEW i \in Ids \cup {0}, UpdateGreeting(i) PROVE PagesInv'
  <2>1. CASE i \in Live
    BY <1>3, <2>1, UpdateKeeps
  <2>2. CASE i \notin Live
    <3>1. PICK id \in Ids : /\ Stored(id) /\ next' = IF id >= next THEN id + 1 ELSE next
                            /\ id = IF i = 0 THEN next ELSE i
      BY <1>3, <2>2 DEF UpdateGreeting
    <3>2. next \notin Live
      BY NextIsFree
    <3> QED
      BY <1>3, <2>2, <3>1, <3>2, StoresKeep DEF UpdateGreeting
  <2> QED
    BY <2>1, <2>2
<1>4. CASE Delete
  <2>1. CASE doomed \cap Live = {}
    <3>2. rows' = rows /\ UNCHANGED <<now, next, disturbed, client>>
      BY <1>4, <2>1 DEF Delete, Live, GInv, TypeOK
    <3> QED
      BY <1>0, <3>2, StillKeeps
  <2>2. CASE doomed \cap Live # {}
    <3>1. /\ Live' \subseteq Live /\ UNCHANGED <<now, next, client>>
          /\ \A j \in Live' : rows'[j] = rows[j]
      BY <1>4 DEF Delete, Live
    <3>2. plain => disturbed'
      BY <1>4, <2>2 DEF Delete, PagesInv
    <3> QED
      BY <3>1, <3>2 DEF PagesInv, client
  <2> QED
    BY <2>1, <2>2
<1>5. CASE ListFails(Normalized(request))
  <2>1. /\ disturbed' /\ UNCHANGED <<now, rows, next, plain>>
        /\ request' = NextCommonFilter(rows, NextCommonOption(Normalized(request)), {})
        /\ listing' \in {"over", "open"}
    BY <1>5 DEF ListFails, Sent
  <2>2. Live' = Live
    BY <2>1 DEF Live
  <2>3. plain => All(request')
    <3> SUFFICES ASSUME plain PROVE All(request')
      OBVIOUS
    <3>1. Normalized(request) \in Request /\ All(Normalized(request))
          /\ Normalized(request).page >= 1 /\ Normalized(request).size >= 1
      BY NormalizedType, NormalizedPage DEF GInv, TypeOK, PagesInv
    <3> QED
      BY <2>1, <3>1, NextPage DEF GInv, TypeOK
  <2> QED
    BY <2>1, <2>2, <2>3 DEF PagesInv
<1>6. CASE UNCHANGED vars
  BY <1>1, <1>6 DEF vars, client
<1>7. CASE Tick
  BY <1>0, <1>7, StillKeeps DEF Tick
<1> QED
  BY <1>1, <1>2, <1>3, <1>4, <1>5, <1>6, <1>7, BeginKeeps, PageKeeps DEF Next, DeleteSelect

(* NothingSkipped holds: a client that pages through all greetings gets    *)
(* every one there was when it began, whatever is created and updated in   *)
(* between; if it orders by update_at, every one not updated meanwhile.    *)
THEOREM NothingSkippedCorrect == WellFormed /\ Spec => []NothingSkipped
<1>1. Init => PagesInv
  BY DEF Init, PagesInv, Live
<1>2. PagesInv => NothingSkipped
  BY DEF PagesInv, NothingSkipped
<1>3. CASE WellFormed
  <2>1. GInv /\ [Next]_vars => GInv'
    BY <1>3, GInvNext
  <2> QED
    BY <1>1, <1>2, <2>1, GInvInit, PagesStep, PTL DEF Spec
<1> QED
  BY <1>3
=============================================================================
