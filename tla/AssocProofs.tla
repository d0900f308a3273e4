---------------------------- MODULE AssocProofs ----------------------------
(* Proofs about Assoc: the pairs of rows stay together for any numbers of  *)
(* objects, types, requests and ids, as long as there is one writer.       *)
EXTENDS Assoc, TLAPS

-----------------------------------------------------------------------------
(* The partners of an id, the reverse of a key and of a row.               *)

(* Partner swaps the two ids of a pair, and stays below an odd counter. *)
LEMMA PartnerFacts ==
    /\ \A i \in Int : /\ Partner(i) \in Int
                      /\ Partner(i) # i
                      /\ Partner(Partner(i)) = i
    /\ \A n, i \in Int : n % 2 = 1 /\ i < n => Partner(i) < n
    /\ \A n \in Int : n % 2 = 1 => Partner(n) = n + 1 /\ (n + 2) % 2 = 1
  BY DEF Partner

(* GetRevertType is an involution without fixed points on the types. *)
LEMMA RevertTypeFacts ==
    \A a \in Types : /\ GetRevertType(a) \in Types
                     /\ GetRevertType(a) # a
                     /\ GetRevertType(GetRevertType(a)) = a
<1>1. \A a \in Types : a \in Nat /\ GetRevertType(a) \in Types
  BY AssocAssumption
<1>2. \A a \in Nat : GetRevertType(a) # a /\ GetRevertType(GetRevertType(a)) = a
  BY DEF GetRevertType
<1> QED
  BY <1>1, <1>2

(* Hence so is Revert on the keys ... *)
LEMMA RevertFacts ==
    \A k \in Key : /\ Revert(k) \in Key
                   /\ Revert(k) # k
                   /\ Revert(Revert(k)) = k
<1> SUFFICES ASSUME NEW k \in Key
             PROVE  /\ Revert(k) \in Key
                    /\ Revert(k) # k
                    /\ Revert(Revert(k)) = k
  OBVIOUS
<1>1. Revert(k).type = GetRevertType(k.type)
  BY DEF Revert
<1>2. k.type \in Types /\ k.from \in Objects /\ k.to \in Objects
  BY DEF Key
<1>3. Revert(k) \in Key
  BY <1>2, RevertTypeFacts DEF Revert, Key
<1>4. Revert(k) # k
  BY <1>1, <1>2, RevertTypeFacts
<1>5. Revert(Revert(k)) = [from |-> k.from, type |-> k.type, to |-> k.to]
  BY <1>2, RevertTypeFacts DEF Revert
<1> QED
  BY <1>3, <1>4, <1>5 DEF Key

(* ... and Backward on the rows. *)
LEMMA BackwardFacts ==
    \A r \in Row : /\ Backward(r) \in Row
                   /\ Backward(r) # None
                   /\ Backward(r).key = Revert(r.key)
                   /\ Backward(Backward(r)) = r
                   /\ r.key \in Key
<1> SUFFICES ASSUME NEW r \in Row
             PROVE  /\ Backward(r) \in Row
                    /\ Backward(r) # None
                    /\ Backward(r).key = Revert(r.key)
                    /\ Backward(Backward(r)) = r
                    /\ r.key \in Key
  OBVIOUS
<1>1. r = [key |-> r.key, meta |-> r.meta] /\ r.key \in Key /\ r.meta \in Metas
  BY DEF Row
<1>2. Backward(r) = [key |-> Revert(r.key), meta |-> r.meta]
  BY <1>1 DEF Backward
<1>3. Backward(r) \in Row
  BY <1>1, <1>2, RevertFacts DEF Row
<1>4. Backward(Backward(r)) = [key |-> Revert(Revert(r.key)), meta |-> r.meta]
  BY <1>2 DEF Backward
<1>5. Revert(Revert(r.key)) = r.key
  BY <1>1, RevertFacts
<1> QED
  BY <1>1, <1>2, <1>3, <1>4, <1>5, RevertFacts, AssocAssumption

(* The counter and the ids are integers. *)
LEMMA IdFacts == Ids \subseteq Int /\ MaxId \in Int /\ 0 \notin Ids
  BY AssocAssumption DEF Ids

(* A saved row is a row. *)
LEMMA SavedType ==
    ASSUME NEW t \in [Ids -> Row \cup {None}], NEW i, NEW r \in Row
    PROVE  Saved(t, i, r) \in [Ids -> Row \cup {None}]
  BY DEF Saved

LEMMA ReturnType ==
    ASSUME TypeOK, NEW c \in Clients, Return(c)
    PROVE  /\ pc' \in [Clients -> {"idle", "select revert", "save", "delete"}]
           /\ id' \in [Clients -> Ids \cup {0}]
           /\ revertId' \in [Clients -> Ids \cup {0}]
           /\ old' \in [Clients -> Key \cup {None}]
           /\ new' \in [Clients -> Row \cup {None}]
           /\ doomed' \in [Clients -> SUBSET Key]
           /\ \A d \in Clients : pc'[d] \in {"select revert", "save"} =>
                 old'[d] # None /\ new'[d] # None
  BY DEF TypeOK, Return

(* TypeOK holds: the table and the locals of the handlers hold what the    *)
(* types of the columns and of the variables say.                          *)
THEOREM TypeCorrect == Spec => []TypeOK
<1>1. Init => TypeOK
  BY AssocAssumption DEF Init, TypeOK, Ids
<1>2. TypeOK /\ [Next]_vars => TypeOK'
  <2> SUFFICES ASSUME TypeOK, [Next]_vars PROVE TypeOK'
    OBVIOUS
  <2>1. CASE UNCHANGED vars
    BY <2>1 DEF TypeOK, vars
  <2>2. ASSUME NEW c \in Writers, NEW r \in Row, CreateAssoc(c, r) PROVE TypeOK'
    <3>1. next \in 1..MaxId + 2 /\ next + 1 \in 1..MaxId /\ next' = next + 2
      BY <2>2 DEF TypeOK, CreateAssoc, Ids
    <3>2. next' \in 1..MaxId + 2
      BY <3>1, IdFacts
    <3>3. rows' \in [Ids -> Row \cup {None}]
      BY <2>2, BackwardFacts DEF TypeOK, CreateAssoc
    <3> QED
      BY <2>2, <3>2, <3>3 DEF TypeOK, CreateAssoc
  <2>3. ASSUME NEW c \in Writers, NEW k \in Key, NEW r \in Row, UpdateSelect(c, k, r)
        PROVE  TypeOK'
    <3>1. c \in Clients /\ k # None /\ r # None
      BY AssocAssumption
    <3>2. id' \in [Clients -> Ids \cup {0}]
      BY <2>3, <3>1 DEF TypeOK, UpdateSelect
    <3>3. \A d \in Clients : pc'[d] \in {"select revert", "save"} =>
             old'[d] # None /\ new'[d] # None
      BY <2>3, <3>1 DEF TypeOK, UpdateSelect
    <3> QED
      BY <2>3, <3>2, <3>3 DEF TypeOK, UpdateSelect
  <2>4. ASSUME NEW c \in Writers, UpdateSelectRevert(c) PROVE TypeOK'
    <3>1. CASE Return(c)
      BY <2>4, <3>1, ReturnType, AssocAssumption DEF TypeOK, UpdateSelectRevert
    <3>2. CASE ~Return(c)
      BY <2>4, <3>2 DEF TypeOK, UpdateSelectRevert
    <3> QED
      BY <3>1, <3>2
  <2>5. ASSUME NEW c \in Writers, UpdateSave(c) PROVE TypeOK'
    <3>1. c \in Clients
      BY AssocAssumption
    <3>2. new[c] \in Row /\ Backward(new[c]) \in Row
      BY <2>5, <3>1, BackwardFacts DEF TypeOK, UpdateSave
    <3> DEFINE half == Saved(rows, id[c], new[c])
    <3>3. half \in [Ids -> Row \cup {None}]
      BY <3>2, SavedType DEF TypeOK
    <3>4. Saved(half, revertId[c], Backward(new[c])) \in [Ids -> Row \cup {None}]
      BY <3>2, <3>3, SavedType
    <3>5. rows' = rows \/ rows' = Saved(half, revertId[c], Backward(new[c]))
      BY <2>5 DEF UpdateSave
    <3>6. rows' \in [Ids -> Row \cup {None}]
      BY <3>4, <3>5 DEF TypeOK
    <3> QED
      BY <2>5, <3>1, <3>6, ReturnType DEF TypeOK, UpdateSave
  <2>6. ASSUME NEW c \in Clients, NEW S \in SUBSET Ids, DeleteSelect(c, S) PROVE TypeOK'
    <3>1. \A i \in S : rows[i].key \in Key
      BY <2>6, BackwardFacts DEF TypeOK, DeleteSelect, Live
    <3>2. {rows[i].key : i \in S} \in SUBSET Key
      BY <3>1
    <3>3. doomed' \in [Clients -> SUBSET Key]
      BY <2>6, <3>2 DEF TypeOK, DeleteSelect
    <3>4. /\ pc' \in [Clients -> {"idle", "select revert", "save", "delete"}]
          /\ \A d \in Clients : pc'[d] \in {"select revert", "save"} =>
                pc[d] \in {"select revert", "save"}
      BY <2>6 DEF TypeOK, DeleteSelect
    <3> QED
      BY <2>6, <3>3, <3>4 DEF TypeOK, DeleteSelect
  <2>7. ASSUME NEW c \in Clients, Delete(c) PROVE TypeOK'
    BY <2>7, ReturnType DEF TypeOK, Delete
  <2>8. ASSUME NEW c \in Clients, Fail(c) PROVE TypeOK'
    BY <2>8, ReturnType DEF TypeOK, Fail
  <2> QED
    BY <2>1, <2>2, <2>3, <2>4, <2>5, <2>6, <2>7, <2>8 DEF Next
<1> QED
  BY <1>1, <1>2, PTL DEF Spec

-----------------------------------------------------------------------------
(* What the steps of a request leave alone.                                *)

(* A step that leaves the table and the counter alone keeps their parts of *)
(* the invariant.                                                          *)
LEMMA TableKept ==
    ASSUME AssocInv, rows' = rows, next' = next
    PROVE  /\ UniqueKeys' /\ PairsKeepIds'
           /\ (\A c \in Clients : id'[c] < next) => IdsGiven'
  BY DEF AssocInv, IdsGiven, UniqueKeys, PairsKeepIds, Live

(* After Return, c is idle and no other request has changed. *)
LEMMA Returned ==
    ASSUME TypeOK, NEW c \in Clients, Return(c)
    PROVE  /\ pc'[c] = "idle" /\ id'[c] = 0
           /\ \A d \in Clients \ {c} : /\ pc'[d] = pc[d]
                                       /\ id'[d] = id[d]
                                       /\ revertId'[d] = revertId[d]
                                       /\ old'[d] = old[d]
  BY DEF TypeOK, Return

(* Hence its ids stay given out ... *)
LEMMA ReturnedIds ==
    ASSUME TypeOK, AssocInv, NEW c \in Clients, Return(c), next' = next
    PROVE  \A d \in Clients : id'[d] < next
<1>1. next \in Int /\ 0 < next
  <2>1. next \in 1..MaxId + 2
    BY DEF TypeOK
  <2> QED
    BY <2>1, IdFacts
<1>2. \A d \in Clients : id[d] < next
  BY DEF AssocInv, IdsGiven
<1> QED
  BY <1>1, <1>2, Returned

(* ... and, if it left the table alone, the invariant holds. *)
LEMMA ReturnInv ==
    ASSUME TypeOK, AssocInv, NEW c \in Clients, Return(c), rows' = rows, next' = next
    PROVE  AssocInv'
<1>1. UniqueKeys' /\ PairsKeepIds' /\ IdsGiven'
  BY TableKept, ReturnedIds
<1>2. WriterKnows'
  <2> SUFFICES ASSUME NEW d \in Clients, pc'[d] \in {"select revert", "save"}
               PROVE  /\ d \in Writers /\ id'[d] \in Ids /\ Partner(id'[d]) \in Ids
                      /\ \/ Has(id'[d], old'[d])
                         \/ ~Live(id'[d]) /\ Free(old'[d]) /\ Free(Revert(old'[d]))
                      /\ pc'[d] = "save" => revertId'[d] = Partner(id'[d])
    BY DEF WriterKnows, Has, Live, Free
  <2>1. d # c
    BY Returned
  <2>2. /\ pc'[d] = pc[d] /\ id'[d] = id[d]
        /\ revertId'[d] = revertId[d] /\ old'[d] = old[d]
    BY <2>1, Returned
  <2> QED
    BY <2>2 DEF AssocInv, WriterKnows
<1> QED
  BY <1>1, <1>2 DEF AssocInv

(* With one writer, no other request is under way in an update. *)
LEMMA OnlyWriter ==
    ASSUME OneWriter, WriterKnows, NEW c \in Writers, NEW d \in Clients \ {c}
    PROVE  pc[d] \notin {"select revert", "save"}
  BY DEF OneWriter, WriterKnows
-----------------------------------------------------------------------------
(* The three statements that change the table, on the table alone.         *)

(* What the invariant says of a table t. *)
Unique(t) == \A i, j \in Ids : t[i] # None /\ t[j] # None /\ t[i].key = t[j].key => i = j
Paired(t) == \A i \in Ids : t[i] # None => Partner(i) \in Ids /\ t[Partner(i)] = Backward(t[i])

LEMMA TableInv ==
    /\ (UniqueKeys <=> Unique(rows)) /\ (UniqueKeys' <=> Unique(rows'))
    /\ (PairsKeepIds <=> Paired(rows)) /\ (PairsKeepIds' <=> Paired(rows'))
  BY DEF UniqueKeys, PairsKeepIds, Unique, Paired, Live

(* The table with r at id i and its reverse at the partner, and without    *)
(* the other rows that have the key of either.                             *)
Placed(t, i, r) ==
    [j \in Ids |-> IF j = i THEN r
                   ELSE IF j = Partner(i) THEN Backward(r)
                   ELSE IF t[j] # None /\ t[j].key \in {r.key, Revert(r.key)} THEN None
                   ELSE t[j]]

(* In a table of pairs, the rows that are left have keys of their own ... *)
LEMMA PlacedUnique ==
    ASSUME NEW t \in [Ids -> Row \cup {None}], Unique(t),
           NEW i \in Ids, Partner(i) \in Ids, NEW r \in Row
    PROVE  Unique(Placed(t, i, r))
<1> DEFINE p == Placed(t, i, r)
<1>1. /\ r # None /\ Backward(r) # None /\ Backward(r).key = Revert(r.key)
      /\ Revert(r.key) # r.key
  BY BackwardFacts, RevertFacts, AssocAssumption
<1>2. i # Partner(i)
  BY PartnerFacts, IdFacts
<1>3. /\ p[i] = r /\ p[Partner(i)] = Backward(r)
      /\ \A j \in Ids \ {i, Partner(i)} :
            p[j] # None => p[j] = t[j] /\ t[j].key # r.key /\ t[j].key # Revert(r.key)
  BY <1>2 DEF Placed
<1> HIDE DEF p
<1> SUFFICES ASSUME NEW j \in Ids, NEW k \in Ids,
                    p[j] # None, p[k] # None, p[j].key = p[k].key
             PROVE  j = k
  BY DEF Unique, p
<1>4. CASE j \in {i, Partner(i)} /\ k \in {i, Partner(i)}
  BY <1>1, <1>3, <1>4
<1>5. CASE j \notin {i, Partner(i)} /\ k \notin {i, Partner(i)}
  BY <1>3, <1>5 DEF Unique
<1>6. CASE j \in {i, Partner(i)} /\ k \notin {i, Partner(i)}
  BY <1>1, <1>3, <1>6
<1>7. CASE j \notin {i, Partner(i)} /\ k \in {i, Partner(i)}
  BY <1>1, <1>3, <1>7
<1> QED
  BY <1>4, <1>5, <1>6, <1>7

(* ... and their partners are left too. *)
LEMMA PlacedPaired ==
    ASSUME NEW t \in [Ids -> Row \cup {None}], Paired(t),
           NEW i \in Ids, Partner(i) \in Ids, NEW r \in Row
    PROVE  Paired(Placed(t, i, r))
<1> DEFINE p == Placed(t, i, r)
<1>1. r # None /\ Backward(Backward(r)) = r /\ r.key \in Key
  BY BackwardFacts, AssocAssumption
<1>2. \A j \in Ids : Partner(Partner(j)) = j /\ Partner(j) # j
  BY PartnerFacts, IdFacts
<1>3. /\ p[i] = r /\ p[Partner(i)] = Backward(r)
      /\ \A j \in Ids \ {i, Partner(i)} :
            p[j] = IF t[j] # None /\ t[j].key \in {r.key, Revert(r.key)}
                   THEN None ELSE t[j]
  BY <1>2 DEF Placed
<1> HIDE DEF p
<1> SUFFICES ASSUME NEW j \in Ids, p[j] # None
             PROVE  Partner(j) \in Ids /\ p[Partner(j)] = Backward(p[j])
  BY DEF Paired, p
<1>4. CASE j \in {i, Partner(i)}
  BY <1>1, <1>2, <1>3, <1>4
<1>5. CASE j \notin {i, Partner(i)}
  <2>1. p[j] = t[j] /\ t[j] # None /\ t[j] \in Row /\ t[j].key \notin {r.key, Revert(r.key)}
    BY <1>3, <1>5
  <2>2. Partner(j) \in Ids /\ t[Partner(j)] = Backward(t[j])
    BY <2>1 DEF Paired
  <2>3. Partner(j) \notin {i, Partner(i)}
    BY <1>2, <1>5
  <2>4. t[Partner(j)] # None /\ t[Partner(j)].key = Revert(t[j].key) /\ t[j].key \in Key
    BY <2>1, <2>2, BackwardFacts
  <2>5. Revert(t[j].key) \notin {r.key, Revert(r.key)}
    BY <1>1, <2>1, <2>4, RevertFacts
  <2> QED
    BY <1>3, <2>1, <2>2, <2>3, <2>4, <2>5
<1> QED
  BY <1>4, <1>5

(* A save that is not refused places the pair: where an id is in use no    *)
(* other row has the key, where it is not the row with the key gives way.  *)
LEMMA SavedIsPlaced ==
    ASSUME NEW t \in [Ids -> Row \cup {None}],
           NEW i \in Ids, Partner(i) \in Ids, NEW r \in Row
    PROVE  Saved(Saved(t, i, r), Partner(i), Backward(r)) = Placed(t, i, r)
<1>1. i # Partner(i)
  BY PartnerFacts, IdFacts
<1>2. r # None /\ Backward(r).key = Revert(r.key) /\ Revert(r.key) # r.key
  BY BackwardFacts, RevertFacts, AssocAssumption
<1>3. Saved(t, i, r) = [j \in Ids |-> IF j = i THEN r
          ELSE IF t[j] # None /\ t[j].key = r.key THEN None ELSE t[j]]
  BY DEF Saved
<1> DEFINE half == Saved(t, i, r)
<1>4. Saved(half, Partner(i), Backward(r)) =
        [j \in Ids |-> IF j = Partner(i) THEN Backward(r)
          ELSE IF half[j] # None /\ half[j].key = Revert(r.key) THEN None ELSE half[j]]
  BY <1>2 DEF Saved
<1>5. \A j \in Ids : half[j] = IF j = i THEN r
          ELSE IF t[j] # None /\ t[j].key = r.key THEN None ELSE t[j]
  BY <1>3
<1> HIDE DEF half
<1>6. ASSUME NEW j \in Ids
      PROVE  (IF j = Partner(i) THEN Backward(r)
              ELSE IF half[j] # None /\ half[j].key = Revert(r.key) THEN None ELSE half[j])
             = (IF j = i THEN r
                ELSE IF j = Partner(i) THEN Backward(r)
                ELSE IF t[j] # None /\ t[j].key \in {r.key, Revert(r.key)} THEN None
                ELSE t[j])
  BY <1>1, <1>2, <1>5
<1>7. Saved(half, Partner(i), Backward(r)) = Placed(t, i, r)
  BY <1>4, <1>6 DEF Placed
<1> QED
  BY <1>7 DEF half

(* So does an insert, at two ids that are free. *)
LEMMA InsertIsPlaced ==
    ASSUME TypeOK, IdsGiven, next + 1 \in Ids, NEW r \in Row,
           Free(r.key), Free(Revert(r.key))
    PROVE  /\ next \in Ids /\ Partner(next) = next + 1
           /\ [rows EXCEPT ![next] = r, ![next + 1] = Backward(r)] = Placed(rows, next, r)
<1>1. next \in Int /\ next \in Ids
  <2>1. next \in 1..MaxId + 2 /\ next + 1 \in 1..MaxId
    BY DEF TypeOK, Ids
  <2> QED
    BY <2>1, IdFacts DEF Ids
<1>2. Partner(next) = next + 1 /\ next # next + 1
  BY <1>1, PartnerFacts DEF IdsGiven
<1>3. \A j \in Ids : rows[j] # None => rows[j].key \notin {r.key, Revert(r.key)}
  BY DEF Free, Has, Live
<1>4. DOMAIN rows = Ids /\ rows = [j \in Ids |-> rows[j]]
  BY DEF TypeOK
<1>5. [rows EXCEPT ![next] = r, ![next + 1] = Backward(r)]
        = [j \in Ids |-> IF j = next THEN r
                         ELSE IF j = next + 1 THEN Backward(r) ELSE rows[j]]
  BY <1>1, <1>2, <1>4
<1>6. Placed(rows, next, r)
        = [j \in Ids |-> IF j = next THEN r
                         ELSE IF j = next + 1 THEN Backward(r) ELSE rows[j]]
  BY <1>2, <1>3 DEF Placed
<1> QED
  BY <1>1, <1>2, <1>5, <1>6

(* The table without the rows that have, or whose reverse has, a key in K. *)
Cleared(t, K) ==
    [i \in Ids |-> IF t[i] # None /\ t[i].key \in createOrConditions(K) THEN None ELSE t[i]]

LEMMA ClearedInv ==
    ASSUME NEW t \in [Ids -> Row \cup {None}], Unique(t), Paired(t), NEW K \in SUBSET Key
    PROVE  Unique(Cleared(t, K)) /\ Paired(Cleared(t, K))
<1>1. \A i \in Ids : Cleared(t, K)[i] =
         IF t[i] # None /\ t[i].key \in createOrConditions(K) THEN None ELSE t[i]
  BY DEF Cleared
<1>2. Unique(Cleared(t, K))
  BY <1>1 DEF Unique
<1>3. \A k \in Key : k \in createOrConditions(K) <=> Revert(k) \in createOrConditions(K)
  BY RevertFacts DEF createOrConditions
<1>4. Paired(Cleared(t, K))
  <2> SUFFICES ASSUME NEW i \in Ids, Cleared(t, K)[i] # None
               PROVE  /\ Partner(i) \in Ids
                      /\ Cleared(t, K)[Partner(i)] = Backward(Cleared(t, K)[i])
    BY DEF Paired
  <2>1. /\ Cleared(t, K)[i] = t[i] /\ t[i] # None /\ t[i] \in Row
        /\ t[i].key \notin createOrConditions(K)
    BY <1>1
  <2>2. Partner(i) \in Ids /\ t[Partner(i)] = Backward(t[i])
    BY <2>1 DEF Paired
  <2>3. Backward(t[i]).key = Revert(t[i].key) /\ t[i].key \in Key
    BY <2>1, BackwardFacts
  <2>4. Revert(t[i].key) \notin createOrConditions(K)
    BY <1>3, <2>1, <2>3
  <2> QED
    BY <1>1, <2>1, <2>2, <2>3, <2>4
<1> QED
  BY <1>2, <1>4
-----------------------------------------------------------------------------
(* The inductive step.                                                     *)

(* Where c is the only writer and idle afterwards, no update is under way. *)
LEMMA NobodyUpdates ==
    ASSUME OneWriter, WriterKnows, NEW c \in Writers, pc'[c] = "idle",
           \A d \in Clients \ {c} : pc'[d] = pc[d]
    PROVE  WriterKnows'
<1>1. \A d \in Clients : pc'[d] \notin {"select revert", "save"}
  BY OnlyWriter
<1> QED
  BY <1>1 DEF WriterKnows

LEMMA InvStep == TypeOK /\ OneWriter /\ AssocInv /\ [Next]_vars => AssocInv'
<1> SUFFICES ASSUME TypeOK, OneWriter, AssocInv, [Next]_vars PROVE AssocInv'
  OBVIOUS
<1> USE DEF AssocInv
<1>a. /\ rows \in [Ids -> Row \cup {None}] /\ Unique(rows) /\ Paired(rows)
      /\ next \in Int /\ next % 2 = 1
  <2>1. rows \in [Ids -> Row \cup {None}] /\ next \in 1..MaxId + 2
    BY DEF TypeOK
  <2> QED
    BY <2>1, IdFacts, TableInv DEF IdsGiven
<1>1. CASE UNCHANGED vars
  BY <1>1 DEF vars, IdsGiven, UniqueKeys, PairsKeepIds, WriterKnows, Has, Live, Free
<1>2. ASSUME NEW c \in Writers, NEW r \in Row, CreateAssoc(c, r) PROVE AssocInv'
  <2>0. c \in Clients
    BY AssocAssumption
  <2>1. /\ next + 1 \in Ids /\ next' = next + 2
        /\ UNCHANGED <<pc, id, revertId, old, new, doomed>>
    BY <1>2 DEF CreateAssoc
  <2>2. rows' = rows \/ (next \in Ids /\ Partner(next) = next + 1 /\ rows' = Placed(rows, next, r))
    BY <1>2, <2>1, InsertIsPlaced DEF CreateAssoc
  <2>3. UniqueKeys' /\ PairsKeepIds'
    <3>1. CASE rows' = rows
      BY <1>a, <3>1, TableInv
    <3>2. CASE next \in Ids /\ Partner(next) = next + 1 /\ rows' = Placed(rows, next, r)
      BY <1>a, <2>1, <3>2, PlacedUnique, PlacedPaired, TableInv
    <3> QED
      BY <2>2, <3>1, <3>2
  <2>4. IdsGiven'
    <3>1. next' % 2 = 1 /\ next < next'
      BY <1>a, <2>1, PartnerFacts
    <3>2. \A d \in Clients : id[d] \in Int /\ id'[d] = id[d] /\ id[d] < next
      <4>1. \A d \in Clients : id[d] \in Ids \cup {0}
        BY DEF TypeOK
      <4>2. \A d \in Clients : id[d] < next
        BY DEF IdsGiven
      <4>3. id' = id
        BY <2>1
      <4>4. \A x \in Ids \cup {0} : x \in Int
        BY IdFacts
      <4> QED
        BY <4>1, <4>2, <4>3, <4>4
    <3>3. \A j \in Ids : rows'[j] # None => j < next \/ j = next \/ j = next + 1
      BY <2>2 DEF Placed, IdsGiven, Live
    <3>4. \A j \in Ids : rows'[j] # None => j < next'
      <4> SUFFICES ASSUME NEW j \in Ids, rows'[j] # None PROVE j < next'
        OBVIOUS
      <4>1. j \in Int /\ next \in Int
        BY <1>a, IdFacts
      <4>2. j < next \/ j = next \/ j = next + 1
        BY <3>3
      <4> QED
        BY <2>1, <4>1, <4>2
    <3>5. \A d \in Clients : id'[d] < next'
      BY <1>a, <2>1, <3>2
    <3> QED
      BY <3>1, <3>4, <3>5 DEF IdsGiven, Live
  <2>5. WriterKnows'
    BY <1>2, <2>0, <2>1, NobodyUpdates DEF CreateAssoc
  <2> QED
    BY <2>3, <2>4, <2>5
<1>3. ASSUME NEW c \in Writers, NEW k \in Key, NEW r \in Row, UpdateSelect(c, k, r)
      PROVE  AssocInv'
  <2>0. c \in Clients
    BY AssocAssumption
  <2>1. PICK i \in Ids : Has(i, k) /\ id' = [id EXCEPT ![c] = i]
    BY <1>3 DEF UpdateSelect
  <2>2. rows' = rows /\ next' = next
    BY <1>3 DEF UpdateSelect
  <2>3. id'[c] = i /\ old'[c] = k /\ pc'[c] = "select revert"
    BY <1>3, <2>0, <2>1 DEF TypeOK, UpdateSelect
  <2>4. \A d \in Clients \ {c} : id'[d] = id[d] /\ pc'[d] = pc[d]
    BY <1>3, <2>0, <2>1 DEF TypeOK, UpdateSelect
  <2>5. i < next /\ Partner(i) \in Ids
    BY <2>1 DEF Has, IdsGiven, PairsKeepIds
  <2>6. \A d \in Clients : id'[d] < next
    BY <2>3, <2>4, <2>5 DEF IdsGiven
  <2>7. UniqueKeys' /\ PairsKeepIds' /\ IdsGiven'
    BY <2>2, <2>6, TableKept
  <2>8. WriterKnows'
    <3>1. \A d \in Clients \ {c} : pc'[d] \notin {"select revert", "save"}
      BY <2>4, OnlyWriter
    <3>2. Has(id[c], old[c])'
      BY <2>1, <2>2, <2>3 DEF Has, Live
    <3> QED
      BY <2>0, <2>1, <2>3, <2>5, <3>1, <3>2 DEF WriterKnows
  <2> QED
    BY <2>7, <2>8
<1>4. ASSUME NEW c \in Writers, UpdateSelectRevert(c) PROVE AssocInv'
  <2>0. c \in Clients /\ rows' = rows /\ next' = next
    BY <1>4, AssocAssumption DEF UpdateSelectRevert
  <2>1. CASE Return(c)
    BY <2>0, <2>1, ReturnInv
  <2>2. CASE ~Return(c)
    <3>1. PICK i \in Ids : /\ Has(i, Revert(old[c])) /\ revertId' = [revertId EXCEPT ![c] = i]
                           /\ pc' = [pc EXCEPT ![c] = "save"] /\ UNCHANGED <<id, old, new, doomed>>
      BY <1>4, <2>2 DEF UpdateSelectRevert
    <3>2. /\ pc'[c] = "save" /\ revertId'[c] = i
          /\ \A d \in Clients \ {c} : pc'[d] = pc[d]
      BY <2>0, <3>1 DEF TypeOK
    <3>3. pc[c] = "select revert" /\ id[c] \in Ids /\ Partner(id[c]) \in Ids
      BY <1>4, <2>0 DEF UpdateSelectRevert, WriterKnows
    <3>4. Has(id[c], old[c])
      BY <2>0, <3>1, <3>3 DEF WriterKnows, Free
    <3>5. rows[id[c]] \in Row /\ rows[Partner(id[c])] = Backward(rows[id[c]])
      BY <1>a, <3>3, <3>4 DEF Has, Live, Paired
    <3>6. rows[Partner(id[c])] # None /\ rows[Partner(id[c])].key = Revert(old[c])
      BY <3>4, <3>5, BackwardFacts DEF Has
    <3>7. i = Partner(id[c])
      BY <3>1, <3>3, <3>6 DEF UniqueKeys, Has, Live
    <3>8. WriterKnows'
      <4>1. \A d \in Clients \ {c} : pc'[d] \notin {"select revert", "save"}
        BY <3>2, OnlyWriter
      <4>2. Has(id[c], old[c])'
        BY <2>0, <3>1, <3>4 DEF Has, Live
      <4> QED
        BY <2>0, <3>1, <3>2, <3>3, <3>7, <4>1, <4>2 DEF WriterKnows
    <3>9. UniqueKeys' /\ PairsKeepIds' /\ IdsGiven'
      BY <2>0, <3>1, TableKept DEF IdsGiven
    <3> QED
      BY <3>8, <3>9
  <2> QED
    BY <2>1, <2>2
<1>5. ASSUME NEW c \in Writers, UpdateSave(c) PROVE AssocInv'
  <2>0. c \in Clients /\ next' = next /\ Return(c) /\ pc[c] = "save"
    BY <1>5, AssocAssumption DEF UpdateSave
  <2>1. /\ id[c] \in Ids /\ Partner(id[c]) \in Ids /\ revertId[c] = Partner(id[c])
        /\ new[c] \in Row
    BY <2>0 DEF WriterKnows, TypeOK
  <2>2. rows' = rows \/ rows' = Placed(rows, id[c], new[c])
    <3>1. \/ rows' = rows
          \/ rows' = Saved(Saved(rows, id[c], new[c]), Partner(id[c]), Backward(new[c]))
      BY <1>5, <2>1 DEF UpdateSave
    <3> QED
      BY <1>a, <2>1, <3>1, SavedIsPlaced
  <2>3. UniqueKeys' /\ PairsKeepIds'
    <3>1. CASE rows' = rows
      BY <1>a, <3>1, TableInv
    <3>2. CASE rows' = Placed(rows, id[c], new[c])
      BY <1>a, <2>1, <3>2, PlacedUnique, PlacedPaired, TableInv
    <3> QED
      BY <2>2, <3>1, <3>2
  <2>4. IdsGiven'
    <3>1. id[c] < next /\ Partner(id[c]) < next
      BY <1>a, <2>0, <2>1, IdFacts, PartnerFacts DEF IdsGiven
    <3>2. \A j \in Ids : rows'[j] # None => j < next
      BY <2>2, <3>1 DEF Placed, IdsGiven, Live
    <3> QED
      BY <2>0, <3>2, ReturnedIds DEF IdsGiven, Live
  <2>5. WriterKnows'
    BY <2>0, Returned, NobodyUpdates
  <2> QED
    BY <2>3, <2>4, <2>5
<1>6. ASSUME NEW c \in Clients, NEW S \in SUBSET Ids, DeleteSelect(c, S) PROVE AssocInv'
  <2>1. UNCHANGED <<rows, next, id, revertId, old, new>>
    BY <1>6 DEF DeleteSelect
  <2>2. \A d \in Clients : pc'[d] \in {"select revert", "save"} => pc'[d] = pc[d]
    BY <1>6 DEF DeleteSelect, TypeOK
  <2>3. UniqueKeys' /\ PairsKeepIds' /\ IdsGiven'
    BY <2>1, TableKept DEF IdsGiven
  <2>4. WriterKnows'
    BY <2>1, <2>2 DEF WriterKnows, Has, Live, Free
  <2> QED
    BY <2>3, <2>4
<1>7. ASSUME NEW c \in Clients, Delete(c) PROVE AssocInv'
  <2>0. next' = next /\ Return(c) /\ doomed[c] \in SUBSET Key
    BY <1>7 DEF Delete, TypeOK
  <2> DEFINE K == doomed[c]
  <2>1. rows' = Cleared(rows, K)
    BY <1>7 DEF Delete, Cleared, Live
  <2>2. UniqueKeys' /\ PairsKeepIds'
    BY <1>a, <2>0, <2>1, ClearedInv, TableInv
  <2>3. \A i \in Ids : rows'[i] =
           IF rows[i] # None /\ rows[i].key \in createOrConditions(K) THEN None ELSE rows[i]
    BY <2>1 DEF Cleared
  <2>4. IdsGiven'
    BY <2>0, <2>3, ReturnedIds DEF IdsGiven, Live
  <2>5. WriterKnows'
    <3> SUFFICES ASSUME NEW d \in Clients, pc'[d] \in {"select revert", "save"}
                 PROVE  /\ d \in Writers /\ id'[d] \in Ids /\ Partner(id'[d]) \in Ids
                        /\ \/ Has(id[d], old[d])'
                           \/ ~Live(id[d])' /\ Free(old[d])' /\ Free(Revert(old[d]))'
                        /\ pc'[d] = "save" => revertId'[d] = Partner(id'[d])
      BY DEF WriterKnows
    <3>1. d # c
      BY <2>0, Returned
    <3>2. /\ pc'[d] = pc[d] /\ id'[d] = id[d]
          /\ revertId'[d] = revertId[d] /\ old'[d] = old[d]
      BY <2>0, <3>1, Returned
    <3>3. /\ d \in Writers /\ id'[d] \in Ids /\ Partner(id'[d]) \in Ids
          /\ pc'[d] = "save" => revertId'[d] = Partner(id'[d])
      BY <3>2 DEF WriterKnows
    <3>4. \/ Has(id[d], old[d])'
          \/ ~Live(id[d])' /\ Free(old[d])' /\ Free(Revert(old[d]))'
      <4>1. old[d] \in Key
        BY <3>2 DEF TypeOK
      <4>2. CASE Has(id[d], old[d]) /\ old[d] \notin createOrConditions(K)
        BY <2>3, <3>2, <3>3, <4>2 DEF Has, Live
      <4>3. CASE Has(id[d], old[d]) /\ old[d] \in createOrConditions(K)
        <5>3. rows'[id[d]] = None /\ id'[d] = id[d] /\ old'[d] = old[d]
          BY <2>3, <3>2, <3>3, <4>3 DEF Has, Live
        <5>1. Revert(old[d]) \in createOrConditions(K)
          BY <2>0, <4>1, <4>3, RevertFacts DEF createOrConditions
        <5>2. \A i \in Ids : rows'[i] # None => rows'[i].key \notin createOrConditions(K)
          BY <2>3
        <5> QED
          BY <4>3, <5>1, <5>2, <5>3 DEF Free, Has, Live
      <4>4. CASE ~Live(id[d]) /\ Free(old[d]) /\ Free(Revert(old[d]))
        BY <2>3, <3>2, <3>3, <4>4 DEF Free, Has, Live
      <4> QED
        BY <3>2, <4>2, <4>3, <4>4 DEF WriterKnows
    <3> QED
      BY <3>2, <3>3, <3>4
  <2> QED
    BY <2>2, <2>4, <2>5
<1>8. ASSUME NEW c \in Clients, Fail(c) PROVE AssocInv'
  BY <1>8, ReturnInv DEF Fail
<1> QED
  BY <1>1, <1>2, <1>3, <1>4, <1>5, <1>6, <1>7, <1>8 DEF Next

(* The inductive invariant holds, with one writer: stale ids included, the *)
(* two rows of a pair are only ever written together.                      *)
THEOREM AssocInvCorrect == OneWriter => (Spec => []AssocInv)
<1> SUFFICES ASSUME OneWriter PROVE Spec => []AssocInv
  OBVIOUS
<1>1. Init => AssocInv
  BY IdFacts DEF Init, AssocInv, IdsGiven, UniqueKeys, PairsKeepIds, WriterKnows, Live
<1>2. TypeOK /\ AssocInv /\ [Next]_vars => AssocInv'
  BY InvStep
<1> QED
  BY <1>1, <1>2, TypeCorrect, PTL DEF Spec

(* Every row has its reverse row, with the same meta, at every moment.     *)
THEOREM PairsSymmetricCorrect == OneWriter => (Spec => []PairsSymmetric)
<1> SUFFICES ASSUME OneWriter PROVE Spec => []PairsSymmetric
  OBVIOUS
<1>1. AssocInv => PairsSymmetric
  BY DEF AssocInv, PairsKeepIds, PairsSymmetric
<1>2. Spec => []AssocInv
  BY AssocInvCorrect
<1> QED
  BY <1>1, <1>2, PTL
-----------------------------------------------------------------------------
(* The refinement of AssocGraph: what the three statements that change the *)
(* table do to the set of its rows.                                        *)
LinksOf(t) == {t[i] : i \in Ids} \ {None}

(* The links whose association has none of the keys K. *)
Apart(L, K) == {l \in L : l.key \notin K /\ Backward(l).key \notin K}

(* A pair of rows is placed where the association of key k was, if it is   *)
(* there: k's association is replaced.                                     *)
LEMMA PlacedLinks ==
    ASSUME NEW t \in [Ids -> Row \cup {None}], Unique(t), Paired(t),
           NEW i \in Ids, Partner(i) \in Ids, NEW r \in Row, NEW k \in Key,
           \/ t[i] # None /\ t[i].key = k
           \/ t[i] = None /\ \A j \in Ids : t[j] # None => t[j].key \notin {k, Revert(k)}
    PROVE  LinksOf(Placed(t, i, r)) = Apart(LinksOf(t), {k, r.key}) \cup {r, Backward(r)}
<1> DEFINE p == Placed(t, i, r)
<1>1. /\ r # None /\ Backward(r) # None /\ i # Partner(i) /\ Partner(Partner(i)) = i
      /\ r.key \in Key
  BY BackwardFacts, PartnerFacts, IdFacts, AssocAssumption
<1>2. \A l \in LinksOf(t) : l \in Row /\ l # None /\ Backward(l).key = Revert(l.key) /\ l.key \in Key
  BY BackwardFacts, AssocAssumption DEF LinksOf
<1>3. \A a, b \in Key : Revert(a) = b <=> a = Revert(b)
  BY RevertFacts
<1>4. \A j \in Ids : p[j] = IF j = i THEN r
                           ELSE IF j = Partner(i) THEN Backward(r)
                           ELSE IF t[j] # None /\ t[j].key \in {r.key, Revert(r.key)} THEN None
                           ELSE t[j]
  BY DEF Placed
<1> HIDE DEF p
(* The ids i and Partner(i) are those of the association of k, or free. *)
<1>5. ASSUME NEW j \in Ids, t[j] # None
      PROVE  t[j].key \in {k, Revert(k)} <=> j \in {i, Partner(i)}
  <2>1. CASE t[i] # None /\ t[i].key = k
    <3>1. /\ t[Partner(i)] = Backward(t[i]) /\ t[Partner(i)] # None
          /\ t[Partner(i)].key = Revert(k)
      BY <2>1, BackwardFacts DEF Paired
    <3> QED
      BY <1>5, <2>1, <3>1 DEF Unique
  <2>2. CASE t[i] = None /\ \A n \in Ids : t[n] # None => t[n].key \notin {k, Revert(k)}
    <3>1. t[Partner(i)] = None
      <4> SUFFICES ASSUME t[Partner(i)] # None PROVE FALSE
        OBVIOUS
      <4>1. t[i] = Backward(t[Partner(i)]) /\ t[Partner(i)] \in Row
        BY <1>1 DEF Paired
      <4> QED
        BY <2>2, <4>1, BackwardFacts
    <3> QED
      BY <1>5, <2>2, <3>1
  <2> QED
    BY <2>1, <2>2
<1>6. ASSUME NEW l \in LinksOf(p) PROVE l \in Apart(LinksOf(t), {k, r.key}) \cup {r, Backward(r)}
  <2>1. PICK j \in Ids : l = p[j] /\ p[j] # None
    BY DEF LinksOf
  <2>2. CASE j \in {i, Partner(i)}
    BY <1>1, <1>4, <2>1, <2>2
  <2>3. CASE j \notin {i, Partner(i)}
    <3>1. l = t[j] /\ t[j] # None /\ l.key \notin {r.key, Revert(r.key)}
      BY <1>4, <2>1, <2>3
    <3>2. l \in LinksOf(t) /\ l.key \notin {k, Revert(k)}
      BY <1>5, <2>3, <3>1 DEF LinksOf
    <3> QED
      BY <1>1, <1>2, <1>3, <3>1, <3>2 DEF Apart
  <2> QED
    BY <2>2, <2>3
<1>7. ASSUME NEW l \in Apart(LinksOf(t), {k, r.key}) PROVE l \in LinksOf(p)
  <2>1. PICK j \in Ids : l = t[j] /\ t[j] # None
    BY DEF Apart, LinksOf
  <2>2. l.key \notin {k, r.key} /\ Revert(l.key) \notin {k, r.key} /\ l.key \in Key
    BY <1>2 DEF Apart
  <2>3. l.key \notin {k, Revert(k), r.key, Revert(r.key)}
    BY <1>1, <1>3, <2>2
  <2>4. p[j] = t[j]
    BY <1>4, <1>5, <2>1, <2>3
  <2> QED
    BY <2>1, <2>4 DEF LinksOf
<1>8. r \in LinksOf(p) /\ Backward(r) \in LinksOf(p)
  BY <1>1, <1>4 DEF LinksOf
<1> QED
  BY <1>6, <1>7, <1>8 DEF p

(* The links that a DELETE with the keys K chooses, directly or by their   *)
(* reverse: its associations are cleared.                                  *)
Chosen(L, K) == {l \in L : l.key \in createOrConditions(K)}

LEMMA ClearedLinks ==
    ASSUME NEW t \in [Ids -> Row \cup {None}], Paired(t), NEW K \in SUBSET Key
    PROVE  LinksOf(Cleared(t, K))
              = LinksOf(t) \ (Chosen(LinksOf(t), K) \cup {Backward(l) : l \in Chosen(LinksOf(t), K)})
<1> DEFINE S == Chosen(LinksOf(t), K)
<1>1. \A j \in Ids : Cleared(t, K)[j] =
         IF t[j] # None /\ t[j].key \in createOrConditions(K) THEN None ELSE t[j]
  BY DEF Cleared
<1>2. ASSUME NEW l \in S PROVE Backward(l).key \in createOrConditions(K)
  <2>1. l \in Row /\ l.key \in createOrConditions(K)
    BY DEF Chosen, LinksOf
  <2>2. Backward(l).key = Revert(l.key) /\ l.key \in Key
    BY <2>1, BackwardFacts
  <2> QED
    BY <2>1, <2>2, RevertFacts DEF createOrConditions
<1>3. LinksOf(Cleared(t, K)) = {l \in LinksOf(t) : l.key \notin createOrConditions(K)}
  BY <1>1 DEF LinksOf
<1>4. \A l \in LinksOf(t) : l \in S <=> l.key \in createOrConditions(K)
  BY DEF Chosen
<1> HIDE DEF S
<1>5. LinksOf(Cleared(t, K)) = LinksOf(t) \ (S \cup {Backward(l) : l \in S})
  BY <1>2, <1>3, <1>4
<1> QED
  BY <1>5 DEF S
-----------------------------------------------------------------------------
(* A request that returns has nothing more to replace. *)
LEMMA ReturnAsked ==
    ASSUME TypeOK, NEW c \in Clients, Return(c) PROVE asked' = [asked EXCEPT ![c] = {}]
<1>1. /\ pc'[c] = "idle"
      /\ \A d \in Clients \ {c} : pc'[d] = pc[d] /\ old'[d] = old[d] /\ new'[d] = new[d]
  BY DEF Return, TypeOK
<1> QED
  BY <1>1 DEF asked

LEMMA LinksType ==
    ASSUME TypeOK
    PROVE  /\ links = LinksOf(rows) /\ links' = LinksOf(rows') /\ links \subseteq Row
           /\ \A l \in Row : Reverse[l] = Backward(l)
  BY DEF links, LinksOf, Reverse, TypeOK

(* With one writer, every statement of a handler is a step of the promise, *)
(* or changes nothing in it.                                               *)
LEMMA GraphStep ==
    ASSUME TypeOK, OneWriter, AssocInv, [Next]_vars
    PROVE  [Graph!GNext]_<<links, asked>>
<1> USE DEF AssocInv
<1>a. /\ rows \in [Ids -> Row \cup {None}] /\ Unique(rows) /\ Paired(rows)
  BY TableInv DEF TypeOK
<1>b. \A k : Graph!Taken(k) <=> ~Free(k)
  BY DEF Graph!Taken, links, Free, Has, Live
<1>c. ASSUME NEW c \in Clients, Return(c), UNCHANGED rows PROVE Graph!GNext
  BY <1>c, ReturnAsked DEF Graph!GNext, Graph!Refuse, links
<1>1. CASE UNCHANGED vars
  BY <1>1 DEF vars, links, asked
<1>2. ASSUME NEW c \in Writers, NEW r \in Row, CreateAssoc(c, r)
      PROVE  Graph!GNext \/ UNCHANGED <<links, asked>>
  <2>1. UNCHANGED asked
    BY <1>2 DEF CreateAssoc, asked
  <2>2. CASE UNCHANGED rows
    BY <2>1, <2>2 DEF links
  <2>3. CASE ~UNCHANGED rows
    <3>1. /\ next + 1 \in Ids /\ Free(r.key) /\ Free(Revert(r.key))
          /\ rows' = [rows EXCEPT ![next] = r, ![next + 1] = Backward(r)]
      BY <1>2, <2>3 DEF CreateAssoc
    <3>2. next \in Ids /\ Partner(next) = next + 1 /\ rows' = Placed(rows, next, r)
      BY <3>1, InsertIsPlaced
    <3>3. rows[next] = None
      <4>1. next \in Int /\ ~(next < next)
        BY <3>2, IdFacts
      <4> QED
        BY <3>2, <4>1 DEF IdsGiven, Live
    <3>4. \A j \in Ids : rows[j] # None => rows[j].key \notin {r.key, Revert(r.key)}
      BY <3>1 DEF Free, Has, Live
    <3>5. r.key \in Key /\ Backward(r).key = Revert(r.key)
      BY BackwardFacts
    <3>6. links' = Apart(links, {r.key}) \cup {r, Backward(r)}
      <4>1. Partner(next) \in Ids
        BY <3>1, <3>2
      <4>2. LinksOf(Placed(rows, next, r))
               = Apart(LinksOf(rows), {r.key, r.key}) \cup {r, Backward(r)}
        BY <1>a, <3>2, <3>3, <3>4, <3>5, <4>1, PlacedLinks
      <4>3. {r.key, r.key} = {r.key}
        OBVIOUS
      <4> QED
        BY <3>2, <4>2, <4>3, LinksType
    <3>7. Apart(links, {r.key}) = links
      <4>1. ASSUME NEW l \in links PROVE l.key # r.key /\ Backward(l).key # r.key
        <5>1. l \in Row /\ l.key # r.key /\ l.key # Revert(r.key)
          BY <3>4, LinksType DEF LinksOf
        <5>2. Backward(l).key = Revert(l.key) /\ l.key \in Key
          BY <5>1, BackwardFacts
        <5> QED
          BY <3>5, <5>1, <5>2, RevertFacts
      <4> QED
        BY <4>1 DEF Apart
    <3>8. Graph!Create(r)
      BY <1>b, <2>1, <3>1, <3>5, <3>6, <3>7, LinksType DEF Graph!Create
    <3> QED
      BY <3>8 DEF Graph!GNext
  <2> QED
    BY <2>2, <2>3
<1>3. ASSUME NEW c \in Writers, NEW k \in Key, NEW r \in Row, UpdateSelect(c, k, r)
      PROVE  Graph!GNext
  <2>0. c \in Clients
    BY AssocAssumption
  <2>1. PICK i \in Ids : Has(i, k)
    BY <1>3 DEF UpdateSelect
  <2>2. rows[i] \in links /\ rows[i].key = k
    BY <2>1 DEF Has, Live, links
  <2>3. /\ pc[c] = "idle" /\ pc'[c] = "select revert" /\ old'[c] = k /\ new'[c] = r
        /\ \A d \in Clients \ {c} : pc'[d] = pc[d] /\ old'[d] = old[d] /\ new'[d] = new[d]
        /\ UNCHANGED rows
    BY <1>3, <2>0 DEF UpdateSelect, TypeOK
  <2>4. asked[c] = {} /\ asked' = [asked EXCEPT ![c] = {[old |-> k, new |-> r]}]
    BY <2>0, <2>3 DEF asked
  <2>5. Graph!Ask(c)
    BY <2>2, <2>3, <2>4 DEF Graph!Ask, links
  <2> QED
    BY <2>0, <2>5 DEF Graph!GNext
<1>4. ASSUME NEW c \in Writers, UpdateSelectRevert(c)
      PROVE  Graph!GNext \/ UNCHANGED <<links, asked>>
  <2>0. c \in Clients /\ UNCHANGED rows /\ pc[c] = "select revert"
    BY <1>4, AssocAssumption DEF UpdateSelectRevert
  <2>1. CASE Return(c)
    BY <1>c, <2>0, <2>1
  <2>2. CASE ~Return(c)
    <3>1. pc' = [pc EXCEPT ![c] = "save"] /\ UNCHANGED <<old, new>>
      BY <1>4, <2>2 DEF UpdateSelectRevert
    <3>2. UNCHANGED asked
      BY <2>0, <3>1 DEF asked, TypeOK
    <3> QED
      BY <2>0, <3>2 DEF links
  <2> QED
    BY <2>1, <2>2
<1>5. ASSUME NEW c \in Writers, UpdateSave(c) PROVE Graph!GNext
  <2>0. c \in Clients /\ Return(c) /\ pc[c] = "save"
    BY <1>5, AssocAssumption DEF UpdateSave
  <2> DEFINE k == old[c]
             r == new[c]
  <2>1. /\ id[c] \in Ids /\ Partner(id[c]) \in Ids /\ revertId[c] = Partner(id[c])
        /\ k \in Key /\ r \in Row
        /\ Has(id[c], k) \/ (~Live(id[c]) /\ Free(k) /\ Free(Revert(k)))
    BY <2>0 DEF WriterKnows, TypeOK
  <2>2. CASE UNCHANGED rows
    BY <1>c, <2>0, <2>2
  <2>3. CASE ~UNCHANGED rows
    <3>1. /\ ~Refuses(rows, id[c], r)
          /\ rows' = Saved(Saved(rows, id[c], r), Partner(id[c]), Backward(r))
      BY <1>5, <2>1, <2>3 DEF UpdateSave
    <3>2. rows' = Placed(rows, id[c], r)
      BY <1>a, <2>1, <3>1, SavedIsPlaced
    <3>3. \/ rows[id[c]] # None /\ rows[id[c]].key = k
          \/ rows[id[c]] = None /\ \A j \in Ids : rows[j] # None => rows[j].key \notin {k, Revert(k)}
      BY <2>1 DEF Has, Live, Free
    <3>4. links' = Apart(links, {k, r.key}) \cup {r, Backward(r)}
      BY <1>a, <2>1, <3>2, <3>3, PlacedLinks, LinksType
    <3>5. Apart(links, {k, r.key}) = Graph!Others({k, r.key})
      BY LinksType DEF Apart, Graph!Others
    <3>6. Graph!Taken(k) => r.key = k \/ ~Graph!Taken(r.key)
      <4> SUFFICES ASSUME ~Free(k), ~Free(r.key) PROVE r.key = k
        BY <1>b
      <4>1. rows[id[c]] # None /\ rows[id[c]].key = k
        BY <2>1 DEF Has, Live
      <4>2. PICK j \in Ids : rows[j] # None /\ rows[j].key = r.key
        BY DEF Free, Has, Live
      <4>3. j = id[c]
        BY <3>1, <4>1, <4>2 DEF Refuses
      <4> QED
        BY <4>1, <4>2, <4>3
    <3>7. asked[c] = {[old |-> k, new |-> r]} /\ asked' = [asked EXCEPT ![c] = {}]
      BY <2>0, ReturnAsked DEF asked
    <3>8. Graph!Replace(c)
      <4> DEFINE a == [old |-> k, new |-> r]
      <4>1. a \in asked[c] /\ a.old = k /\ a.new = r
        BY <3>7
      <4>2. links' = Graph!Others({a.old, a.new.key}) \cup {a.new, Reverse[a.new]}
        BY <2>1, <3>4, <3>5, LinksType
      <4>3. Graph!Taken(a.old) => a.new.key = a.old \/ ~Graph!Taken(a.new.key)
        BY <3>6
      <4> HIDE DEF a
      <4> QED
        BY <3>7, <4>1, <4>2, <4>3 DEF Graph!Replace
    <3> QED
      BY <2>0, <3>8 DEF Graph!GNext
  <2> QED
    BY <2>2, <2>3
<1>6. ASSUME NEW c \in Clients, NEW S \in SUBSET Ids, DeleteSelect(c, S)
      PROVE  UNCHANGED <<links, asked>>
  <2>1. pc[c] = "idle" /\ pc' = [pc EXCEPT ![c] = "delete"] /\ UNCHANGED <<rows, old, new>>
    BY <1>6 DEF DeleteSelect
  <2> QED
    BY <2>1 DEF links, asked, TypeOK
<1>7. ASSUME NEW c \in Clients, Delete(c) PROVE Graph!GNext
  <2>1. Return(c) /\ pc[c] = "delete" /\ doomed[c] \in SUBSET Key
    BY <1>7 DEF Delete, TypeOK
  <2>2. rows' = Cleared(rows, doomed[c])
    BY <1>7 DEF Delete, Cleared, Live
  <2> DEFINE S == Chosen(links, doomed[c])
  <2>3. links' = links \ (S \cup {Backward(l) : l \in S})
    BY <1>a, <2>1, <2>2, ClearedLinks, LinksType
  <2>4. {Backward(l) : l \in S} = {Reverse[l] : l \in S}
    <3>1. \A l \in S : Reverse[l] = Backward(l)
      BY LinksType DEF Chosen
    <3> HIDE DEF S
    <3> QED
      BY <3>1
  <2>5. UNCHANGED asked
    <3>1. asked' = [asked EXCEPT ![c] = {}]
      BY <2>1, ReturnAsked
    <3>2. asked[c] = {}
      BY <2>1 DEF asked
    <3> QED
      BY <3>1, <3>2 DEF asked
  <2>6. Graph!Remove(S)
    BY <2>3, <2>4, <2>5 DEF Graph!Remove
  <2>7. S \in SUBSET links
    BY DEF Chosen
  <2> QED
    BY <2>6, <2>7 DEF Graph!GNext
<1>8. ASSUME NEW c \in Clients, Fail(c) PROVE Graph!GNext
  BY <1>8, <1>c DEF Fail
<1> QED
  BY <1>1, <1>2, <1>3, <1>4, <1>5, <1>6, <1>7, <1>8 DEF Next

(* With one writer, the table implements the graph of associations: each   *)
(* request creates, replaces or removes whole associations, those of its   *)
(* own keys only, whatever happened between its statements.                *)
THEOREM ImplementsAssocGraphCorrect == OneWriter => (Spec => ImplementsAssocGraph)
<1> SUFFICES ASSUME OneWriter PROVE Spec => ImplementsAssocGraph
  OBVIOUS
<1>1. Init => Graph!GInit
  BY DEF Init, Graph!GInit, links, asked
<1>2. TypeOK /\ AssocInv /\ [Next]_vars => [Graph!GNext]_<<links, asked>>
  BY GraphStep
<1>3. Spec => []AssocInv
  BY AssocInvCorrect
<1> QED
  BY <1>1, <1>2, <1>3, TypeCorrect, PTL DEF Spec, ImplementsAssocGraph, Graph!GSpec
-----------------------------------------------------------------------------
(* What the graph needs of Reverse. *)
LEMMA ReverseFacts ==
    /\ \A l \in Row : /\ Reverse[l] \in Row
                      /\ Reverse[l].key = Revert(l.key)
                      /\ Reverse[Reverse[l]] = l
                      /\ l.key \in Key
    /\ \A a, b \in Key : Revert(a) = b <=> a = Revert(b)
  BY BackwardFacts, RevertFacts DEF Reverse

(* The links and the replacements of the graph are of the right kind. *)
LEMMA GraphType ==
    Graph!GSpec => [](links \subseteq Row /\ asked \in [Clients -> SUBSET [old : Key, new : Row]])
<1> DEFINE Type == links \subseteq Row /\ asked \in [Clients -> SUBSET [old : Key, new : Row]]
<1>1. Graph!GInit => Type
  BY DEF Graph!GInit
<1>2. Type /\ [Graph!GNext]_<<links, asked>> => Type'
  <2> SUFFICES ASSUME Type, [Graph!GNext]_<<links, asked>> PROVE Type'
    OBVIOUS
  <2>1. CASE UNCHANGED <<links, asked>>
    BY <2>1
  <2>2. ASSUME NEW c \in Clients, Graph!Ask(c) PROVE Type'
    <3>1. PICK l \in links, r \in Row : asked' = [asked EXCEPT ![c] = {[old |-> l.key, new |-> r]}]
      BY <2>2 DEF Graph!Ask
    <3>2. l.key \in Key
      BY ReverseFacts
    <3>3. [old |-> l.key, new |-> r] \in [old : Key, new : Row]
      BY <3>2
    <3> QED
      BY <2>2, <3>1, <3>3 DEF Graph!Ask
  <2>3. ASSUME NEW c \in Clients, Graph!Refuse(c) PROVE Type'
    BY <2>3 DEF Graph!Refuse
  <2>4. ASSUME NEW c \in Clients, Graph!Replace(c) PROVE Type'
    <3>1. PICK a \in asked[c] :
             links' = Graph!Others({a.old, a.new.key}) \cup {a.new, Reverse[a.new]}
      BY <2>4 DEF Graph!Replace
    <3>2. a.new \in Row /\ Reverse[a.new] \in Row
      BY <3>1, ReverseFacts
    <3>3. links' \subseteq Row
      BY <3>1, <3>2 DEF Graph!Others
    <3> QED
      BY <2>4, <3>3 DEF Graph!Replace
  <2>5. ASSUME NEW S \in SUBSET links, Graph!Remove(S) PROVE Type'
    BY <2>5 DEF Graph!Remove
  <2>6. ASSUME NEW r \in Row, Graph!Create(r) PROVE Type'
    BY <2>6, ReverseFacts DEF Graph!Create
  <2> QED
    BY <2>1, <2>2, <2>3, <2>4, <2>5, <2>6 DEF Graph!GNext
<1> QED
  BY <1>1, <1>2, PTL DEF Graph!GSpec

(* A pair of links is put where no link of its keys is left. *)
LEMMA PutWhole ==
    ASSUME links \subseteq Row, Graph!WholeAssociations, NEW r \in Row, NEW K, r.key \in K,
           links' = Graph!Others(K) \cup {r, Reverse[r]}
    PROVE  Graph!WholeAssociations'
<1> DEFINE O == Graph!Others(K)
<1>1. \A l \in O : /\ l \in links /\ l \in Row /\ l.key \notin K /\ Reverse[l].key \notin K
  BY DEF Graph!Others
<1>2. \A l \in O : Reverse[l] \in O
  BY <1>1, ReverseFacts DEF Graph!Others, Graph!WholeAssociations
<1>3. \A l, m \in O : l.key = m.key => m = l
  BY <1>1 DEF Graph!WholeAssociations
<1>4. \A l \in O : l.key # r.key /\ l.key # Reverse[r].key
  BY <1>1, ReverseFacts
<1>5. /\ Reverse[r] \in Row /\ Reverse[Reverse[r]] = r /\ Reverse[r].key # r.key
      /\ r.key \in Key
  BY ReverseFacts, RevertFacts
<1>6. links' = O \cup {r, Reverse[r]}
  OBVIOUS
<1> HIDE DEF O
<1>7. \A l \in links' : Reverse[l] \in links'
  BY <1>2, <1>5, <1>6
<1>8. \A l, m \in links' : l.key = m.key => m = l
  BY <1>3, <1>4, <1>5, <1>6
<1> QED
  BY <1>7, <1>8 DEF Graph!WholeAssociations

(* The graph, on its own, keeps its associations whole: so does whatever   *)
(* implements it.                                                          *)
THEOREM GraphKeepsWhole == Graph!GSpec => []Graph!WholeAssociations
<1> DEFINE Type == links \subseteq Row /\ asked \in [Clients -> SUBSET [old : Key, new : Row]]
<1>1. Graph!GInit => Graph!WholeAssociations
  BY DEF Graph!GInit, Graph!WholeAssociations
<1>2. Type /\ Graph!WholeAssociations /\ [Graph!GNext]_<<links, asked>>
         => Graph!WholeAssociations'
  <2> SUFFICES ASSUME Type, Graph!WholeAssociations, [Graph!GNext]_<<links, asked>>
               PROVE  Graph!WholeAssociations'
    OBVIOUS
  <2>1. CASE UNCHANGED links
    BY <2>1 DEF Graph!WholeAssociations
  <2>2. ASSUME NEW c \in Clients, Graph!Replace(c) PROVE Graph!WholeAssociations'
    <3>1. PICK a \in asked[c] :
             links' = Graph!Others({a.old, a.new.key}) \cup {a.new, Reverse[a.new]}
      BY <2>2 DEF Graph!Replace
    <3>2. a.new \in Row
      BY <3>1
    <3> QED
      BY <3>1, <3>2, PutWhole
  <2>3. ASSUME NEW S \in SUBSET links, Graph!Remove(S) PROVE Graph!WholeAssociations'
    <3>1. links' = links \ (S \cup {Reverse[l] : l \in S})
      BY <2>3 DEF Graph!Remove
    <3>2. ASSUME NEW l \in links' PROVE Reverse[l] \in links'
      <4>1. l \in links /\ l \in Row /\ l \notin S /\ \A m \in S : l # Reverse[m]
        BY <3>1
      <4>2. Reverse[l] \in links /\ Reverse[Reverse[l]] = l
        BY <4>1, ReverseFacts DEF Graph!WholeAssociations
      <4>3. Reverse[l] \notin S
        BY <4>1, <4>2
      <4>4. \A m \in S : Reverse[l] # Reverse[m]
        BY <4>1, ReverseFacts
      <4> QED
        BY <3>1, <4>2, <4>3, <4>4
    <3>3. \A l \in links' : l \in links
      BY <3>1
    <3> QED
      BY <3>2, <3>3 DEF Graph!WholeAssociations
  <2>4. ASSUME NEW r \in Row, Graph!Create(r) PROVE Graph!WholeAssociations'
    <3>1. Graph!Others({r.key}) = links
      <4>1. \A l \in links : l.key # r.key /\ l.key # Reverse[r].key
        BY <2>4 DEF Graph!Create, Graph!Taken
      <4>2. \A l \in links : Reverse[l].key # r.key
        BY <4>1, ReverseFacts
      <4> QED
        BY <4>1, <4>2 DEF Graph!Others
    <3> QED
      BY <2>4, <3>1, PutWhole DEF Graph!Create
  <2> QED
    BY <2>1, <2>2, <2>3, <2>4 DEF Graph!GNext, Graph!Ask, Graph!Refuse
<1>3. Graph!GSpec => []Type
  BY GraphType
<1> QED
  BY <1>1, <1>2, <1>3, PTL DEF Graph!GSpec
=============================================================================
