------------------------------- MODULE Assoc -------------------------------
(***************************************************************************)
(* The association store of the assoc service (domain/assoc.go) over its   *)
(* MySQL table.  An association from -- type --> to is kept as two rows,   *)
(* itself and its reverse to -- revert type --> from, with the same meta.  *)
(* No handler opens a transaction: each statement commits on its own, so   *)
(* the statements of concurrent requests interleave, and an id or a key    *)
(* that a handler read may be stale when it writes.                        *)
(*                                                                         *)
(* The reads (GetAssoc, ListAssocs, CountAssocs) change no state.  The     *)
(* associations in the requests are complete: no field of theirs is zero.  *)
(***************************************************************************)
EXTENDS Integers

CONSTANTS Clients,    \* the requests that may run at the same time
          Writers,    \* those among them that create and update
          Objects,    \* the ends of an association
          Types,      \* the values of AssocType
          Metas,      \* what the meta of an association may be
          MaxId,      \* bound: the AUTO_INCREMENT counter stops here
          None        \* stands for "no row"

(* The types come in pairs: odd with the even number after it. *)
GetRevertType(a) == IF a % 2 = 0 THEN a - 1 ELSE a + 1

Key == [from : Objects, type : Types, to : Objects]
Row == [key : Key, meta : Metas]
Ids == 1..MaxId

ASSUME AssocAssumption ==
    /\ Writers \subseteq Clients
    /\ Types \subseteq Nat \ {0}
    /\ \A a \in Types : GetRevertType(a) \in Types
    /\ 0 \notin Objects
    /\ MaxId \in Nat
    /\ None \notin Row \cup Key

(* Mutant of Revert: the parity of the type is not looked at. *)
RevertUp(k) == [from |-> k.to, type |-> k.type + 1, to |-> k.from]

Revert(k) == [from |-> k.to, type |-> GetRevertType(k.type), to |-> k.from]

(* The reverse row of a row. *)
Backward(r) == [key |-> Revert(r.key), meta |-> r.meta]

VARIABLES rows,      \* rows[i]: the row with id i, or None
          next,      \* the AUTO_INCREMENT counter of the table
          pc,        \* pc[c]: the statement that the request of c is about to run
          id,        \* id[c]: the id that UpdateAssoc selected
          revertId,  \* revertId[c]: the id of the reverse row that it selected
          old,       \* old[c]: the key of its request
          new,       \* new[c]: the row its request asks for
          doomed     \* doomed[c]: the keys that a delete selected

vars == <<rows, next, pc, id, revertId, old, new, doomed>>

Live(i)    == rows[i] # None
Has(i, k)  == Live(i) /\ rows[i].key = k
Free(k)    == \A i \in Ids : ~Has(i, k)

Init ==
    /\ rows = [i \in Ids |-> None]
    /\ next = 1
    /\ pc = [c \in Clients |-> "idle"]
    /\ id = [c \in Clients |-> 0]
    /\ revertId = [c \in Clients |-> 0]
    /\ old = [c \in Clients |-> None]
    /\ new = [c \in Clients |-> None]
    /\ doomed = [c \in Clients |-> {}]

-----------------------------------------------------------------------------
(* The handler of c returns. *)
Return(c) ==
    /\ pc' = [pc EXCEPT ![c] = "idle"]
    /\ id' = [id EXCEPT ![c] = 0]
    /\ revertId' = [revertId EXCEPT ![c] = 0]
    /\ old' = [old EXCEPT ![c] = None]
    /\ new' = [new EXCEPT ![c] = None]
    /\ doomed' = [doomed EXCEPT ![c] = {}]

(* CreateAssoc: one INSERT of both rows, which the unique key refuses as a *)
(* whole if it finds either; the ids it was given are used up all the same.*)
CreateAssoc(c, r) ==
    /\ pc[c] = "idle"
    /\ next + 1 \in Ids
    /\ next' = next + 2
    /\ \/ /\ Free(r.key) /\ Free(Revert(r.key))
          /\ rows' = [rows EXCEPT ![next] = r, ![next + 1] = Backward(r)]
       \/ /\ ~(Free(r.key) /\ Free(Revert(r.key)))
          /\ UNCHANGED rows
    /\ UNCHANGED <<pc, id, revertId, old, new, doomed>>

(* UpdateAssoc: the row of the request's key is selected (an error ends    *)
(* the request if there is none), ...                                      *)
UpdateSelect(c, k, r) ==
    /\ pc[c] = "idle"
    /\ \E i \in Ids : Has(i, k) /\ id' = [id EXCEPT ![c] = i]
    /\ old' = [old EXCEPT ![c] = k]
    /\ new' = [new EXCEPT ![c] = r]
    /\ pc' = [pc EXCEPT ![c] = "select revert"]
    /\ UNCHANGED <<rows, next, revertId, doomed>>

(* Mutant of UpdateSelectRevert: the error of the SELECT is not checked. *)
UpdateSelectRevertUnchecked(c) ==
    /\ pc[c] = "select revert"
    /\ \/ \E i \in Ids : Has(i, Revert(old[c])) /\ revertId' = [revertId EXCEPT ![c] = i]
       \/ Free(Revert(old[c])) /\ UNCHANGED revertId
    /\ pc' = [pc EXCEPT ![c] = "save"]
    /\ UNCHANGED <<rows, next, id, old, new, doomed>>

(* ... then, by its own key, the reverse row, ... *)
UpdateSelectRevert(c) ==
    /\ pc[c] = "select revert"
    /\ \/ /\ \E i \in Ids :
                Has(i, Revert(old[c])) /\ revertId' = [revertId EXCEPT ![c] = i]
          /\ pc' = [pc EXCEPT ![c] = "save"]
          /\ UNCHANGED <<id, old, new, doomed>>
       \/ Free(Revert(old[c])) /\ Return(c)
    /\ UNCHANGED <<rows, next>>

(* Mutant of Refuses: a REPLACE, which removes the row that has the key. *)
RefusesNever(t, i, r) == FALSE

(* INSERT ... ON DUPLICATE KEY UPDATE of id and entity, for the row r with *)
(* id i: the row with that id is rewritten, which fails when another has   *)
(* the key; if there is none, the row that has the key gets the id, and if *)
(* there is none either, the row is inserted.                              *)
Refuses(t, i, r) ==
    t[i] # None /\ \E j \in Ids \ {i} : t[j] # None /\ t[j].key = r.key

Saved(t, i, r) ==
    [j \in Ids |-> IF j = i THEN r
                   ELSE IF t[j] # None /\ t[j].key = r.key THEN None ELSE t[j]]

(* ... and both are saved under their ids, in one statement.  (The row is  *)
(* selected once more for the response, which changes nothing.)            *)
UpdateSave(c) ==
    /\ pc[c] = "save"
    /\ LET half == Saved(rows, id[c], new[c])
           fails == \/ Refuses(rows, id[c], new[c])
                    \/ Refuses(half, revertId[c], Backward(new[c]))
       IN  rows' = IF fails THEN rows ELSE Saved(half, revertId[c], Backward(new[c]))
    /\ Return(c)
    /\ UNCHANGED next

(* DeleteAssoc and DeleteAssocs: the rows that match are selected (one by  *)
(* its key, or any number by a filter on ids, times, ends or type), ...    *)
DeleteSelect(c, S) ==
    /\ pc[c] = "idle"
    /\ S # {}
    /\ \A i \in S : Live(i)
    /\ doomed' = [doomed EXCEPT ![c] = {rows[i].key : i \in S}]
    /\ pc' = [pc EXCEPT ![c] = "delete"]
    /\ UNCHANGED <<rows, next, id, revertId, old, new>>

(* Mutant of createOrConditions: the reverse condition is missing. *)
forwardConditions(K) == K

(* The condition of the DELETE: every key, or its reverse. *)
createOrConditions(K) == K \cup {Revert(k) : k \in K}

(* ... and one DELETE removes them with their reverse rows. *)
Delete(c) ==
    /\ pc[c] = "delete"
    /\ rows' = [i \in Ids |-> IF Live(i) /\ rows[i].key \in createOrConditions(doomed[c])
                              THEN None ELSE rows[i]]
    /\ Return(c)
    /\ UNCHANGED next

(* A statement fails, or the process stops, between two statements. *)
Fail(c) == pc[c] # "idle" /\ Return(c) /\ UNCHANGED <<rows, next>>

Next ==
    \/ \E c \in Writers :
          \/ \E r \in Row : CreateAssoc(c, r)
          \/ \E k \in Key, r \in Row : UpdateSelect(c, k, r)
          \/ UpdateSelectRevert(c)
          \/ UpdateSave(c)
    \/ \E c \in Clients :
          \/ \E S \in SUBSET Ids : DeleteSelect(c, S)
          \/ Delete(c)
          \/ Fail(c)

Spec == Init /\ [][Next]_vars
-----------------------------------------------------------------------------
(* The table and the locals of the handlers hold what their types say. *)
TypeOK ==
    /\ rows \in [Ids -> Row \cup {None}]
    /\ next \in 1..MaxId + 2
    /\ pc \in [Clients -> {"idle", "select revert", "save", "delete"}]
    /\ id \in [Clients -> Ids \cup {0}]
    /\ revertId \in [Clients -> Ids \cup {0}]
    /\ old \in [Clients -> Key \cup {None}]
    /\ new \in [Clients -> Row \cup {None}]
    /\ doomed \in [Clients -> SUBSET Key]
    /\ \A c \in Clients : pc[c] \in {"select revert", "save"} =>
          old[c] # None /\ new[c] # None

(* The condition under which the pairs stay together: the requests that    *)
(* create or update come one after the other (deletes may come any time).  *)
OneWriter == \A c, d \in Writers : c = d

(* CreateAssoc writes the reverse row with the row, which the test reads   *)
(* back ("test revert"), and UpdateAssoc is to "update revert assoc        *)
(* record": every row has a reverse row with the same meta, at every       *)
(* moment.                                                                 *)
PairsSymmetric ==
    \A i \in Ids : Live(i) => \E j \in Ids : rows[j] = Backward(rows[i])

(* The ids of a pair are those it was inserted with: 2n-1 and 2n. *)
Partner(i) == IF i % 2 = 0 THEN i - 1 ELSE i + 1

(* Every id in the table or in a request was given out by an INSERT. *)
IdsGiven ==
    /\ next % 2 = 1
    /\ \A i \in Ids : Live(i) => i < next
    /\ \A c \in Clients : id[c] < next

(* The unique key of the table. *)
UniqueKeys ==
    \A i, j \in Ids : Live(i) /\ Live(j) /\ rows[i].key = rows[j].key => i = j

(* The two rows of a pair keep the two ids it was inserted with. *)
PairsKeepIds ==
    \A i \in Ids : Live(i) => Partner(i) \in Ids /\ rows[Partner(i)] = Backward(rows[i])

(* A request that updates has the id of the row its key names, unless that *)
(* was deleted with its reverse, and, when about to save, the two ids of   *)
(* one pair.                                                               *)
WriterKnows ==
    \A c \in Clients :
        /\ pc[c] \in {"select revert", "save"} =>
              /\ c \in Writers /\ id[c] \in Ids /\ Partner(id[c]) \in Ids
              /\ \/ Has(id[c], old[c])
                 \/ ~Live(id[c]) /\ Free(old[c]) /\ Free(Revert(old[c]))
        /\ pc[c] = "save" => revertId[c] = Partner(id[c])

(* The inductive invariant: an update whose ids went stale after it read   *)
(* them puts both rows of a pair back, or takes over both, never one.      *)
AssocInv == IdsGiven /\ UniqueKeys /\ PairsKeepIds /\ WriterKnows

(* The table is the set of associations that it promises to be.  An update *)
(* replaces its own association and no other, and changes nothing if its   *)
(* new key is another's; with stale ids, when its own was deleted, it puts *)
(* the new one, in the place of the one that has the new key, if any.      *)
Reverse == [r \in Row |-> Backward(r)]
links   == {rows[i] : i \in Ids} \ {None}
asked   == [c \in Clients |-> IF pc[c] \in {"select revert", "save"}
                             THEN {[old |-> old[c], new |-> new[c]]} ELSE {}]

Graph == INSTANCE AssocGraph WITH Links <- Row
ImplementsAssocGraph == Graph!GSpec
=============================================================================
