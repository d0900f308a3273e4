----------------------------- MODULE AssocGraph -----------------------------
(***************************************************************************)
(* What the association store promises, without rows and ids: a set of     *)
(* associations, each a link and its reverse with the same contents, that  *)
(* a request creates, replaces or removes as a whole and at one moment.  A *)
(* key has one link at most, and a request that replaces an association    *)
(* leaves those of other keys alone.                                       *)
(***************************************************************************)
CONSTANTS Clients,   \* the requests that may run at the same time
          Links,     \* the links there may be: records with a key
          Reverse    \* Reverse[l]: the link that goes the other way

VARIABLES links,     \* the links there are
          asked      \* asked[c]: the replacement that c is to make, if any

Taken(k)  == \E l \in links : l.key = k
Others(K) == {l \in links : l.key \notin K /\ Reverse[l].key \notin K}

GInit == links = {} /\ asked = [c \in Clients |-> {}]

(* A new association, of which neither direction is there. *)
Create(r) ==
    /\ UNCHANGED asked
    /\ ~Taken(r.key) /\ ~Taken(Reverse[r].key)
    /\ links' = links \cup {r, Reverse[r]}

(* c is to replace an association that there is, ... *)
Ask(c) ==
    /\ UNCHANGED links
    /\ asked[c] = {}
    /\ \E l \in links, r \in Links :
          asked' = [asked EXCEPT ![c] = {[old |-> l.key, new |-> r]}]

(* ... does: its contents change, or its key, to one that nobody has (if   *)
(* it was removed meanwhile, the new one is put all the same, even in the  *)
(* place of one that has its key), ...                                     *)
Replace(c) ==
    /\ asked' = [asked EXCEPT ![c] = {}]
    /\ \E a \in asked[c] :
          /\ Taken(a.old) => a.new.key = a.old \/ ~Taken(a.new.key)
          /\ links' = Others({a.old, a.new.key}) \cup {a.new, Reverse[a.new]}

(* ... or does not, because the new key is taken or it fails. *)
Refuse(c) == asked' = [asked EXCEPT ![c] = {}] /\ UNCHANGED links

(* The associations of some links go. *)
Remove(S) ==
    /\ UNCHANGED asked
    /\ links' = links \ (S \cup {Reverse[l] : l \in S})

GNext ==
    \/ \E c \in Clients : Ask(c) \/ Refuse(c) \/ Replace(c)
    \/ \E S \in SUBSET links : Remove(S)
    \/ \E r \in Links : Create(r)

GSpec == GInit /\ [][GNext]_<<links, asked>>

(* A key has one link, and every link its reverse. *)
WholeAssociations ==
    \A l \in links : /\ Reverse[l] \in links
                     /\ \A m \in links : m.key = l.key => m = l
=============================================================================
