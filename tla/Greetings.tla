------------------------------ MODULE Greetings ------------------------------
(***************************************************************************)
(* The greetings of the echo service (domain/greeting.go) and a client     *)
(* that lists them page by page: it sends a request, then the next_request *)
(* of each response, until a page is not full.  Between two pages greetings*)
(* are created, updated and deleted.  No handler opens a transaction.      *)
(*                                                                         *)
(* The SELECT with which UpdateGreeting ends and GetGreeting are reads and *)
(* change nothing; the contents of a greeting are left out.                *)
(***************************************************************************)
EXTENDS Paging

CONSTANTS MaxId,     \* bound: the AUTO_INCREMENT counter stops here
          MaxTime,   \* bound: the clock stops here
          Requests   \* the requests a client may begin with

ASSUME GreetingsAssumption ==
    /\ MaxId \in Nat
    /\ MaxTime \in Nat
    /\ Ids = 1..MaxId

Row == [create_at : 0..MaxTime, update_at : 0..MaxTime]

ASSUME NoneAssumption == None \notin Row

Request == [page : Nat, size : Nat, order_by : Columns \cup {""},
            column_name : Columns \cup {""},
            high_time : Int \cup {None}, low_time : Int \cup {None},
            exclude_ids : SUBSET Ids, include_ids : SUBSET Ids]

VARIABLES now,        \* the clock, in seconds
          rows,       \* rows[i]: the greeting with id i, or None
          next,       \* the AUTO_INCREMENT counter
          doomed,     \* the ids that a delete has selected
          listing,    \* "not begun", "open" or "over"
          request,    \* the request the client sends next
          plain,      \* its first request had no filter and ordered by a time
          owed,       \* if plain: the greetings there were when it began, less
                      \* those updated since if it ordered by update_at
          seen,       \* if plain: those it has been sent
          disturbed   \* a greeting was deleted since, a SELECT failed, or a
                      \* page was sent while two greetings had the same time

vars == <<now, rows, next, doomed, listing, request, plain, owed, seen, disturbed>>
client == <<listing, request, plain, owed, seen>>

Live == {i \in Ids : rows[i] # None}
NoRequest == [page |-> 0, size |-> 0, order_by |-> "", column_name |-> "",
              high_time |-> None, low_time |-> None, exclude_ids |-> {}, include_ids |-> {}]

Init ==
    /\ now = 0
    /\ rows = [i \in Ids |-> None]
    /\ next = 1
    /\ doomed = {}
    /\ listing = "not begun"
    /\ request = NoRequest
    /\ plain = FALSE
    /\ owed = {}
    /\ seen = {}
    /\ disturbed = FALSE
-----------------------------------------------------------------------------
Stored(i) == rows' = [rows EXCEPT ![i] = [create_at |-> now, update_at |-> now]]

(* CreateGreeting: an INSERT. *)
CreateGreeting ==
    /\ next \in Ids
    /\ Stored(next)
    /\ next' = next + 1
    /\ UNCHANGED <<now, doomed, disturbed, client>>

(* UpdateGreeting: INSERT ... ON DUPLICATE KEY UPDATE under the id of the  *)
(* request.  A greeting that is not there (any more) is inserted, one with *)
(* the id zero under the next id.                                          *)
UpdateGreeting(i) ==
    /\ IF i \in Live
       THEN rows' = [rows EXCEPT ![i].update_at = now] /\ UNCHANGED next
       ELSE LET id == IF i = 0 THEN next ELSE i
            IN  /\ id \in Ids
                /\ Stored(id)
                /\ next' = IF id >= next THEN id + 1 ELSE next
    /\ owed' = IF listing = "open" /\ request.order_by = "update_at"
               THEN owed \ {i} ELSE owed
    /\ UNCHANGED <<now, doomed, disturbed, listing, request, plain, seen>>

(* DeleteGreeting and DeleteGreetings: the greetings of the id or of the   *)
(* filter (which may name any) are selected, ...                           *)
DeleteSelect(S) ==
    /\ doomed = {}
    /\ S # {}
    /\ doomed' = S
    /\ UNCHANGED <<now, rows, next, disturbed, client>>

(* ... and deleted by their ids. *)
Delete ==
    /\ doomed # {}
    /\ rows' = [i \in Ids |-> IF i \in doomed THEN None ELSE rows[i]]
    /\ doomed' = {}
    /\ disturbed' = (disturbed \/ (listing # "not begun" /\ doomed \cap Live # {}))
    /\ UNCHANGED <<now, next, client>>

(* The client sends its first request. *)
Begin(r) ==
    /\ listing = "not begun"
    /\ listing' = "open"
    /\ request' = r
    /\ plain' = (r.column_name = "" /\ r.include_ids = {} /\ r.exclude_ids = {}
                 /\ r.page <= 1 /\ r.order_by \in Columns)
    /\ owed' = IF plain' THEN Live ELSE {}
    /\ UNCHANGED <<now, rows, next, doomed, seen, disturbed>>

(* ListGreetings: page P is sent, with the next request. *)
Sent(r, P) ==
    /\ listing = "open"
    /\ r.page <= MaxId + 1    \* bound
    /\ seen' = IF plain THEN seen \cup P ELSE {}
    /\ request' = NextCommonFilter(rows, NextCommonOption(r), P)
    /\ listing' = IF Cardinality(P) < r.size THEN "over" ELSE "open"
    /\ UNCHANGED <<now, rows, next, doomed, plain, owed>>

Tied(column) ==
    column # "" /\ \E i, j \in Live : i # j /\ rows[i][column] = rows[j][column]

ListGreetings(r) ==
    /\ \E P \in Pages(rows, r) : Sent(r, P)
    /\ disturbed' = (disturbed \/ Tied(r.order_by))

(* The error of its SELECT is dropped: the page is empty. *)
ListFails(r) == Sent(r, {}) /\ disturbed' = TRUE

Tick ==
    /\ now < MaxTime
    /\ now' = now + 1
    /\ UNCHANGED <<rows, next, doomed, disturbed, client>>

Next ==
    \/ Tick
    \/ CreateGreeting
    \/ \E i \in Ids \cup {0} : UpdateGreeting(i)
    \/ \E S \in SUBSET Live : DeleteSelect(S)
    \/ Delete
    \/ \E r \in Requests : Begin(r)
    \/ ListGreetings(Normalized(request))
    \/ ListFails(Normalized(request))

Spec == Init /\ [][Next]_vars
-----------------------------------------------------------------------------
(* The table, and the requests the service hands back, are well-formed. *)
TypeOK ==
    /\ now \in 0..MaxTime
    /\ rows \in [Ids -> Row \cup {None}]
    /\ next \in 1..MaxId + 1
    /\ doomed \in SUBSET Ids
    /\ listing \in {"not begun", "open", "over"}
    /\ request \in Request
    /\ plain \in BOOLEAN
    /\ owed \in SUBSET Ids
    /\ seen \in SUBSET Ids
    /\ disturbed \in BOOLEAN

(* A client that pages through all greetings, the latest first, gets every *)
(* one there was when it began, although others are created, and updated,  *)
(* in between: they move what it has yet to see to later pages only.  What *)
(* it may miss, if it orders by update_at, was itself updated meanwhile.   *)
(* (Not if greetings are deleted, or have the same second.)                *)
NothingSkipped == listing = "over" /\ plain /\ ~disturbed => owed \subseteq seen

(* A client that pages through a window of time moves back: from a window  *)
(* with both ends the next one never reaches forward of it.                *)
WindowMovesBack ==
    [][(/\ listing = "open"
        /\ request.column_name # ""
        /\ request.high_time # None
        /\ request.low_time # None)
          => request'.high_time # None /\ request'.high_time <= request.high_time]_vars

(* types.proto, of exclude_ids: "next filter will reset high_time with the *)
(* lower time in current respone" (so that these ids are sent only once).  *)
NextWindowEndsAtLowest ==
    [][\A P \in Pages(rows, Normalized(request)) :
          /\ P # {}
          /\ request.column_name \in Columns
          /\ Sent(Normalized(request), P)
          => request'.high_time = Lowest(Times(rows, request, P))]_vars
=============================================================================
