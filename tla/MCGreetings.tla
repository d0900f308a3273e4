----------------------------- MODULE MCGreetings -----------------------------
(* Model checking of Greetings. *)
EXTENDS Greetings

MCIds == 1..MaxId

MCPlain == [NoRequest EXCEPT !.order_by = "create_at"]
MCWindow == [NoRequest EXCEPT !.order_by = "create_at", !.column_name = "create_at",
                              !.high_time = 2, !.low_time = 0]

(* All greetings, by pages from zero or one, of the default size or one,   *)
(* ordered by either time; windows on both columns; chosen ids.            *)
MCRequests ==
    {[MCPlain EXCEPT !.page = p, !.size = s] : p \in {0, 1}, s \in {0, 1}}
    \cup {[MCPlain EXCEPT !.order_by = "update_at", !.size = 1]}
    \cup {MCWindow, [MCWindow EXCEPT !.column_name = "update_at", !.size = 1]}
    \cup {[MCPlain EXCEPT !.include_ids = {1, 2}, !.order_by = ""]}
=============================================================================
