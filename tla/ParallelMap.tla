---------------------------- MODULE ParallelMap ----------------------------
(***************************************************************************)
(* What ParallelProcessor promises ("a simple tool to run map reduce       *)
(* job"): every item of the input is mapped or fails, and then, once, the  *)
(* future is completed with what was mapped: a list in the order of the    *)
(* input ("keeps results' order as same as the input"), or a map with all  *)
(* of the keys, or nothing.  No threads, no partitions.                    *)
(***************************************************************************)
EXTENDS Integers, Sequences

CONSTANT Key         \* Key[i]: the key that item i is mapped to
VARIABLES method,    \* "list", "map" or "void"
          fate,      \* fate[i]: "pending", "mapped" or "failed"
          future     \* <<>>, and <<value>> once it is completed

Mapped == {i \in DOMAIN fate : fate[i] = "mapped"}

(* The items are numbered in the order of the input. *)
InOrder(value) ==
    /\ value \in Seq(Mapped)
    /\ \A i \in Mapped : \E n \in DOMAIN value : value[n] = i
    /\ \A m, n \in DOMAIN value : m < n => value[m] < value[n]

(* If several items have a key, the map may have any of them. *)
Promised(value) ==
    CASE method = "list" -> InOrder(value)
      [] method = "map"  -> /\ DOMAIN value = {Key[i] : i \in Mapped}
                            /\ \A k \in DOMAIN value : value[k] \in {i \in Mapped : Key[i] = k}
      [] method = "void" -> value = "void"

PMInit ==
    /\ method \in {"list", "map", "void"}
    /\ \A i \in DOMAIN fate : fate[i] = "pending"
    /\ \/ fate # <<>> /\ future = <<>>
       \/ fate = <<>> /\ Len(future) = 1 /\ Promised(future[1])

(* Some items are decided, all of them mapped or all failed. *)
Decide ==
    /\ fate' # fate
    /\ DOMAIN fate' = DOMAIN fate
    /\ \A i \in DOMAIN fate : fate'[i] # fate[i] => fate[i] = "pending"
    /\ \E f \in {"mapped", "failed"} :
          \A i \in DOMAIN fate : fate'[i] # fate[i] => fate'[i] = f
    /\ UNCHANGED <<method, future>>

Complete ==
    /\ \A i \in DOMAIN fate : fate[i] # "pending"
    /\ future = <<>>
    /\ Len(future') = 1 /\ Promised(future'[1])
    /\ UNCHANGED <<method, fate>>

PMSpec == PMInit /\ [][Decide \/ Complete]_<<method, fate, future>>
=============================================================================
