----------------------------- MODULE MCParallel -----------------------------
EXTENDS ParallelProcessor

(* The first and the last item have the same key. *)
MCKey == [i \in 1..5 |-> IF i = 5 THEN 1 ELSE i]
=============================================================================
