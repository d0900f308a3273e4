------------------------------ MODULE MCAssoc ------------------------------
(* Model checking of Assoc: two objects, two types, reverse to each other. *)
EXTENDS Assoc, TLC

CONSTANTS c1, c2, o1, o2, m1, m2

MCClients  == {c1, c2}
MCWriters  == {c1}
MCObjects  == {o1, o2}
MCTypes    == {3, 4}
MCMetas    == {m1, m2}
MCOneMeta  == {m1}
MCSymmetry == Permutations(MCObjects) \cup Permutations(MCMetas)
=============================================================================
