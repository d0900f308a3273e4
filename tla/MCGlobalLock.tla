---------------------------- MODULE MCGlobalLock ----------------------------
(* Model checking of GlobalLock: every client passes its own name as holder. *)
EXTENDS GlobalLock, TLC

CONSTANTS c1, c2, c3

MCClients  == {c1, c2, c3}
MCHolderOf == [c \in MCClients |-> c]
MCExpires  == {2, Permanent}
MCExpires2 == {2, 3, Permanent}
MCExpires3 == {1, 4}
MCSymmetry == Permutations(MCClients)
=============================================================================
