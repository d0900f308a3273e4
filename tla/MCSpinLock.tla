----------------------------- MODULE MCSpinLock -----------------------------
(* Model checking of SpinLock: two threads. *)
EXTENDS SpinLock

CONSTANTS t1, t2

MCClients == {t1, t2}
=============================================================================
