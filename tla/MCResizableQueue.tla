-------------------------- MODULE MCResizableQueue --------------------------
(* Model checking of ResizableQueue. *)
EXTENDS ResizableQueue

CONSTANTS t1, t2, t3

MCThreads  == {t1, t2, t3}
MCDesired  == 0..4
=============================================================================
