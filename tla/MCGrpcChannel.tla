--------------------------- MODULE MCGrpcChannel ---------------------------
(* Model checking of GrpcChannel: two settings of each kind, two services. *)
EXTENDS GrpcChannel

CONSTANTS t1, t2, t3, a, b, s1, s2, empty

MCThreads     == {t1, t2, t3}
MCTargets     == {a, b}
MCLengths     == {10, 20}
MCStubClasses == {s1, s2}
=============================================================================
