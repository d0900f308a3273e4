----------------------------- MODULE LeaseLock -----------------------------
(***************************************************************************)
(* What a lock with leases promises to its clients, without a database:    *)
(* a client is granted the lock only while no other client holds a lease   *)
(* that is still running, keeps it until the lease runs out, and may give  *)
(* it up at any time.  A lease is a record with its start (updatedAt) and  *)
(* its length (expire, where Permanent never runs out).                    *)
(***************************************************************************)
EXTENDS Integers

CONSTANTS Clients,   \* the processes or threads that contend for one key
          Expires,   \* the lease lengths they may ask for
          None       \* stands for "no lease"

VARIABLES now,       \* the clock
          lease      \* lease[c]: the lease client c was last told it has

Permanent == -1

Grant == [expire : Expires, updatedAt : Int]

Running(g, t) == g.expire = Permanent \/ t <= g.updatedAt + g.expire

Held(c) == lease[c] # None /\ Running(lease[c], now)

LInit == now = 0 /\ lease = [c \in Clients |-> None]

(* c is granted a lease, or has its own renewed: nobody else may hold one. *)
Acquire(c) ==
    /\ \A d \in Clients \ {c} : ~Held(d)
    /\ lease'[c] \in Grant
    /\ lease' = [lease EXCEPT ![c] = lease'[c]]
    /\ UNCHANGED now

(* c gives the lock up, is told it lost it, or stops. *)
Drop(c) ==
    /\ lease' = [lease EXCEPT ![c] = None]
    /\ UNCHANGED now

Advance == now' = now + 1 /\ UNCHANGED lease

LNext == Advance \/ \E c \in Clients : Acquire(c) \/ Drop(c)

LSpec == LInit /\ [][LNext]_<<now, lease>>

(* No two clients hold leases that are both running. *)
AtMostOneHeld == \A c, d \in Clients : Held(c) /\ Held(d) => c = d
=============================================================================
