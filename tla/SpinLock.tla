------------------------------ MODULE SpinLock ------------------------------
(***************************************************************************)
(* GlobalSpinLockRedisImpl: a lock of threads built on GlobalLock.  Every  *)
(* thread obtains the key under one and the same holder name, the simple   *)
(* name of the class, for one minute, and tries again until it is told     *)
(* true; spinUnlock releases the key under that name.                      *)
(***************************************************************************)
EXTENDS Integers

CONSTANTS Clients,     \* the threads
          SimpleName,  \* getClass().getSimpleName(), the holder they all pass
          Minute,      \* the length of the lease, in milliseconds
          Second,      \* the granularity of a TIMESTAMP, in milliseconds
          MaxTime,     \* bound: the clock stops here
          None         \* stands for "no row" and for "no lease"

VARIABLES now, row, pc, snap, opened, cutoff, want, lease,   \* of GlobalLock
          stage       \* stage[c]: "outside", "spinning" or "inside"

INSTANCE GlobalLock WITH HolderOf <- [c \in Clients |-> SimpleName],
                         Expires <- {Minute},
                         MaxPause <- MaxTime

spinVars == <<now, row, pc, snap, opened, cutoff, want, lease, stage>>

SpinInit == Init /\ stage = [c \in Clients |-> "outside"]

MoveTo(c, s) == stage' = [stage EXCEPT ![c] = s]

(* A thread calls spinLock ... *)
SpinLock(c) ==
    /\ stage[c] = "outside"
    /\ MoveTo(c, "spinning")
    /\ UNCHANGED <<now, row, pc, snap, opened, cutoff, want, lease>>

(* ... which calls obtain, over and over (the 100 ms it sleeps in between, *)
(* and an interrupt of that sleep, only delay the next call) ...           *)
Attempt(c) == stage[c] = "spinning" /\ Select(c, Minute) /\ UNCHANGED stage

Pending(c) == stage[c] = "spinning" /\ Expire(c) /\ UNCHANGED stage

(* ... and returns when obtain returned true. *)
Attempted(c) ==
    /\ stage[c] = "spinning"
    /\ Insert(c) \/ Reenter(c) \/ TakeOver(c) \/ Abort(c)
    /\ IF lease'[c] # None THEN MoveTo(c, "inside") ELSE UNCHANGED stage

SpinUnlock(c) ==
    /\ stage[c] = "inside"
    /\ Release(c)
    /\ MoveTo(c, "outside")

SpinTick == Tick /\ UNCHANGED stage

SpinNext ==
    \/ SpinTick
    \/ \E c \in Clients : \/ SpinLock(c) \/ Attempt(c) \/ Pending(c)
                          \/ Attempted(c) \/ SpinUnlock(c)

SpinSpec == SpinInit /\ [][SpinNext]_spinVars
-----------------------------------------------------------------------------
(* GlobalSpinLockTest.spinLockShouldWorkBetweenThread: the threads pass    *)
(* the critical section one after the other (the times at which they       *)
(* obtain the lock all differ).  While the lease of a thread inside runs,  *)
(* no other thread is inside.                                              *)
SpinLockExcludes ==
    \A c, d \in Clients :
        stage[c] = "inside" /\ stage[d] = "inside" /\ Held(c) => c = d
=============================================================================
