----------------------------- MODULE GlobalLock -----------------------------
(***************************************************************************)
(* The lease lock of auro-tool (GlobalLockMysqlImpl) over its MySQL table  *)
(* (GlobalLockDao, V1__create_global_lock_table.sql), for one key: every   *)
(* statement of the code filters on the key, so keys do not interact.      *)
(*                                                                         *)
(* obtain is upsert, one REPEATABLE READ transaction of up to two          *)
(* statements and, between them, a reading of the JVM's clock; its steps   *)
(* interleave with those of the other clients.  The snapshot the SELECT    *)
(* returns may be stale by the time it is used, while the INSERT and the   *)
(* UPDATE work on the current row.  retain and release are one statement.  *)
(* The reply to any statement may be lost with its effect in place.        *)
(***************************************************************************)
EXTENDS Integers

CONSTANTS Clients,    \* the processes or threads that contend for the key
          HolderOf,   \* the holder name each of them passes
          Expires,    \* the lease lengths they pass, in milliseconds
          Second,     \* the granularity of a TIMESTAMP, in milliseconds
          MaxTime,    \* bound: the clock stops here
          MaxPause,   \* what Spec assumes of upsert: see Prompt
          None        \* stands for "no row" and for "no lease"

Permanent == -1

Holders == {HolderOf[c] : c \in Clients}
Record  == [holder : Holders, expire : Expires, updatedAt : 0..MaxTime]
Grant   == [expire : Expires, updatedAt : 0..MaxTime]

ASSUME GlobalLockAssumption ==
    /\ Expires \subseteq Nat \cup {Permanent}
    /\ None \notin Expires \cup Record \cup Grant
    /\ Second \in Nat \ {0}
    /\ MaxTime \in Nat
    /\ MaxPause \in Nat
    /\ DOMAIN HolderOf = Clients

VARIABLES now,     \* the clock that the JVMs and the database share
          row,     \* the row of the key in global_lock, or None
          pc,      \* pc[c]: where client c is in upsert
          snap,    \* snap[c]: the record its SELECT returned
          opened,  \* opened[c]: when it did (a history variable)
          cutoff,  \* cutoff[c]: its local variable timestamp
          want,    \* want[c]: the expireMs it passed
          lease    \* lease[c]: the lease its last call told it to have

vars == <<now, row, pc, snap, opened, cutoff, want, lease>>

(* Mutant of Stamp: the time is rounded up to the next second. *)
StampUp(t) == t - (t % Second) + Second

(* A TIMESTAMP column keeps whole seconds. *)
Stamp(t) == t - (t % Second)

Running(g, t) == g.expire = Permanent \/ t <= g.updatedAt + g.expire
Held(c)       == lease[c] # None /\ Running(lease[c], now)
GrantOf(r)    == [expire |-> r.expire, updatedAt |-> r.updatedAt]

(* MySQL moves an ON UPDATE CURRENT_TIMESTAMP column only when some other  *)
(* column of the row changes its value.                                    *)
Rewritten(h, e) ==
    [holder |-> h, expire |-> e,
     updatedAt |-> IF row.holder = h /\ row.expire = e
                   THEN row.updatedAt ELSE Stamp(now)]

Init ==
    /\ now = 0
    /\ row = None
    /\ pc = [c \in Clients |-> "idle"]
    /\ snap = [c \in Clients |-> None]
    /\ opened = [c \in Clients |-> 0]
    /\ cutoff = [c \in Clients |-> 0]
    /\ want = [c \in Clients |-> None]
    /\ lease = [c \in Clients |-> None]

-----------------------------------------------------------------------------
(* A call returns true (with the lease g the row now promises) or false    *)
(* (g = None); its local variables are gone.                               *)
Reply(c, g) ==
    /\ pc' = [pc EXCEPT ![c] = "idle"]
    /\ lease' = [lease EXCEPT ![c] = g]
    /\ snap' = [snap EXCEPT ![c] = None]
    /\ opened' = [opened EXCEPT ![c] = 0]
    /\ cutoff' = [cutoff EXCEPT ![c] = 0]
    /\ want' = [want EXCEPT ![c] = None]
    /\ UNCHANGED now

(* Statement r was committed: its reply arrives, or is lost on the way,    *)
(* which upsert and update report as false.                                *)
Committed(c, r) ==
    /\ row' = r
    /\ \/ Reply(c, GrantOf(r))
       \/ Reply(c, None)

Refused(c) == Reply(c, None) /\ UNCHANGED row

(* obtain: the transaction opens its snapshot. *)
Select(c, e) ==
    /\ pc[c] = "idle"
    /\ pc' = [pc EXCEPT ![c] = "selected"]
    /\ snap' = [snap EXCEPT ![c] = row]
    /\ opened' = [opened EXCEPT ![c] = now]
    /\ want' = [want EXCEPT ![c] = e]
    /\ UNCHANGED <<now, row, cutoff, lease>>

(* Mutant of Insert: a REPLACE, which overwrites the row of another. *)
Overwrite(c) ==
    /\ pc[c] = "selected"
    /\ snap[c] = None
    /\ Committed(c, [holder |-> HolderOf[c], expire |-> want[c], updatedAt |-> Stamp(now)])

(* The snapshot had no row.  Another client may have inserted one since:   *)
(* the unique key then makes the INSERT fail, and upsert returns false.    *)
Insert(c) ==
    /\ pc[c] = "selected"
    /\ snap[c] = None
    /\ \/ row = None /\ Committed(c, [holder |-> HolderOf[c], expire |-> want[c],
                                      updatedAt |-> Stamp(now)])
       \/ row # None /\ Refused(c)

(* The snapshot's lease is running: only its own holder gets the lock. *)
Reenter(c) ==
    /\ pc[c] = "selected"
    /\ snap[c] # None
    /\ Running(snap[c], now)
    /\ Reply(c, IF snap[c].holder = HolderOf[c] THEN GrantOf(snap[c]) ELSE None)
    /\ UNCHANGED row

(* Mutant of Expire: the length of the lease is not subtracted. *)
ExpireNow(c) ==
    /\ pc[c] = "selected"
    /\ snap[c] # None
    /\ ~Running(snap[c], now)
    /\ cutoff' = [cutoff EXCEPT ![c] = now]
    /\ pc' = [pc EXCEPT ![c] = "expired"]
    /\ UNCHANGED <<now, row, snap, opened, want, lease>>

(* It has run out: the cutoff for the UPDATE comes from its own length. *)
Expire(c) ==
    /\ pc[c] = "selected"
    /\ snap[c] # None
    /\ ~Running(snap[c], now)
    /\ cutoff' = [cutoff EXCEPT ![c] = now - snap[c].expire]
    /\ pc' = [pc EXCEPT ![c] = "expired"]
    /\ UNCHANGED <<now, row, snap, opened, want, lease>>

(* Mutant of StillExpired: the UPDATE does not look at updated_at again. *)
StillFinite(c) == row # None /\ row.expire # Permanent

(* The conditional UPDATE, on the row as it is now. *)
StillExpired(c) ==
    row # None /\ row.expire # Permanent /\ row.updatedAt < cutoff[c]

TakeOver(c) ==
    /\ pc[c] = "expired"
    /\ \/ StillExpired(c) /\ Committed(c, Rewritten(HolderOf[c], want[c]))
       \/ ~StillExpired(c) /\ Refused(c)

(* A DataAccessException before anything was written: upsert rolls back.   *)
Abort(c) == pc[c] # "idle" /\ Refused(c)

(* Mutant of Owns: the statement filters on the key only. *)
OwnsAny(c) == row # None

(* WHERE key AND holder, in the statements of retain and release. *)
Owns(c) == row # None /\ row.holder = HolderOf[c]

(* retain: UPDATE ... SET expire_ms = e. *)
Retain(c, e) ==
    /\ pc[c] = "idle"
    /\ \/ Owns(c) /\ Committed(c, Rewritten(row.holder, e))
       \/ ~Owns(c) /\ Refused(c)

(* release: DELETE.  It may also throw without having deleted the row;     *)
(* either way the caller no longer counts on the lock.                     *)
Release(c) ==
    /\ pc[c] = "idle"
    /\ \/ Owns(c) /\ row' = None
       \/ UNCHANGED row
    /\ Reply(c, None)

(* A client stops, its open transaction is rolled back; it may start again.*)
Crash(c) == Refused(c)

Tick ==
    /\ now < MaxTime
    /\ now' = now + 1
    /\ UNCHANGED <<row, pc, snap, opened, cutoff, want, lease>>

(* Nothing in the code bounds the time from the SELECT of an upsert to its *)
(* reading of the clock.  The specification assumes that it is at most     *)
(* MaxPause if the lease that was read is over; with MaxTime for MaxPause  *)
(* it assumes nothing.                                                     *)
Prompt(c) == now - opened[c] <= MaxPause

Next ==
    \/ Tick
    \/ \E c \in Clients :
          \/ \E e \in Expires : Select(c, e) \/ Retain(c, e)
          \/ Insert(c) \/ Reenter(c) \/ (Expire(c) /\ Prompt(c)) \/ TakeOver(c)
          \/ Abort(c) \/ Release(c) \/ Crash(c)

Spec == Init /\ [][Next]_vars
-----------------------------------------------------------------------------
(* The variables keep the values the columns and locals can have. *)
TypeOK ==
    /\ now \in 0..MaxTime
    /\ row \in Record \cup {None}
    /\ pc \in [Clients -> {"idle", "selected", "expired"}]
    /\ snap \in [Clients -> Record \cup {None}]
    /\ opened \in [Clients -> 0..MaxTime]
    /\ cutoff \in [Clients -> Int]
    /\ want \in [Clients -> Expires \cup {None}]
    /\ \A c \in Clients : pc[c] # "idle" => want[c] # None
    /\ lease \in [Clients -> Grant \cup {None}]

(* Two conditions without which the lock excludes nobody.  The callers     *)
(* have names of their own; and a lease that is not as long as every other *)
(* is longer than what an upsert may pause plus what a Stamp may be late:  *)
(* if not, the length that was read may be that of a lease before last.    *)
(* (Leases of one length only, whatever it is, satisfy the second with any *)
(* pause.)                                                                 *)
Finite          == Expires \ {Permanent}
DistinctHolders == \A c, d \in Clients : HolderOf[c] = HolderOf[d] => c = d
LeasesOutlast   == \A e, f \in Finite : e = f \/ e >= MaxPause + Second - 1

(* AbstractGlobalLockTest, globalLockShouldWorkBetweenThread: of the       *)
(* clients that contend for the key at most one has it.  Two clients never *)
(* both hold a lease that is running.                                      *)
MutualExclusion == \A c, d \in Clients : Held(c) /\ Held(d) => c = d

(* As long as its lease runs, the row of a client that was told true is    *)
(* the very row in the table: nobody can have deleted it or shortened it.  *)
LeaseIsRow ==
    \A c \in Clients :
        Held(c) => /\ row # None
                   /\ row.holder = HolderOf[c]
                   /\ GrantOf(row) = lease[c]

(* A snapshot in which the client found itself to be the holder, and its   *)
(* lease running, still is the row when upsert decides on it.              *)
SnapIsRow ==
    \A c \in Clients :
        (/\ pc[c] = "selected"
         /\ snap[c] # None
         /\ snap[c].holder = HolderOf[c]
         /\ Running(snap[c], now)) => row = snap[c]

(* The row is the one that the snapshot has, or was written since.        *)
RowIsNewer ==
    \A c \in Clients : pc[c] # "idle" =>
        /\ opened[c] <= now
        /\ row \in {None, snap[c]} \/ row.updatedAt > opened[c] - Second

(* The cutoff of a pending UPDATE spares a lease that is running, if its   *)
(* length is that of the snapshot, and if not, one that began since.       *)
CutoffSpares ==
    \A c \in Clients : pc[c] = "expired" =>
        /\ snap[c] # None
        /\ snap[c].expire # Permanent
        /\ cutoff[c] <= now - snap[c].expire
        /\ cutoff[c] <= opened[c] + MaxPause - snap[c].expire

(* The inductive invariant: what a client relies on at each of its steps   *)
(* is true of the row, although it was read at an earlier one.             *)
LockInv == LeaseIsRow /\ SnapIsRow /\ RowIsNewer /\ CutoffSpares

(* The row passes from one holder to another only once its lease has run   *)
(* out, also when the client it was written for never saw the reply.       *)
OnlyExpiredRowsChangeHands ==
    [][row # None /\ row' # None /\ row'.holder # row.holder
          => ~Running(row, now)]_vars

(* The lock does what a lease lock promises. *)
Abstract == INSTANCE LeaseLock
ImplementsLeaseLock == Abstract!LSpec

(* GlobalLock.retain is the renewal of a lease: when it returns true, the  *)
(* lease starts again at the time of the call (up to the granularity).     *)
RetainRenews ==
    [][\A c \in Clients, e \in Expires :
          Retain(c, e) /\ e # Permanent /\ lease'[c] # None
             => lease'[c].updatedAt = Stamp(now)]_vars
=============================================================================
