-------------------------- MODULE GlobalLockProofs --------------------------
(* Theorems about GlobalLock, for any number of clients, any granularity   *)
(* and any length of lease.                                                *)
EXTENDS GlobalLock, TLAPS

LEMMA ExpiresAreInt == Expires \subseteq Int
  <1>1. Nat \cup {Permanent} \subseteq Int
    BY DEF Permanent
  <1>2. QED
    BY <1>1, GlobalLockAssumption

(* Rounding down stays between 0 and the time itself, less than a second   *)
(* before it.                                                              *)
LEMMA StampBounds ==
    ASSUME NEW t \in 0..MaxTime
    PROVE  Stamp(t) \in 0..MaxTime /\ Stamp(t) > t - Second
  BY GlobalLockAssumption DEF Stamp

LEMMA TimesAreInt ==
    ASSUME TypeOK, NEW c \in Clients
    PROVE  /\ now \in Int /\ opened[c] \in Int /\ cutoff[c] \in Int
           /\ MaxPause \in Int /\ Second \in Int
           /\ snap[c] # None => snap[c].expire \in Int /\ snap[c].updatedAt \in Int
  <1>1. /\ now \in 0..MaxTime /\ opened[c] \in 0..MaxTime /\ cutoff[c] \in Int
        /\ MaxPause \in Nat /\ Second \in Nat
    BY GlobalLockAssumption DEF TypeOK
  <1>2. snap[c] # None => snap[c].expire \in Expires /\ snap[c].updatedAt \in 0..MaxTime
    BY DEF TypeOK, Record
  <1>3. snap[c] # None => snap[c].updatedAt \in Int
    BY <1>2
  <1>4. snap[c] # None => snap[c].expire \in Int
    BY <1>2, ExpiresAreInt, Zenon
  <1>5. QED
    BY <1>1, <1>3, <1>4

(* What a statement that commits, or is refused, does to the types. *)
LEMMA ReplyType ==
    ASSUME TypeOK, NEW c \in Clients, NEW g \in Grant \cup {None}, Reply(c, g)
    PROVE  /\ now' \in 0..MaxTime
           /\ pc' \in [Clients -> {"idle", "selected", "expired"}]
           /\ snap' \in [Clients -> Record \cup {None}]
           /\ opened' \in [Clients -> 0..MaxTime]
           /\ cutoff' \in [Clients -> Int]
           /\ want' \in [Clients -> Expires \cup {None}]
           /\ \A d \in Clients : pc'[d] # "idle" => want'[d] # None
           /\ lease' \in [Clients -> Grant \cup {None}]
  BY GlobalLockAssumption DEF TypeOK, Reply

LEMMA RewrittenType ==
    ASSUME TypeOK, row # None, NEW h \in Holders, NEW e \in Expires
    PROVE  Rewritten(h, e) \in Record
  <1>1. Stamp(now) \in 0..MaxTime
    BY StampBounds DEF TypeOK
  <1>2. QED
    BY <1>1 DEF TypeOK, Rewritten, Record

(* A rewritten row is the same row, or has the time of the statement. *)
LEMMA RewrittenNewer ==
    ASSUME TypeOK, row # None, NEW h \in Holders, NEW e \in Expires
    PROVE  Rewritten(h, e) = row \/ Rewritten(h, e).updatedAt > now - Second
  <1>1. CASE row.holder = h /\ row.expire = e
    BY <1>1 DEF TypeOK, Rewritten, Record
  <1>2. CASE ~(row.holder = h /\ row.expire = e)
    BY <1>2, StampBounds DEF TypeOK, Rewritten
  <1>3. QED
    BY <1>1, <1>2

LEMMA CommittedType ==
    ASSUME TypeOK, NEW c \in Clients, NEW r \in Record, Committed(c, r)
    PROVE  TypeOK'
  <1>1. GrantOf(r) \in Grant
    BY DEF GrantOf, Grant, Record
  <1>2. CASE Reply(c, GrantOf(r))
    BY <1>1, <1>2, ReplyType DEF TypeOK, Committed
  <1>3. CASE Reply(c, None)
    BY <1>3, ReplyType DEF TypeOK, Committed
  <1>4. QED
    BY <1>2, <1>3 DEF Committed

LEMMA RefusedType ==
    ASSUME TypeOK, NEW c \in Clients, Refused(c) PROVE TypeOK'
  BY ReplyType DEF TypeOK, Refused

(* The table, the locals and the leases always have the values their       *)
(* columns and types allow: no step of upsert, retain or release and no    *)
(* failure leaves a malformed row or a lease that is no row's.             *)
THEOREM TypeCorrect == Spec => []TypeOK
  <1>1. Init => TypeOK
    BY GlobalLockAssumption DEF Init, TypeOK
  <1>2. TypeOK /\ [Next]_vars => TypeOK'
    <2> SUFFICES ASSUME TypeOK, [Next]_vars PROVE TypeOK'
      OBVIOUS
    <2>1. CASE UNCHANGED vars
      BY <2>1 DEF TypeOK, vars
    <2>2. CASE Tick
      BY <2>2, GlobalLockAssumption DEF TypeOK, Tick
    <2>3. ASSUME NEW c \in Clients, NEW e \in Expires, Select(c, e)
          PROVE  TypeOK'
      <3>1. row \in Record \cup {None} /\ e # None
        BY GlobalLockAssumption DEF TypeOK
      <3>2. QED
        BY <2>3, <3>1 DEF TypeOK, Select
    <2>4. ASSUME NEW c \in Clients, Insert(c) PROVE TypeOK'
      <3>1. CASE row = None /\ Committed(c, [holder |-> HolderOf[c], expire |-> want[c],
                                             updatedAt |-> Stamp(now)])
        <4>1. [holder |-> HolderOf[c], expire |-> want[c],
               updatedAt |-> Stamp(now)] \in Record
          BY <2>4, StampBounds DEF TypeOK, Record, Holders, Insert
        <4>2. QED
          BY <3>1, <4>1, CommittedType
      <3>2. QED
        BY <2>4, <3>1, RefusedType DEF Insert
    <2>5. ASSUME NEW c \in Clients, Reenter(c) PROVE TypeOK'
      <3>1. snap[c] \in Record /\ GrantOf(snap[c]) \in Grant
        BY <2>5 DEF TypeOK, Reenter, GrantOf, Grant, Record
      <3>2. QED
        BY <2>5, <3>1, ReplyType DEF TypeOK, Reenter
    <2>6. ASSUME NEW c \in Clients, Expire(c) PROVE TypeOK'
      <3>1. snap[c] \in Record
        BY <2>6 DEF TypeOK, Expire
      <3>2. snap[c].expire \in Int
        BY <3>1, ExpiresAreInt DEF Record
      <3>3. now - snap[c].expire \in Int
        BY <3>2, GlobalLockAssumption DEF TypeOK
      <3>4. QED
        BY <2>6, <3>3 DEF TypeOK, Expire
    <2>7. ASSUME NEW c \in Clients, TakeOver(c) PROVE TypeOK'
      <3>1. CASE StillExpired(c) /\ Committed(c, Rewritten(HolderOf[c], want[c]))
        <4>1. Rewritten(HolderOf[c], want[c]) \in Record
          BY <2>7, <3>1, RewrittenType DEF TypeOK, TakeOver, StillExpired, Holders
        <4>2. QED
          BY <3>1, <4>1, CommittedType
      <3>2. QED
        BY <2>7, <3>1, RefusedType DEF TakeOver
    <2>8. ASSUME NEW c \in Clients, Abort(c) \/ Crash(c) PROVE TypeOK'
      BY <2>8, RefusedType DEF Abort, Crash
    <2>9. ASSUME NEW c \in Clients, NEW e \in Expires, Retain(c, e) PROVE TypeOK'
      <3>1. CASE Owns(c) /\ Committed(c, Rewritten(row.holder, e))
        <4>1. Rewritten(row.holder, e) \in Record
          BY <3>1, RewrittenType DEF Owns, TypeOK, Record
        <4>2. QED
          BY <3>1, <4>1, CommittedType
      <3>2. QED
        BY <2>9, <3>1, RefusedType DEF Retain
    <2>10. ASSUME NEW c \in Clients, Release(c) PROVE TypeOK'
      BY <2>10, ReplyType DEF TypeOK, Release
    <2>11. QED
      BY <2>1, <2>2, <2>3, <2>4, <2>5, <2>6, <2>7, <2>8, <2>9, <2>10 DEF Next
  <1>3. QED
    BY <1>1, <1>2, PTL DEF Spec

-----------------------------------------------------------------------------
(* When the row's lease runs out, nobody holds the lock, and no client has *)
(* a snapshot that still names it the holder of a running lease.           *)
LEMMA NobodyHolds ==
    ASSUME TypeOK, LockInv, row = None \/ ~Running(row, now)
    PROVE  /\ \A d \in Clients : ~Held(d)
           /\ \A d \in Clients : ~(/\ pc[d] = "selected"
                                   /\ snap[d] # None
                                   /\ snap[d].holder = HolderOf[d]
                                   /\ Running(snap[d], now))
  <1>1. ASSUME NEW d \in Clients, Held(d) PROVE FALSE
    <2>1. row # None /\ row.expire = lease[d].expire /\ row.updatedAt = lease[d].updatedAt
      BY <1>1 DEF LockInv, LeaseIsRow, GrantOf
    <2>2. QED
      BY <1>1, <2>1 DEF Held, Running
  <1>2. ASSUME NEW d \in Clients, pc[d] = "selected", snap[d] # None,
               snap[d].holder = HolderOf[d], Running(snap[d], now)
        PROVE  FALSE
    BY <1>2 DEF LockInv, SnapIsRow
  <1>3. QED
    BY <1>1, <1>2

(* A client's lease that ran before a step, unless the step is its own,    *)
(* is as long after it.                                                    *)
LEMMA ReplyHeld ==
    ASSUME TypeOK, NEW c \in Clients, NEW g \in Grant \cup {None}, Reply(c, g)
    PROVE  /\ \A d \in Clients \ {c} : Held(d)' => Held(d)
           /\ Held(c)' => g # None /\ Running(g, now) /\ lease'[c] = g
           /\ pc'[c] = "idle"
           /\ \A d \in Clients \ {c} : /\ pc'[d] = pc[d]
                                        /\ snap'[d] = snap[d]
                                        /\ opened'[d] = opened[d]
                                        /\ cutoff'[d] = cutoff[d]
                                        /\ lease'[d] = lease[d]
           /\ now' = now
  BY DEF Reply, TypeOK, Held, Running

(* The step of client c replaces or removes a row that nobody holds, or    *)
(* that is c's own, and what it writes is of this second.                  *)
LEMMA OwnStep ==
    ASSUME TypeOK, LockInv, DistinctHolders,
           NEW c \in Clients, NEW g \in Grant \cup {None}, Reply(c, g),
           \/ row = None \/ ~Running(row, now) \/ row.holder = HolderOf[c]
           \/ row' = row,
           row' \in Record \cup {None},
           row' \in {None, row} \/ row'.updatedAt > now - Second,
           g # None /\ Running(g, now) =>
              row' # None /\ row'.holder = HolderOf[c] /\ GrantOf(row') = g
    PROVE  LockInv'
  <1>1. ASSUME NEW d \in Clients \ {c}, Held(d)
        PROVE  row' = row
    <2>1. row # None /\ row.holder = HolderOf[d]
      BY <1>1 DEF LockInv, LeaseIsRow
    <2>2. row.holder # HolderOf[c]
      BY <2>1 DEF DistinctHolders
    <2>3. QED
      BY <1>1, <2>1, <2>2, NobodyHolds
  <1>2. ASSUME NEW d \in Clients \ {c}, pc[d] = "selected", snap[d] # None,
               snap[d].holder = HolderOf[d], Running(snap[d], now)
        PROVE  row' = row
    <2>1. row = snap[d]
      BY <1>2 DEF LockInv, SnapIsRow
    <2>2. row.holder # HolderOf[c]
      BY <1>2, <2>1 DEF DistinctHolders
    <2>3. QED
      BY <1>2, <2>1, <2>2
  <1>3. LeaseIsRow'
    <2> SUFFICES ASSUME NEW d \in Clients, Held(d)'
                 PROVE  /\ row' # None
                        /\ row'.holder = HolderOf[d]
                        /\ GrantOf(row') = lease'[d]
      BY DEF LeaseIsRow, GrantOf
    <2>1. CASE d = c
      BY <2>1, ReplyHeld
    <2>2. CASE d # c
      <3>1. Held(d) /\ lease'[d] = lease[d]
        BY <2>2, ReplyHeld
      <3>2. QED
        BY <1>1, <2>2, <3>1 DEF LockInv, LeaseIsRow, GrantOf
    <2>3. QED
      BY <2>1, <2>2
  <1>4. SnapIsRow'
    BY <1>2, ReplyHeld DEF LockInv, SnapIsRow, Running
  <1>5. RowIsNewer'
    <2> SUFFICES ASSUME NEW d \in Clients \ {c}, pc[d] # "idle"
                 PROVE  /\ opened[d] <= now
                        /\ \/ row' \in {None, snap[d]}
                           \/ row'.updatedAt > opened[d] - Second
      BY ReplyHeld DEF RowIsNewer
    <2>1. /\ opened[d] <= now
          /\ row \in {None, snap[d]} \/ row.updatedAt > opened[d] - Second
      BY DEF LockInv, RowIsNewer
    <2>2. CASE row' \in {None, row}
      BY <2>1, <2>2
    <2>3. CASE row' \notin {None, row}
      <3>1. row' \in Record
        BY <2>3, GlobalLockAssumption
      <3>2. row'.updatedAt \in Int /\ now \in Int /\ opened[d] \in Int /\ Second \in Int
        BY <3>1, GlobalLockAssumption DEF Record, TypeOK
      <3>3. QED
        BY <2>1, <2>3, <3>2
    <2>4. QED
      BY <2>2, <2>3
  <1>6. CutoffSpares'
    BY ReplyHeld DEF LockInv, CutoffSpares
  <1>7. QED
    BY <1>3, <1>4, <1>5, <1>6 DEF LockInv

LEMMA CommittedInv ==
    ASSUME TypeOK, LockInv, DistinctHolders,
           NEW c \in Clients, NEW r \in Record, Committed(c, r),
           r.holder = HolderOf[c],
           r = row \/ r.updatedAt > now - Second,
           row = None \/ ~Running(row, now) \/ row.holder = HolderOf[c]
    PROVE  LockInv'
  <1>1. GrantOf(r) \in Grant /\ row' = r /\ r # None
    BY GlobalLockAssumption DEF GrantOf, Grant, Record, Committed
  <1>2. CASE Reply(c, GrantOf(r))
    BY <1>1, <1>2, OwnStep
  <1>3. CASE Reply(c, None)
    BY <1>1, <1>3, OwnStep
  <1>4. QED
    BY <1>2, <1>3 DEF Committed

LEMMA RefusedInv ==
    ASSUME TypeOK, LockInv, DistinctHolders, NEW c \in Clients, Refused(c)
    PROVE  LockInv'
  BY OwnStep DEF Refused, TypeOK

(* The WHERE clause of the UPDATE spares every row whose lease is running. *)
LEMMA TakenOverExpired ==
    ASSUME TypeOK, LockInv, LeasesOutlast,
           NEW c \in Clients, TakeOver(c), StillExpired(c)
    PROVE  ~Running(row, now)
  <1>1. row \in Record /\ snap[c] \in Record
    BY DEF StillExpired, TakeOver, LockInv, CutoffSpares, TypeOK
  <1>2. row.expire \in Finite /\ snap[c].expire \in Finite
    BY <1>1 DEF StillExpired, TakeOver, LockInv, CutoffSpares, Record, Finite
  <1>3. /\ row.updatedAt \in Int /\ row.expire \in Int /\ snap[c].expire \in Int
        /\ cutoff[c] \in Int /\ now \in Int /\ opened[c] \in Int
        /\ MaxPause \in Int /\ Second \in Int
    <2>1. row.expire \in Int /\ snap[c].expire \in Int
      BY <1>2, ExpiresAreInt DEF Finite
    <2>2. row.updatedAt \in Int
      BY <1>1 DEF Record
    <2>3. QED
      BY <2>1, <2>2, TimesAreInt
  <1>4. /\ row.updatedAt < cutoff[c]
        /\ cutoff[c] <= now - snap[c].expire
        /\ cutoff[c] <= opened[c] + MaxPause - snap[c].expire
        /\ row = snap[c] \/ row.updatedAt > opened[c] - Second
    BY DEF StillExpired, TakeOver, LockInv, CutoffSpares, RowIsNewer
  <1>5. row.expire = snap[c].expire
    <2>1. CASE row = snap[c]
      BY <2>1
    <2>2. CASE row.updatedAt > opened[c] - Second
      <3>1. snap[c].expire < MaxPause + Second - 1
        BY <1>3, <1>4, <2>2
      <3>2. ~(snap[c].expire >= MaxPause + Second - 1)
        BY <1>3, <3>1
      <3>3. QED
        BY <1>2, <3>2 DEF LeasesOutlast
    <2>3. QED
      BY <1>4, <2>1, <2>2
  <1>6. row.updatedAt + row.expire < now
    BY <1>3, <1>4, <1>5
  <1>7. QED
    BY <1>2, <1>3, <1>6 DEF Running, Finite

(* The invariant is inductive: each of a client's steps acts on a snapshot *)
(* or on a cutoff that the other clients' steps cannot have made unsafe.   *)
LEMMA InvStep ==
    ASSUME TypeOK, LockInv, DistinctHolders, LeasesOutlast, [Next]_vars
    PROVE  LockInv'
  <1>1. CASE UNCHANGED vars
    BY <1>1 DEF vars, LockInv, LeaseIsRow, SnapIsRow, RowIsNewer, CutoffSpares,
                Held, Running, GrantOf
  <1>2. CASE Tick
    <2>1. \A g \in Record \cup Grant : Running(g, now)' => Running(g, now)
      <3> SUFFICES ASSUME NEW g \in Record \cup Grant, Running(g, now + 1)
                   PROVE  Running(g, now)
        BY <1>2 DEF Tick, Running
      <3>1. g.updatedAt \in Int /\ g.expire \in Int /\ now \in Int
        <4>1. g.updatedAt \in 0..MaxTime /\ g.expire \in Expires /\ now \in 0..MaxTime
          BY DEF Record, Grant, TypeOK
        <4>2. g.expire \in Int
          BY <4>1, ExpiresAreInt
        <4>3. g.updatedAt \in Int /\ now \in Int
          BY <4>1
        <4>4. QED
          BY <4>2, <4>3
      <3>2. QED
        BY <3>1 DEF Running
    <2>2. LeaseIsRow'
      BY <1>2, <2>1 DEF Tick, TypeOK, LockInv, LeaseIsRow, Held, Running, GrantOf
    <2>3. SnapIsRow'
      BY <1>2, <2>1 DEF Tick, TypeOK, LockInv, SnapIsRow, Running
    <2>4. RowIsNewer'
      BY <1>2 DEF Tick, TypeOK, LockInv, RowIsNewer
    <2>5. CutoffSpares'
      <3>1. ASSUME NEW c \in Clients, pc[c] = "expired"
            PROVE  cutoff[c] <= now' - snap[c].expire
        <4>1. cutoff[c] <= now - snap[c].expire /\ snap[c] # None
          BY <3>1 DEF LockInv, CutoffSpares
        <4>2. now' = now + 1
          BY <1>2 DEF Tick
        <4>3. QED
          BY <4>1, <4>2, TimesAreInt
      <3>2. QED
        BY <1>2, <3>1 DEF Tick, LockInv, CutoffSpares
    <2>6. QED
      BY <2>2, <2>3, <2>4, <2>5 DEF LockInv
  <1>3. ASSUME NEW c \in Clients, NEW e \in Expires, Select(c, e) PROVE LockInv'
    <2>1. LeaseIsRow' /\ SnapIsRow' /\ CutoffSpares'
      BY <1>3 DEF Select, TypeOK, LockInv, LeaseIsRow, SnapIsRow, CutoffSpares,
                  Held, Running, GrantOf
    <2>2. RowIsNewer'
      BY <1>3 DEF Select, TypeOK, LockInv, RowIsNewer
    <2>3. QED
      BY <2>1, <2>2 DEF LockInv
  <1>4. ASSUME NEW c \in Clients, Insert(c) PROVE LockInv'
    <2>1. CASE row = None /\ Committed(c, [holder |-> HolderOf[c], expire |-> want[c],
                                           updatedAt |-> Stamp(now)])
      <3>1. [holder |-> HolderOf[c], expire |-> want[c],
             updatedAt |-> Stamp(now)] \in Record
        BY <1>4, StampBounds DEF TypeOK, Record, Holders, Insert
      <3>2. Stamp(now) > now - Second
        BY StampBounds DEF TypeOK
      <3>3. QED
        BY <2>1, <3>1, <3>2, CommittedInv
    <2>2. QED
      BY <1>4, <2>1, RefusedInv DEF Insert
  <1>5. ASSUME NEW c \in Clients, Reenter(c) PROVE LockInv'
    <2>1. snap[c] \in Record /\ GrantOf(snap[c]) \in Grant
      BY <1>5 DEF TypeOK, Reenter, GrantOf, Grant, Record
    <2>2. CASE snap[c].holder = HolderOf[c]
      <3>1. row' = row /\ row = snap[c] /\ snap[c] # None
        BY <1>5, <2>2 DEF Reenter, LockInv, SnapIsRow
      <3>2. Reply(c, GrantOf(snap[c]))
        BY <1>5, <2>2 DEF Reenter
      <3>3. QED
        BY <2>1, <2>2, <3>1, <3>2, OwnStep
    <2>3. CASE snap[c].holder # HolderOf[c]
      BY <1>5, <2>3, RefusedInv DEF Reenter, Refused
    <2>4. QED
      BY <2>2, <2>3
  <1>6. ASSUME NEW c \in Clients, Expire(c), Prompt(c) PROVE LockInv'
    <2>1. snap[c] \in Record /\ snap[c].expire # Permanent
      BY <1>6 DEF Expire, TypeOK, Running
    <2>2. /\ cutoff'[c] = now - snap[c].expire
          /\ cutoff'[c] <= opened[c] + MaxPause - snap[c].expire
      <3>1. cutoff'[c] = now - snap[c].expire /\ now - opened[c] <= MaxPause
        BY <1>6 DEF Expire, Prompt, TypeOK
      <3>2. /\ now \in Int /\ snap[c].expire \in Int
            /\ opened[c] \in Int /\ MaxPause \in Int
        BY <1>6, TimesAreInt DEF Expire
      <3>3. QED
        BY <3>1, <3>2
    <2>3. LeaseIsRow'
      BY <1>6 DEF Expire, LockInv, LeaseIsRow, Held, Running, GrantOf
    <2>4. SnapIsRow'
      BY <1>6 DEF Expire, TypeOK, LockInv, SnapIsRow, Running
    <2>5. RowIsNewer'
      BY <1>6 DEF Expire, TypeOK, LockInv, RowIsNewer
    <2>6. CutoffSpares'
      <3>1. cutoff'[c] <= now - snap[c].expire
        <4>1. now \in Int /\ snap[c].expire \in Int
          BY <1>6, TimesAreInt DEF Expire
        <4>2. QED
          BY <2>2, <4>1
      <3>2. QED
        BY <1>6, <2>1, <2>2, <3>1 DEF Expire, TypeOK, LockInv, CutoffSpares
    <2>7. QED
      BY <2>3, <2>4, <2>5, <2>6 DEF LockInv
  <1>7. ASSUME NEW c \in Clients, TakeOver(c) PROVE LockInv'
    <2>1. CASE StillExpired(c) /\ Committed(c, Rewritten(HolderOf[c], want[c]))
      <3>1. Rewritten(HolderOf[c], want[c]) \in Record
        BY <1>7, <2>1, RewrittenType DEF TypeOK, TakeOver, StillExpired, Holders
      <3>2. ~Running(row, now)
        BY <1>7, <2>1, TakenOverExpired
      <3>3. HolderOf[c] \in Holders /\ want[c] \in Expires /\ row # None
        BY <1>7, <2>1 DEF TypeOK, TakeOver, StillExpired, Holders
      <3>4. QED
        BY <2>1, <3>1, <3>2, <3>3, RewrittenNewer, CommittedInv DEF Rewritten
    <2>2. QED
      BY <1>7, <2>1, RefusedInv DEF TakeOver
  <1>8. ASSUME NEW c \in Clients, Abort(c) \/ Crash(c) PROVE LockInv'
    BY <1>8, RefusedInv DEF Abort, Crash
  <1>9. ASSUME NEW c \in Clients, NEW e \in Expires, Retain(c, e) PROVE LockInv'
    <2>1. CASE Owns(c) /\ Committed(c, Rewritten(row.holder, e))
      <3>1. Rewritten(row.holder, e) \in Record
        BY <2>1, RewrittenType DEF Owns, TypeOK, Record
      <3>2. QED
        BY <2>1, <3>1, RewrittenNewer, CommittedInv DEF Rewritten, Owns, Record, TypeOK
    <2>2. QED
      BY <1>9, <2>1, RefusedInv DEF Retain
  <1>10. ASSUME NEW c \in Clients, Release(c) PROVE LockInv'
    <2>1. row' \in {None, row} /\ row' \in Record \cup {None} /\ Reply(c, None)
      BY <1>10 DEF Release, TypeOK
    <2>2. row' = row \/ row.holder = HolderOf[c]
      BY <1>10 DEF Release, Owns
    <2>3. QED
      BY <2>1, <2>2, OwnStep
  <1>11. QED
    BY <1>1, <1>2, <1>3, <1>4, <1>5, <1>6, <1>7, <1>8, <1>9, <1>10 DEF Next

(* If no two clients share a holder name, and the finite leases are of one *)
(* length or each outlasts a pause of an upsert, what a client was told is *)
(* true of the row, for as long as its lease runs.                         *)
THEOREM LockInvCorrect ==
    DistinctHolders /\ LeasesOutlast => (Spec => []LockInv)
  <1> SUFFICES ASSUME DistinctHolders, LeasesOutlast PROVE Spec => []LockInv
    OBVIOUS
  <1>1. Init => LockInv
    BY DEF Init, LockInv, LeaseIsRow, SnapIsRow, RowIsNewer, CutoffSpares, Held
  <1>2. TypeOK /\ LockInv /\ [Next]_vars => LockInv'
    BY InvStep
  <1>3. QED
    BY <1>1, <1>2, TypeCorrect, PTL DEF Spec

(* Under the same two conditions, the lock excludes. *)
THEOREM MutualExclusionCorrect ==
    DistinctHolders /\ LeasesOutlast => (Spec => []MutualExclusion)
  <1> SUFFICES ASSUME DistinctHolders, LeasesOutlast PROVE Spec => []MutualExclusion
    OBVIOUS
  <1>1. LockInv => MutualExclusion
    BY DEF LockInv, LeaseIsRow, MutualExclusion, DistinctHolders
  <1>2. QED
    BY <1>1, LockInvCorrect, PTL

-----------------------------------------------------------------------------
LEMMA AbstractHeld == \A c : Abstract!Held(c) <=> Held(c)
  BY DEF Abstract!Held, Abstract!Running, Abstract!Permanent, Held, Running, Permanent

LEMMA AbstractType ==
    Abstract!LSpec => [](now \in Int /\ lease \in [Clients -> Abstract!Grant \cup {None}])
  <1> DEFINE Type == now \in Int /\ lease \in [Clients -> Abstract!Grant \cup {None}]
  <1>1. Abstract!LInit => Type
    BY DEF Abstract!LInit
  <1>2. Type /\ [Abstract!LNext]_<<now, lease>> => Type'
    BY DEF Abstract!LNext, Abstract!Advance, Abstract!Acquire, Abstract!Drop
  <1>3. QED
    BY <1>1, <1>2, PTL DEF Abstract!LSpec

(* The abstract lock, on its own, is enough for its clients: whatever      *)
(* implements it never lets two of them hold running leases.               *)
THEOREM LeaseLockExcludes == Abstract!LSpec => []Abstract!AtMostOneHeld
  <1> DEFINE Type == now \in Int /\ lease \in [Clients -> Abstract!Grant \cup {None}]
             Alone == \A c, d \in Clients : Held(c) /\ Held(d) => c = d
  <1>1. Abstract!LInit => Alone
    BY DEF Abstract!LInit, Held
  <1>2. Type /\ Alone /\ [Abstract!LNext]_<<now, lease>> => Alone'
    <2> SUFFICES ASSUME Type, Alone, [Abstract!LNext]_<<now, lease>> PROVE Alone'
      OBVIOUS
    <2>1. CASE UNCHANGED <<now, lease>>
      BY <2>1 DEF Held, Running
    <2>2. CASE Abstract!Advance
      <3>1. ASSUME NEW c \in Clients, Held(c)' PROVE Held(c)
        <4>1. lease[c] # None /\ now' = now + 1 /\ lease' = lease
          BY <2>2, <3>1 DEF Abstract!Advance, Held
        <4>2. lease[c].updatedAt \in Int /\ lease[c].expire \in Expires
          BY <4>1 DEF Abstract!Grant
        <4>3. lease[c].expire \in Int
          BY <4>2, ExpiresAreInt
        <4>4. QED
          BY <3>1, <4>1, <4>2, <4>3 DEF Held, Running
      <3>2. QED
        BY <3>1
    <2>3. ASSUME NEW c \in Clients, Abstract!Acquire(c) PROVE Alone'
      <3>1. \A d \in Clients \ {c} : ~Held(d)
        BY <2>3, AbstractHeld DEF Abstract!Acquire
      <3>2. \A d \in Clients \ {c} : Held(d)' => Held(d)
        BY <2>3 DEF Abstract!Acquire, Held, Running
      <3>3. QED
        BY <3>1, <3>2
    <2>4. ASSUME NEW c \in Clients, Abstract!Drop(c) PROVE Alone'
      BY <2>4 DEF Abstract!Drop, Held, Running
    <2>5. QED
      BY <2>1, <2>2, <2>3, <2>4 DEF Abstract!LNext
  <1>3. Alone <=> Abstract!AtMostOneHeld
    BY AbstractHeld DEF Abstract!AtMostOneHeld
  <1>4. QED
    BY <1>1, <1>2, <1>3, AbstractType, PTL DEF Abstract!LSpec

(* A statement that commits, on a row nobody else counts on, is a grant of *)
(* the lease lock, or a refusal if its reply is lost.                      *)
LEMMA ReplyAbstract ==
    ASSUME TypeOK, LockInv, DistinctHolders,
           NEW c \in Clients, NEW g \in Grant, Reply(c, g),
           row = None \/ ~Running(row, now) \/ row.holder = HolderOf[c]
    PROVE  Abstract!Acquire(c)
  <1>1. \A d \in Clients \ {c} : ~Held(d)
    <2> SUFFICES ASSUME NEW d \in Clients \ {c}, Held(d) PROVE FALSE
      OBVIOUS
    <2>1. row # None /\ row.holder = HolderOf[d]
      BY DEF LockInv, LeaseIsRow
    <2>2. row.holder # HolderOf[c]
      BY <2>1 DEF DistinctHolders
    <2>3. QED
      BY <2>1, <2>2, NobodyHolds
  <1>2. lease' = [lease EXCEPT ![c] = g] /\ now' = now
    BY DEF Reply
  <1>3. lease'[c] = g
    BY <1>2 DEF TypeOK
  <1>4. g \in Abstract!Grant
    BY DEF Grant, Abstract!Grant
  <1>5. QED
    BY <1>1, <1>2, <1>3, <1>4, AbstractHeld DEF Abstract!Acquire

LEMMA RefusedAbstract ==
    ASSUME NEW c \in Clients, Reply(c, None) PROVE Abstract!Drop(c)
  BY DEF Reply, Abstract!Drop

LEMMA CommittedAbstract ==
    ASSUME TypeOK, LockInv, DistinctHolders,
           NEW c \in Clients, NEW r \in Record, Committed(c, r),
           row = None \/ ~Running(row, now) \/ row.holder = HolderOf[c]
    PROVE  Abstract!Acquire(c) \/ Abstract!Drop(c)
  <1>1. GrantOf(r) \in Grant
    BY DEF GrantOf, Grant, Record
  <1>2. QED
    BY <1>1, ReplyAbstract, RefusedAbstract DEF Committed

LEMMA StepAbstract ==
    ASSUME TypeOK, LockInv, DistinctHolders, LeasesOutlast, [Next]_vars
    PROVE  [Abstract!LNext]_<<now, lease>>
  <1>1. CASE UNCHANGED vars
    BY <1>1 DEF vars
  <1>2. CASE Tick
    BY <1>2 DEF Tick, Abstract!LNext, Abstract!Advance
  <1>3. ASSUME NEW c \in Clients, Expire(c) \/ \E e \in Expires : Select(c, e)
        PROVE  UNCHANGED <<now, lease>>
    BY <1>3 DEF Select, Expire
  <1>4. ASSUME NEW c \in Clients, Insert(c)
        PROVE  Abstract!Acquire(c) \/ Abstract!Drop(c)
    <2>1. CASE row = None /\ Committed(c, [holder |-> HolderOf[c], expire |-> want[c],
                                           updatedAt |-> Stamp(now)])
      <3>1. [holder |-> HolderOf[c], expire |-> want[c],
             updatedAt |-> Stamp(now)] \in Record
        BY <1>4, StampBounds DEF TypeOK, Record, Holders, Insert
      <3>2. QED
        BY <2>1, <3>1, CommittedAbstract
    <2>2. QED
      BY <1>4, <2>1, RefusedAbstract DEF Insert, Refused
  <1>5. ASSUME NEW c \in Clients, Reenter(c)
        PROVE  Abstract!Acquire(c) \/ Abstract!Drop(c)
    <2>1. GrantOf(snap[c]) \in Grant
      BY <1>5 DEF TypeOK, Reenter, GrantOf, Grant, Record
    <2>2. CASE snap[c].holder = HolderOf[c]
      BY <1>5, <2>1, <2>2, ReplyAbstract DEF Reenter, LockInv, SnapIsRow
    <2>3. CASE snap[c].holder # HolderOf[c]
      BY <1>5, <2>3, RefusedAbstract DEF Reenter
    <2>4. QED
      BY <2>2, <2>3
  <1>6. ASSUME NEW c \in Clients, TakeOver(c)
        PROVE  Abstract!Acquire(c) \/ Abstract!Drop(c)
    <2>1. CASE StillExpired(c) /\ Committed(c, Rewritten(HolderOf[c], want[c]))
      <3>1. Rewritten(HolderOf[c], want[c]) \in Record
        BY <1>6, <2>1, RewrittenType DEF TypeOK, TakeOver, StillExpired, Holders
      <3>2. ~Running(row, now)
        BY <1>6, <2>1, TakenOverExpired
      <3>3. QED
        BY <2>1, <3>1, <3>2, CommittedAbstract
    <2>2. QED
      BY <1>6, <2>1, RefusedAbstract DEF TakeOver, Refused
  <1>7. ASSUME NEW c \in Clients, NEW e \in Expires, Retain(c, e)
        PROVE  Abstract!Acquire(c) \/ Abstract!Drop(c)
    <2>1. CASE Owns(c) /\ Committed(c, Rewritten(row.holder, e))
      <3>1. Rewritten(row.holder, e) \in Record
        BY <2>1, RewrittenType DEF Owns, TypeOK, Record
      <3>2. QED
        BY <2>1, <3>1, CommittedAbstract DEF Owns
    <2>2. QED
      BY <1>7, <2>1, RefusedAbstract DEF Retain, Refused
  <1>8. ASSUME NEW c \in Clients, Abort(c) \/ Crash(c) \/ Release(c)
        PROVE  Abstract!Drop(c)
    BY <1>8, RefusedAbstract DEF Abort, Crash, Release, Refused
  <1>9. ASSUME NEW c \in Clients, Abstract!Acquire(c) \/ Abstract!Drop(c)
        PROVE  Abstract!LNext
    BY <1>9 DEF Abstract!LNext
  <1>10. CASE Next /\ ~Tick
    <2>1. PICK c \in Clients :
             \/ \E e \in Expires : Select(c, e) \/ Retain(c, e)
             \/ Insert(c) \/ Reenter(c) \/ Expire(c) \/ TakeOver(c)
             \/ Abort(c) \/ Release(c) \/ Crash(c)
      BY <1>10 DEF Next
    <2>2. Abstract!Acquire(c) \/ Abstract!Drop(c) \/ UNCHANGED <<now, lease>>
      <3>1. CASE \E e \in Expires : Select(c, e) \/ Retain(c, e)
        BY <3>1, <1>3, <1>7
      <3>2. CASE Insert(c) \/ Reenter(c) \/ TakeOver(c)
        BY <3>2, <1>4, <1>5, <1>6
      <3>3. CASE Expire(c)
        BY <3>3, <1>3
      <3>4. CASE Abort(c) \/ Release(c) \/ Crash(c)
        BY <3>4, <1>8
      <3>5. QED
        BY <2>1, <3>1, <3>2, <3>3, <3>4
    <2>3. QED
      BY <2>2, <1>9
  <1>11. QED
    BY <1>1, <1>2, <1>10

(* Under the two conditions the lock on a database implements the lease    *)
(* lock: every step of upsert, retain and release is one of its grants,    *)
(* one of its refusals, or changes nothing the clients can see.            *)
THEOREM ImplementsLeaseLockCorrect ==
    DistinctHolders /\ LeasesOutlast => (Spec => ImplementsLeaseLock)
  <1> SUFFICES ASSUME DistinctHolders, LeasesOutlast PROVE Spec => ImplementsLeaseLock
    OBVIOUS
  <1>1. Init => Abstract!LInit
    BY DEF Init, Abstract!LInit
  <1>2. TypeOK /\ LockInv /\ [Next]_vars => [Abstract!LNext]_<<now, lease>>
    BY StepAbstract
  <1>3. QED
    BY <1>1, <1>2, TypeCorrect, LockInvCorrect, PTL
       DEF Spec, ImplementsLeaseLock, Abstract!LSpec

(* The step that gives the row to another holder is the UPDATE of TakeOver,*)
(* on a row whose lease has run out.                                       *)
LEMMA HandOver ==
    ASSUME TypeOK, LockInv, LeasesOutlast, [Next]_vars,
           row # None, row' # None, row'.holder # row.holder
    PROVE  ~Running(row, now)
  <1>1. PICK c \in Clients : TakeOver(c)
    <2>1. row' # row
      OBVIOUS
    <2>2. ~Tick /\ ~UNCHANGED vars
      BY <2>1 DEF Tick, vars
    <2>3. \A c \in Clients : /\ \A e \in Expires : ~Select(c, e)
                            /\ ~Insert(c) /\ ~Reenter(c) /\ ~Expire(c) /\ ~Abort(c)
                            /\ ~Release(c) /\ ~Crash(c)
      BY <2>1 DEF Select, Insert, Reenter, Expire, Abort, Release, Crash,
                  Committed, Refused
    <2>4. \A c \in Clients, e \in Expires : ~Retain(c, e)
      BY <2>1 DEF Retain, Committed, Refused, Rewritten
    <2>5. QED
      BY <2>2, <2>3, <2>4, Zenon DEF Next
  <1>2. StillExpired(c)
    BY <1>1 DEF TakeOver, Refused
  <1>3. QED
    BY <1>1, <1>2, TakenOverExpired

(* The row never passes to another holder while its lease runs, whether or *)
(* not the client it was written for knows that it has it.                 *)
THEOREM OnlyExpiredCorrect ==
    DistinctHolders /\ LeasesOutlast => (Spec => OnlyExpiredRowsChangeHands)
  <1> SUFFICES ASSUME DistinctHolders, LeasesOutlast
               PROVE  Spec => OnlyExpiredRowsChangeHands
    OBVIOUS
  <1>1. TypeOK /\ LockInv /\ [Next]_vars
           => [row # None /\ row' # None /\ row'.holder # row.holder
                  => ~Running(row, now)]_vars
    BY HandOver
  <1>2. QED
    BY <1>1, TypeCorrect, LockInvCorrect, PTL DEF Spec, OnlyExpiredRowsChangeHands
=============================================================================
