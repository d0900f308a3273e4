----------------------------- MODULE GrpcChannel -----------------------------
(***************************************************************************)
(* GrpcChannel of the Python gateway: one lazily made channel to a server  *)
(* and the stubs made on it.  with_stub works under a lock; the setters    *)
(* assign their field without it and then, under it, throw channel and     *)
(* stubs away.  A setter can therefore assign while with_stub, holding the *)
(* lock, is between its three readings of the fields.                      *)
(***************************************************************************)
EXTENDS Naturals

CONSTANTS Threads,        \* the threads that share the object
          Targets,        \* the targets that set_target is called with
          Lengths,        \* the lengths that set_max_msg_length is called with
          NoTarget,       \* the empty target a GrpcChannel starts with
          DefaultLength,  \* the length it starts with
          StubClasses,    \* the classes with_stub is asked for
          MaxChanges,     \* bound: how often a setter is called
          None            \* Python's None

TargetValues == Targets \cup {NoTarget}
LengthValues == Lengths \cup {DefaultLength}

(* A channel: its options, and a number, since channels are objects. *)
Channel == [target : TargetValues, send : LengthValues, receive : LengthValues,
            number : Nat]

ASSUME GrpcChannelAssumption == None \notin Threads \cup Channel

VARIABLES target,      \* __target
          length,      \* __max_msg_length
          channel,     \* __channel
          stub_pool,   \* stub_pool[s]: the channel of the stub of class s, or None
          lock,        \* the thread that holds __lock, or None
          pc,          \* pc[t]: where thread t is in a method
          want,        \* want[t]: the class it asked with_stub for
          draft,       \* the options the holder of the lock has read so far
          made,        \* the channels made so far
          changes      \* the calls of setters so far

vars == <<target, length, channel, stub_pool, lock, pc, want, draft, made, changes>>

Goto(t, label) == pc' = [pc EXCEPT ![t] = label]

Init ==
    /\ target = NoTarget
    /\ length = DefaultLength
    /\ channel = None
    /\ stub_pool = [s \in StubClasses |-> None]
    /\ lock = None
    /\ pc = [t \in Threads |-> "idle"]
    /\ want = [t \in Threads |-> None]
    /\ draft = [target |-> NoTarget, send |-> DefaultLength]
    /\ made = 0
    /\ changes = 0

-----------------------------------------------------------------------------
(* Mutant of set_target: the channel is not reset. *)
set_target_only(t, v) ==
    /\ pc[t] = "idle"
    /\ changes < MaxChanges
    /\ changes' = changes + 1
    /\ target' = v
    /\ UNCHANGED <<length, channel, stub_pool, lock, pc, want, draft, made>>

(* The setters: the field is assigned, ... *)
set_target(t, v) ==
    /\ pc[t] = "idle"
    /\ changes < MaxChanges
    /\ changes' = changes + 1
    /\ target' = v
    /\ Goto(t, "modified")
    /\ UNCHANGED <<length, channel, stub_pool, lock, want, draft, made>>

set_max_msg_length(t, n) ==
    /\ pc[t] = "idle"
    /\ changes < MaxChanges
    /\ changes' = changes + 1
    /\ length' = n
    /\ Goto(t, "modified")
    /\ UNCHANGED <<target, channel, stub_pool, lock, want, draft, made>>

(* Mutant of on_modified: the stubs stay. *)
on_modified_channel(t) ==
    /\ pc[t] = "modified"
    /\ lock = None
    /\ channel' = None
    /\ Goto(t, "idle")
    /\ UNCHANGED <<target, length, stub_pool, lock, want, draft, made, changes>>

(* Mutant of on_modified: without the lock. *)
on_modified_unlocked(t) ==
    /\ pc[t] = "modified"
    /\ channel' = None
    /\ stub_pool' = [s \in StubClasses |-> None]
    /\ Goto(t, "idle")
    /\ UNCHANGED <<target, length, lock, want, draft, made, changes>>

(* ... then channel and stubs are thrown away, under the lock. *)
on_modified(t) ==
    /\ pc[t] = "modified"
    /\ lock = None
    /\ channel' = None
    /\ stub_pool' = [s \in StubClasses |-> None]
    /\ Goto(t, "idle")
    /\ UNCHANGED <<target, length, lock, want, draft, made, changes>>

(* with_stub: a stub that is in the pool is returned at once, ... *)
with_pooled_stub(t, s) ==
    /\ pc[t] = "idle"
    /\ lock = None
    /\ stub_pool[s] # None
    /\ UNCHANGED vars

(* ... otherwise it needs the channel, which it may have to make. *)
with_stub(t, s) ==
    /\ pc[t] = "idle"
    /\ lock = None
    /\ stub_pool[s] = None
    /\ lock' = t
    /\ want' = [want EXCEPT ![t] = s]
    /\ Goto(t, IF channel = None THEN "target" ELSE "stub")
    /\ UNCHANGED <<target, length, channel, stub_pool, draft, made, changes>>

(* Mutant of read_target: the arguments are exchanged. *)
read_length_as_target(t) ==
    /\ pc[t] = "target"
    /\ draft' = [draft EXCEPT !.target = length]
    /\ Goto(t, "send")
    /\ UNCHANGED <<target, length, channel, stub_pool, lock, want, made, changes>>

(* The arguments of insecure_channel are read one after the other. *)
read_target(t) ==
    /\ pc[t] = "target"
    /\ draft' = [draft EXCEPT !.target = target]
    /\ Goto(t, "send")
    /\ UNCHANGED <<target, length, channel, stub_pool, lock, want, made, changes>>

read_send_length(t) ==
    /\ pc[t] = "send"
    /\ draft' = [draft EXCEPT !.send = length]
    /\ Goto(t, "receive")
    /\ UNCHANGED <<target, length, channel, stub_pool, lock, want, made, changes>>

connect(t) ==
    /\ pc[t] = "receive"
    /\ channel' = [target |-> draft.target, send |-> draft.send, receive |-> length,
                   number |-> made]
    /\ made' = made + 1
    /\ Goto(t, "stub")
    /\ UNCHANGED <<target, length, stub_pool, lock, want, draft, changes>>

(* The method is left, and the lock with it. *)
Leave(t) ==
    /\ lock' = None
    /\ want' = [want EXCEPT ![t] = None]
    /\ Goto(t, "idle")
    /\ UNCHANGED <<target, length, channel, draft, made, changes>>

make_stub(t) ==
    /\ pc[t] = "stub"
    /\ stub_pool' = [stub_pool EXCEPT ![want[t]] = channel]
    /\ Leave(t)

(* Mutant of raises: the lock is not in a with statement. *)
raises_locked(t) ==
    /\ pc[t] \in {"receive", "stub"}
    /\ want' = [want EXCEPT ![t] = None]
    /\ Goto(t, "idle")
    /\ UNCHANGED <<target, length, channel, stub_pool, lock, draft, made, changes>>

(* insecure_channel or the class of the stub raises. *)
raises(t) ==
    /\ pc[t] \in {"receive", "stub"}
    /\ Leave(t)
    /\ UNCHANGED stub_pool

Locked(t) == \/ read_target(t) \/ read_send_length(t) \/ connect(t)
             \/ make_stub(t) \/ raises(t)

Next ==
    \E t \in Threads :
        \/ \E v \in Targets : set_target(t, v)
        \/ \E n \in Lengths : set_max_msg_length(t, n)
        \/ \E s \in StubClasses : with_pooled_stub(t, s) \/ with_stub(t, s)
        \/ on_modified(t)
        \/ Locked(t)

Spec == Init /\ [][Next]_vars

(* A thread that holds the lock runs on. *)
FairSpec == Spec /\ \A t \in Threads : WF_vars(Locked(t))
-----------------------------------------------------------------------------
(* The attributes and locals are of their types. *)
TypeOK ==
    /\ target \in TargetValues
    /\ length \in LengthValues
    /\ channel \in Channel \cup {None}
    /\ stub_pool \in [StubClasses -> Channel \cup {None}]
    /\ lock \in Threads \cup {None}
    /\ pc \in [Threads -> {"idle", "modified", "target", "send", "receive", "stub"}]
    /\ want \in [Threads -> StubClasses \cup {None}]
    /\ draft \in [target : TargetValues, send : LengthValues]
    /\ made \in Nat
    /\ changes \in Nat

Changing == \E t \in Threads : pc[t] = "modified"

(* "Provides the stubs for different services" on one channel: the stubs   *)
(* that with_stub hands out are all on the current channel.                *)
StubsOnChannel ==
    \A s \in StubClasses : stub_pool[s] # None => stub_pool[s] = channel

(* Although fields are assigned outside the lock, possibly between two of  *)
(* the readings that make a channel, no channel of old or mixed settings   *)
(* survives: if it does not have the current ones, a setter has not        *)
(* returned yet.                                                           *)
ChannelCurrent ==
    channel # None /\ ~Changing =>
        channel.target = target /\ channel.send = length /\ channel.receive = length

(* The lock is held by the one thread inside with_stub's block, which      *)
(* finds no channel when it makes one, and which has read current values,  *)
(* or else a setter is about to throw away what it makes.                  *)
HolderInv ==
    /\ \A t \in Threads : pc[t] \in {"target", "send", "receive", "stub"} => lock = t
    /\ \A t \in Threads : pc[t] \in {"target", "send", "receive"} => channel = None
    /\ \A t \in Threads : pc[t] = "stub" => channel # None
    /\ \A t \in Threads : pc[t] \in {"send", "receive"} /\ ~Changing =>
          draft.target = target
    /\ \A t \in Threads : pc[t] = "receive" /\ ~Changing => draft.send = length

(* Whatever with_stub runs into, it gives the lock back. *)
LockIsReleased == lock # None ~> lock = None
=============================================================================
