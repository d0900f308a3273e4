-------------------------- MODULE GrpcChannelProofs --------------------------
(* Proofs about GrpcChannel, for any number of threads, settings, stub     *)
(* classes and calls of setters.                                           *)
EXTENDS GrpcChannel, TLAPS

(* A channel made of values that were read from the fields is a channel. *)
LEMMA ConnectType ==
    ASSUME TypeOK, NEW t \in Threads, connect(t)
    PROVE  channel' \in Channel
<1>1. /\ draft.target \in TargetValues /\ draft.send \in LengthValues
      /\ length \in LengthValues /\ made \in Nat
  BY DEF TypeOK
<1> QED
  BY <1>1 DEF connect, Channel

(* TypeOK holds: the attributes and locals are of their types. *)
THEOREM TypeCorrect == Spec => []TypeOK
<1>1. Init => TypeOK
  BY DEF Init, TypeOK, TargetValues, LengthValues
<1>2. TypeOK /\ [Next]_vars => TypeOK'
  <2> SUFFICES ASSUME TypeOK, [Next]_vars PROVE TypeOK'
    OBVIOUS
  <2>1. CASE UNCHANGED vars
    BY <2>1 DEF TypeOK, vars
  <2>2. CASE Next
    <3> PICK t \in Threads :
          \/ \E v \in Targets : set_target(t, v)
          \/ \E n \in Lengths : set_max_msg_length(t, n)
          \/ \E s \in StubClasses : with_pooled_stub(t, s) \/ with_stub(t, s)
          \/ on_modified(t)
          \/ Locked(t)
      BY <2>2 DEF Next
    <3>1. CASE \E v \in Targets : set_target(t, v)
      BY <3>1 DEF TypeOK, set_target, Goto, TargetValues
    <3>2. CASE \E n \in Lengths : set_max_msg_length(t, n)
      BY <3>2 DEF TypeOK, set_max_msg_length, Goto, LengthValues
    <3>3. CASE \E s \in StubClasses : with_pooled_stub(t, s)
      BY <3>3 DEF TypeOK, with_pooled_stub, vars
    <3>4. CASE \E s \in StubClasses : with_stub(t, s)
      BY <3>4 DEF TypeOK, with_stub, Goto
    <3>5. CASE on_modified(t)
      BY <3>5 DEF TypeOK, on_modified, Goto
    <3>6. CASE read_target(t)
      BY <3>6 DEF TypeOK, read_target, Goto
    <3>7. CASE read_send_length(t)
      BY <3>7 DEF TypeOK, read_send_length, Goto
    <3>8. CASE connect(t)
      <4>1. channel' \in Channel
        BY <3>8, ConnectType
      <4>2. made' \in Nat
        BY <3>8 DEF TypeOK, connect
      <4>3. pc' \in [Threads -> {"idle", "modified", "target", "send", "receive", "stub"}]
        BY <3>8 DEF TypeOK, connect, Goto
      <4>4. UNCHANGED <<target, length, stub_pool, lock, want, draft, changes>>
        BY <3>8 DEF connect
      <4> QED
        BY <4>1, <4>2, <4>3, <4>4 DEF TypeOK
    <3>9. CASE make_stub(t)
      BY <3>9 DEF TypeOK, make_stub, Leave, Goto
    <3>10. CASE raises(t)
      BY <3>10 DEF TypeOK, raises, Leave, Goto
    <3> QED
      BY <3>1, <3>2, <3>3, <3>4, <3>5, <3>6, <3>7, <3>8, <3>9, <3>10 DEF Locked
  <2> QED
    BY <2>1, <2>2
<1> QED
  BY <1>1, <1>2, PTL DEF Spec

-----------------------------------------------------------------------------
ChannelInv == HolderInv /\ StubsOnChannel /\ ChannelCurrent

(* The inductive step. *)
LEMMA InvStep == TypeOK /\ ChannelInv /\ [Next]_vars => ChannelInv'
<1> SUFFICES ASSUME TypeOK, ChannelInv, [Next]_vars PROVE ChannelInv'
  OBVIOUS
<1> USE DEF ChannelInv
<1>0. \A t \in Threads : t # None
  BY GrpcChannelAssumption
<1>1. CASE UNCHANGED vars
  BY <1>1 DEF vars, HolderInv, StubsOnChannel, ChannelCurrent, Changing
<1>2. CASE Next
  <2> PICK t \in Threads :
        \/ \E v \in Targets : set_target(t, v)
        \/ \E n \in Lengths : set_max_msg_length(t, n)
        \/ \E s \in StubClasses : with_pooled_stub(t, s) \/ with_stub(t, s)
        \/ on_modified(t)
        \/ Locked(t)
    BY <1>2 DEF Next
  <2>1. ASSUME NEW v \in Targets, set_target(t, v) PROVE ChannelInv'
    <3>1. Changing'
      BY <2>1 DEF set_target, Goto, Changing, TypeOK
    <3>2. \A d \in Threads : pc'[d] # "modified" => pc'[d] = pc[d]
      BY <2>1 DEF set_target, Goto, TypeOK
    <3>3. UNCHANGED <<channel, stub_pool, lock, draft>>
      BY <2>1 DEF set_target
    <3> QED
      BY <3>1, <3>2, <3>3 DEF HolderInv, StubsOnChannel, ChannelCurrent
  <2>2. ASSUME NEW n \in Lengths, set_max_msg_length(t, n) PROVE ChannelInv'
    <3>1. Changing'
      BY <2>2 DEF set_max_msg_length, Goto, Changing, TypeOK
    <3>2. \A d \in Threads : pc'[d] # "modified" => pc'[d] = pc[d]
      BY <2>2 DEF set_max_msg_length, Goto, TypeOK
    <3>3. UNCHANGED <<channel, stub_pool, lock, draft>>
      BY <2>2 DEF set_max_msg_length
    <3> QED
      BY <3>1, <3>2, <3>3 DEF HolderInv, StubsOnChannel, ChannelCurrent
  <2>3. ASSUME NEW s \in StubClasses, with_pooled_stub(t, s) PROVE ChannelInv'
    BY <2>3 DEF with_pooled_stub, vars, HolderInv, StubsOnChannel, ChannelCurrent, Changing
  <2>4. ASSUME NEW s \in StubClasses, with_stub(t, s) PROVE ChannelInv'
    <3>1. Changing' <=> Changing
      BY <2>4 DEF with_stub, Goto, Changing, TypeOK
    <3>2. /\ pc'[t] = (IF channel = None THEN "target" ELSE "stub")
          /\ \A d \in Threads \ {t} : pc'[d] = pc[d]
      BY <2>4 DEF with_stub, Goto, TypeOK
    <3>3. \A d \in Threads : pc[d] \notin {"target", "send", "receive", "stub"}
      BY <1>0, <2>4 DEF with_stub, HolderInv
    <3>4. lock' = t /\ UNCHANGED <<target, length, channel, stub_pool, draft>>
      BY <2>4 DEF with_stub
    <3>5. HolderInv'
      BY <3>2, <3>3, <3>4 DEF HolderInv
    <3> QED
      BY <3>1, <3>4, <3>5 DEF StubsOnChannel, ChannelCurrent
  <2>5. CASE on_modified(t)
    <3>1. channel' = None /\ \A s \in StubClasses : stub_pool'[s] = None
      BY <2>5 DEF on_modified
    <3>2. \A d \in Threads : pc[d] \notin {"target", "send", "receive", "stub"}
      BY <1>0, <2>5 DEF on_modified, HolderInv
    <3>3. \A d \in Threads : pc'[d] \notin {"target", "send", "receive", "stub"}
      BY <2>5, <3>2 DEF on_modified, Goto, TypeOK
    <3>4. HolderInv'
      BY <3>3 DEF HolderInv
    <3> QED
      BY <3>1, <3>4 DEF StubsOnChannel, ChannelCurrent
  <2>6. CASE Locked(t)
    <3>0. /\ pc[t] \in {"target", "send", "receive", "stub"} /\ lock = t
          /\ \A d \in Threads \ {t} : pc[d] \notin {"target", "send", "receive", "stub"}
      <4>1. pc[t] \in {"target", "send", "receive", "stub"}
        BY <2>6 DEF Locked, read_target, read_send_length, connect, make_stub, raises
      <4> QED
        BY <4>1 DEF HolderInv
    <3>1. \A d \in Threads \ {t} : pc'[d] = pc[d]
      BY <2>6 DEF Locked, read_target, read_send_length, connect, make_stub, raises,
                  Leave, Goto, TypeOK
    <3>2. Changing' <=> Changing
      <4>1. pc[t] # "modified" /\ pc'[t] # "modified"
        BY <2>6 DEF Locked, read_target, read_send_length, connect, make_stub, raises,
                    Leave, Goto, TypeOK
      <4> QED
        BY <3>1, <4>1 DEF Changing
    <3>3. UNCHANGED <<target, length>>
      BY <2>6 DEF Locked, read_target, read_send_length, connect, make_stub, raises, Leave
    <3>4. CASE read_target(t)
      <4>1. /\ pc[t] = "target" /\ pc'[t] = "send" /\ draft'.target = target
            /\ UNCHANGED <<channel, stub_pool, lock>>
        BY <3>4 DEF read_target, Goto, TypeOK
      <4>2. HolderInv'
        BY <3>0, <3>1, <3>3, <4>1 DEF HolderInv
      <4> QED
        BY <3>2, <3>3, <4>1, <4>2 DEF StubsOnChannel, ChannelCurrent
    <3>5. CASE read_send_length(t)
      <4>1. /\ pc[t] = "send" /\ pc'[t] = "receive"
            /\ draft'.send = length /\ draft'.target = draft.target
            /\ UNCHANGED <<channel, stub_pool, lock>>
        BY <3>5 DEF read_send_length, Goto, TypeOK
      <4>2. HolderInv'
        BY <3>0, <3>1, <3>2, <3>3, <4>1 DEF HolderInv
      <4> QED
        BY <3>2, <3>3, <4>1, <4>2 DEF StubsOnChannel, ChannelCurrent
    <3>6. CASE connect(t)
      <4>1. /\ pc[t] = "receive" /\ pc'[t] = "stub" /\ UNCHANGED <<stub_pool, lock, draft>>
        BY <3>6 DEF connect, Goto, TypeOK
      <4>2. /\ channel' # None /\ channel'.target = draft.target
            /\ channel'.send = draft.send /\ channel'.receive = length
        BY <3>6, ConnectType, GrpcChannelAssumption DEF connect
      <4>3. channel = None
        BY <4>1 DEF HolderInv
      <4>4. \A s \in StubClasses : stub_pool[s] = None
        BY <4>3 DEF StubsOnChannel
      <4>5. HolderInv'
        BY <3>0, <3>1, <4>1, <4>2 DEF HolderInv
      <4>6. ~Changing => draft.target = target /\ draft.send = length
        BY <4>1 DEF HolderInv
      <4> QED
        BY <3>2, <3>3, <4>1, <4>2, <4>4, <4>5, <4>6 DEF StubsOnChannel, ChannelCurrent
    <3>7. CASE make_stub(t)
      <4>1. pc'[t] = "idle" /\ UNCHANGED <<channel, draft>>
        BY <3>7 DEF make_stub, Leave, Goto, TypeOK
      <4>2. \A s \in StubClasses : stub_pool'[s] = channel \/ stub_pool'[s] = stub_pool[s]
        BY <3>7 DEF make_stub, TypeOK
      <4>3. HolderInv'
        BY <3>0, <3>1, <4>1 DEF HolderInv
      <4> QED
        BY <3>2, <3>3, <4>1, <4>2, <4>3 DEF StubsOnChannel, ChannelCurrent
    <3>8. CASE raises(t)
      <4>1. pc'[t] = "idle" /\ UNCHANGED <<channel, draft, stub_pool>>
        BY <3>8 DEF raises, Leave, Goto, TypeOK
      <4>2. HolderInv'
        BY <3>0, <3>1, <4>1 DEF HolderInv
      <4> QED
        BY <3>2, <3>3, <4>1, <4>2 DEF StubsOnChannel, ChannelCurrent
    <3> QED
      BY <2>6, <3>4, <3>5, <3>6, <3>7, <3>8 DEF Locked
  <2> QED
    BY <2>1, <2>2, <2>3, <2>4, <2>5, <2>6
<1> QED
  BY <1>1, <1>2

(* The three invariants together are inductive. *)
THEOREM ChannelInvCorrect == Spec => []ChannelInv
<1>1. Init => ChannelInv
  BY DEF Init, ChannelInv, HolderInv, StubsOnChannel, ChannelCurrent
<1> QED
  BY <1>1, InvStep, TypeCorrect, PTL DEF Spec

(* The lock is held by the thread that changes a setting or that connects, *)
(* and by no other, and what it works on is what the channel is made from. *)
THEOREM HolderInvCorrect == Spec => []HolderInv
<1>1. ChannelInv => HolderInv
  BY DEF ChannelInv
<1> QED
  BY <1>1, ChannelInvCorrect, PTL

(* The stubs that with_stub hands out are all on the current channel. *)
THEOREM StubsOnChannelCorrect == Spec => []StubsOnChannel
<1>1. ChannelInv => StubsOnChannel
  BY DEF ChannelInv
<1> QED
  BY <1>1, ChannelInvCorrect, PTL

(* Once every setter has returned, the channel, if there is one, has the   *)
(* settings they left.                                                     *)
THEOREM ChannelCurrentCorrect == Spec => []ChannelCurrent
<1>1. ChannelInv => ChannelCurrent
  BY DEF ChannelInv
<1> QED
  BY <1>1, ChannelInvCorrect, PTL
=============================================================================
