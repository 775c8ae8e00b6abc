--------------------------- MODULE ChannelTheorems ---------------------------
(***************************************************************************)
(* What the channel layer (Channel) guarantees, for any number of tasks,   *)
(* any capacity and any interleaving: no sender, no receiver and no close  *)
(* is forgotten, no waiter entry outlives its operation, and a closed      *)
(* channel is drained.                                                     *)
(*                                                                         *)
(* First the inductive invariant (ChannelWakeups), one section per part:   *)
(* a few lemmas on what a kind of step does to it, then one lemma for each *)
(* group of actions.  Then what follows from it.                           *)
(***************************************************************************)
EXTENDS ChannelWakeups, WaiterListTheorems

----------------------------------------------------------------------------
(* Types.                                                                   *)

LEMMA BeginKeepsTypes ==
    ASSUME NEW pcs, NEW ops, NEW backs, Types(pcs, ops, backs), EntryInv,
           handles' \in [Sides -> Nat], NEW t \in Tasks, Begin(t)
    PROVE  Types(pcs, ops, backs)'
<1> Own(t) \in Sides /\ Other(t) \in Sides
  BY DEF Own, Other, Sides
<1> USE DEF Go, GoAs, beginFrame, queueVars, Types, SendPCs, RecvPCs, ListPCs
<1>1. CASE StartTry(t)
  BY <1>1 DEF StartTry, Attempt
<1>2. CASE StartFuture(t)
  BY <1>2 DEF StartFuture
<1>3. CASE Poll(t)
  <2>1. RemoveFirst(parked[Own(t)], t) \in Seq(Tasks)
    BY RemovedEntry DEF Types, EntryInv
  <2>2. QED
    BY <1>3, <2>1 DEF Poll, Attempt, SetParked
<1>4. CASE Cancel(t)
  BY <1>4 DEF Cancel
<1>5. CASE StartClose(t)
  BY <1>5 DEF StartClose
<1>6. CASE Clone(t)
  BY <1>6 DEF Clone
<1>7. CASE DropHandle(t)
  BY <1>7 DEF DropHandle
<1>8. QED
  BY <1>1, <1>2, <1>3, <1>4, <1>5, <1>6, <1>7 DEF Begin

LEMMA PublishKeepsLength ==
    ASSUME items \in Seq(Senders \cup {Ready}), NEW s \in Senders, Publish(s)
    PROVE  items' \in Seq(Senders \cup {Ready}) /\ Len(items') = Len(items)
<1>1. items' = [i \in DOMAIN items |-> IF items[i] = s THEN Ready ELSE items[i]]
  BY DEF Publish
<1>2. QED
  BY <1>1

LEMMA SendKeepsTypes ==
    ASSUME NEW pcs, NEW ops, NEW backs, Types(pcs, ops, backs),
           NEW s \in Senders, SendStep(s)
    PROVE  Types(pcs, ops, backs)'
<1> s \in Tasks
  BY DEF Tasks
<1> USE DEF Go, GoAs, sendFrame, queueVars, flagVars, sampleVars, Types,
            SendPCs, RecvPCs, ListPCs
<1>1. CASE CheckClosed(s)
  BY <1>1 DEF CheckClosed, AfterClosed
<1>2. CASE ReportFull(s)
  BY <1>2 DEF ReportFull
<1>3. CASE Claim(s)
  <2>1. /\ Append(items, s) \in Seq(Senders \cup {Ready})
        /\ Len(Append(items, s)) = Len(items) + 1
    OBVIOUS
  <2>2. Parked("recv") \in SUBSET Tasks
    BY SomeEntry DEF Parked, Sides
  <2>3. QED
    BY <1>3, <2>1, <2>2 DEF Claim
<1>4. CASE SampleReceivers(s)
  BY <1>4 DEF SampleReceivers, MaySee
<1>5. CASE Publish(s)
  <2>1. items' \in Seq(Senders \cup {Ready}) /\ Len(items') = Len(items)
    BY <1>5, PublishKeepsLength
  <2>2. QED
    BY <1>5, <2>1 DEF Publish, AfterSuccess
<1>6. CASE ParkSender(s)
  BY <1>6 DEF ParkSender
<1>7. QED
  BY <1>1, <1>2, <1>3, <1>4, <1>5, <1>6 DEF SendStep

LEMMA RecvKeepsTypes ==
    ASSUME NEW pcs, NEW ops, NEW backs, Types(pcs, ops, backs),
           NEW r \in Receivers, RecvStep(r)
    PROVE  Types(pcs, ops, backs)'
<1> r \in Tasks
  BY DEF Tasks
<1> SNOOZE_LIMIT \in Nat
  BY ChannelAssumption
<1> USE DEF Go, GoAs, recvFrame, queueVars, flagVars, sampleVars, Types,
            SendPCs, RecvPCs, ListPCs
<1>1. CASE Take(r)
  <2>1. /\ Tail(items) \in Seq(Senders \cup {Ready})
        /\ Len(Tail(items)) = Len(items) - 1 /\ Len(items) > 0
    BY <1>1 DEF Take, FrontReady
  <2>2. Parked("send") \in SUBSET Tasks
    BY SomeEntry DEF Parked, Sides
  <2>3. QED
    BY <1>1, <2>1, <2>2 DEF Take
<1>2. CASE SampleSenders(r)
  BY <1>2 DEF SampleSenders, MaySee
<1>3. CASE FinishPop(r)
  BY <1>3 DEF FinishPop, AfterSuccess
<1>4. CASE PopNone(r)
  BY <1>4 DEF PopNone
<1>5. CASE LoadClosed(r)
  BY <1>5 DEF LoadClosed
<1>6. CASE CheckIndices(r)
  BY <1>6 DEF CheckIndices, AfterClosed, ForgetSnapshot
<1>7. CASE FindBusy(r)
  BY <1>7 DEF FindBusy
<1>8. CASE TakeSnapshot(r)
  BY <1>8 DEF TakeSnapshot
<1>9. CASE CheckClaims(r)
  BY <1>9 DEF CheckClaims, ForgetSnapshot
<1>10. CASE FindClaims(r)
  BY <1>10 DEF FindClaims
<1>11. CASE Snooze(r)
  BY <1>11 DEF Snooze
<1>12. CASE Yield(r)
  BY <1>12 DEF Yield, ForgetSnapshot
<1>13. QED
  BY <1>1, <1>2, <1>3, <1>4, <1>5, <1>6, <1>7, <1>8, <1>9, <1>10, <1>11, <1>12
     DEF RecvStep

LEMMA NotificationKeepsTypes ==
    ASSUME NEW pcs, NEW ops, NEW backs, Types(pcs, ops, backs),
           NEW t \in Tasks, NEW from, NEW side \in Sides,
           NEW then \in {"idle", "gone", "unregister", "wake_senders"},
           NotifyOne(t, from, side, then) \/ NotifyAll(t, from, side, then)
    PROVE  Types(pcs, ops, backs)'
<1> USE DEF Types, TakeOut, Waiting, SetParked, Go, GoAs, listFrame, queueVars,
            SendPCs, RecvPCs, ListPCs
<1>1. parked[side] # <<>> => /\ Tail(parked[side]) \in Seq(Tasks)
                             /\ Head(parked[side]) \in Tasks
  OBVIOUS
<1>2. ToSet(parked[side]) \subseteq Tasks
  BY SomeEntry
<1>3. CASE NotifyOne(t, from, side, then)
  BY <1>1, <1>3 DEF NotifyOne
<1>4. CASE NotifyAll(t, from, side, then)
  BY <1>2, <1>4 DEF NotifyAll
<1>5. QED
  BY <1>3, <1>4

LEMMA ListKeepsTypes ==
    ASSUME NEW pcs, NEW ops, NEW backs, backs \subseteq pcs,
           Types(pcs, ops, backs), EntryInv, NEW t \in Tasks, ListStep(t)
    PROVE  Types(pcs, ops, backs)'
<1> Own(t) \in Sides /\ Other(t) \in Sides
  BY DEF Own, Other, Sides
<1> USE DEF Go, GoAs, listFrame, queueVars, flagVars, sampleVars, Types,
            SendPCs, RecvPCs, ListPCs
<1>1. CASE Register(t)
  <2>1. Append(parked[Own(t)], t) \in Seq(Tasks)
    OBVIOUS
  <2>2. QED
    BY <1>1, <2>1 DEF Register, SetParked
<1>2. CASE Discard(t)
  <2>1. RemoveFirst(parked[Own(t)], t) \in Seq(Tasks)
    BY RemovedEntry DEF Types, EntryInv
  <2>2. QED
    BY <1>2, <2>1 DEF Discard, SetParked
<1>3. CASE Unregister(t)
  <2>1. RemoveFirst(parked[Own(t)], t) \in Seq(Tasks)
    BY RemovedEntry DEF Types, EntryInv
  <2>2. QED
    BY <1>3, <2>1 DEF Unregister, SetParked
<1>4. CASE Notify(t)
  BY <1>4, NotificationKeepsTypes DEF Notify, AfterSuccess
<1>5. CASE Forward(t)
  BY <1>5, NotificationKeepsTypes DEF Forward
<1>6. CASE Wake(t)
  BY <1>6 DEF Wake
<1>7. CASE SwapClosed(t)
  BY <1>7 DEF SwapClosed, AfterClose
<1>8. CASE WakeReceivers(t)
  BY <1>8, NotificationKeepsTypes DEF WakeReceivers, Sides
<1>9. CASE WakeSenders(t)
  BY <1>9, NotificationKeepsTypes DEF WakeSenders, AfterClose, Sides
<1>10. QED
  BY <1>1, <1>2, <1>3, <1>4, <1>5, <1>6, <1>7, <1>8, <1>9 DEF ListStep

----------------------------------------------------------------------------
(* Operations.                                                              *)

LEMMA BeginKeepsOperations ==
    ASSUME Typed, OperationInv, NEW t \in Tasks, Begin(t)
    PROVE  OperationInv'
<1> /\ DOMAIN pc = Tasks /\ DOMAIN op = Tasks /\ DOMAIN id = Tasks
    /\ DOMAIN back = Tasks
  BY DEF Typed, Types
<1> USE DEF Go, GoAs, beginFrame, OperationInv, AttemptPCs, ClosePCs, sampleVars
<1>1. CASE StartTry(t)
  BY <1>1 DEF StartTry, Attempt
<1>2. CASE StartFuture(t)
  BY <1>2 DEF StartFuture
<1>3. CASE Poll(t)
  BY <1>3 DEF Poll, Attempt
<1>4. CASE Cancel(t)
  BY <1>4 DEF Cancel
<1>5. CASE StartClose(t)
  BY <1>5 DEF StartClose
<1>6. CASE Clone(t)
  BY <1>6 DEF Clone
<1>7. CASE DropHandle(t)
  BY <1>7 DEF DropHandle
<1>8. QED
  BY <1>1, <1>2, <1>3, <1>4, <1>5, <1>6, <1>7 DEF Begin

LEMMA SendKeepsOperations ==
    ASSUME Typed, OperationInv, NEW s \in Senders, SendStep(s)
    PROVE  OperationInv'
<1> s \in Tasks
  BY DEF Tasks
<1> /\ DOMAIN pc = Tasks /\ DOMAIN op = Tasks /\ DOMAIN id = Tasks
    /\ DOMAIN back = Tasks
  BY DEF Typed, Types
<1> USE DEF Go, GoAs, sendFrame, OperationInv, AttemptPCs, ClosePCs, sampleVars
<1>1. CASE CheckClosed(s)
  BY <1>1 DEF CheckClosed, AfterClosed
<1>2. CASE ReportFull(s)
  BY <1>2 DEF ReportFull
<1>3. CASE Claim(s)
  BY <1>3 DEF Claim
<1>4. CASE SampleReceivers(s)
  BY <1>4 DEF SampleReceivers
<1>5. CASE Publish(s)
  BY <1>5 DEF Publish, AfterSuccess
<1>6. CASE ParkSender(s)
  BY <1>6 DEF ParkSender
<1>7. QED
  BY <1>1, <1>2, <1>3, <1>4, <1>5, <1>6 DEF SendStep

LEMMA RecvKeepsOperations ==
    ASSUME Typed, OperationInv, NEW r \in Receivers, RecvStep(r)
    PROVE  OperationInv'
<1> r \in Tasks
  BY DEF Tasks
<1> /\ DOMAIN pc = Tasks /\ DOMAIN op = Tasks /\ DOMAIN id = Tasks
    /\ DOMAIN back = Tasks
  BY DEF Typed, Types
<1> USE DEF Go, GoAs, recvFrame, OperationInv, AttemptPCs, ClosePCs, sampleVars
<1>1. CASE Take(r)
  BY <1>1 DEF Take
<1>2. CASE SampleSenders(r)
  BY <1>2 DEF SampleSenders
<1>3. CASE FinishPop(r)
  BY <1>3 DEF FinishPop, AfterSuccess
<1>4. CASE PopNone(r)
  BY <1>4 DEF PopNone
<1>5. CASE LoadClosed(r)
  BY <1>5 DEF LoadClosed
<1>6. CASE CheckIndices(r)
  BY <1>6 DEF CheckIndices, AfterClosed, ForgetSnapshot
<1>7. CASE FindBusy(r)
  BY <1>7 DEF FindBusy
<1>8. CASE TakeSnapshot(r)
  BY <1>8 DEF TakeSnapshot
<1>9. CASE CheckClaims(r)
  BY <1>9 DEF CheckClaims, ForgetSnapshot
<1>10. CASE FindClaims(r)
  BY <1>10 DEF FindClaims
<1>11. CASE Snooze(r)
  BY <1>11 DEF Snooze
<1>12. CASE Yield(r)
  BY <1>12 DEF Yield, ForgetSnapshot
<1>13. QED
  BY <1>1, <1>2, <1>3, <1>4, <1>5, <1>6, <1>7, <1>8, <1>9, <1>10, <1>11, <1>12
     DEF RecvStep

LEMMA ListKeepsOperations ==
    ASSUME Typed, OperationInv, NEW t \in Tasks, ListStep(t)
    PROVE  OperationInv'
<1> /\ DOMAIN pc = Tasks /\ DOMAIN op = Tasks /\ DOMAIN id = Tasks
    /\ DOMAIN back = Tasks
  BY DEF Typed, Types
<1> USE DEF Go, GoAs, listFrame, OperationInv, AttemptPCs, ClosePCs, sampleVars
<1>1. CASE Register(t)
  BY <1>1 DEF Register
<1>2. CASE Discard(t)
  BY <1>2 DEF Discard
<1>3. CASE Unregister(t)
  BY <1>3 DEF Unregister
<1>4. CASE Notify(t)
  BY <1>4 DEF Notify, NotifyOne, TakeOut, AfterSuccess
<1>5. CASE Forward(t)
  BY <1>5 DEF Forward, NotifyOne, TakeOut
<1>6. CASE Wake(t)
  <2>1. back[t] \in {"idle", "gone", "unregister", "wake_senders", "batch"}
    BY DEF Typed, Types
  <2>2. PICK last \in BOOLEAN :
          /\ Go(t, "wake", IF last THEN back[t] ELSE "wake")
          /\ back' = IF last THEN [back EXCEPT ![t] = "idle"] ELSE back
          /\ id' = id
    BY <1>6 DEF Wake
  <2>3. CASE last
    BY <2>1, <2>2, <2>3
  <2>4. CASE ~last
    BY <2>2, <2>4
  <2>5. QED
    BY <2>3, <2>4
<1>7. CASE SwapClosed(t)
  BY <1>7 DEF SwapClosed, AfterClose
<1>8. CASE WakeReceivers(t)
  BY <1>8 DEF WakeReceivers, NotifyAll, TakeOut
<1>9. CASE WakeSenders(t)
  BY <1>9 DEF WakeSenders, NotifyAll, TakeOut, AfterClose
<1>10. QED
  BY <1>1, <1>2, <1>3, <1>4, <1>5, <1>6, <1>7, <1>8, <1>9 DEF ListStep

----------------------------------------------------------------------------
(* Handles.                                                                 *)

\* A step after which the same tasks hold handles, and as many are counted.
LEMMA SameHolders ==
    ASSUME HolderInv, NEW t \in Tasks, handles' = handles,
           \A u \in Tasks \ {t} : pc'[u] = pc[u] /\ op'[u] = op[u],
           pc[t] # "gone" /\ op[t] # "drop"
             <=> pc'[t] # "gone" /\ op'[t] # "drop"
    PROVE  HolderInv'
<1>1. \A side \in Sides : Holders(side)' = Holders(side)
  BY DEF Holders, Own
<1>2. QED
  BY <1>1 DEF HolderInv

LEMMA BeginKeepsHolders ==
    ASSUME Typed, OperationInv, HolderInv, NEW t \in Tasks, Begin(t)
    PROVE  HolderInv' /\ handles' \in [Sides -> Nat]
<1> DOMAIN pc = Tasks /\ DOMAIN op = Tasks
  BY DEF Typed, Types
<1> handles \in [Sides -> Nat] /\ Own(t) \in Sides
  BY DEF Typed, Types, Own, Sides
<1> USE DEF Go, GoAs, beginFrame, OperationInv, AttemptPCs, ClosePCs, flagVars
<1>1. CASE StartTry(t)
  BY <1>1, SameHolders DEF StartTry, Attempt
<1>2. CASE StartFuture(t)
  BY <1>2, SameHolders DEF StartFuture
<1>3. CASE Poll(t)
  BY <1>3, SameHolders DEF Poll, Attempt
<1>4. CASE Cancel(t)
  BY <1>4, SameHolders DEF Cancel
<1>5. CASE StartClose(t)
  BY <1>5, SameHolders DEF StartClose
<1>6. CASE Clone(t)
  <2>1. /\ pc[t] = "gone" /\ pc'[t] = "idle" /\ op'[t] = "none"
        /\ \A u \in Tasks \ {t} : pc'[u] = pc[u] /\ op'[u] = op[u]
    BY <1>6 DEF Clone, Go, GoAs
  <2>2. /\ handles'[Own(t)] = handles[Own(t)] + 1 /\ handles' \in [Sides -> Nat]
        /\ \A side \in Sides \ {Own(t)} : handles'[side] = handles[side]
    BY <1>6 DEF Clone
  <2>3. t \notin Holders(Own(t)) /\ Holders(Own(t))' = Holders(Own(t)) \cup {t}
    BY <2>1 DEF Holders, Own
  <2>4. \A side \in Sides \ {Own(t)} : Holders(side)' = Holders(side)
    BY <2>1 DEF Holders, Own
  <2>5. /\ IsFiniteSet(Holders(Own(t))')
        /\ Cardinality(Holders(Own(t))') = Cardinality(Holders(Own(t))) + 1
    BY <2>3, FS_AddElement DEF HolderInv
  <2>6. Cardinality(Holders(Own(t))') = handles'[Own(t)]
    BY <2>2, <2>5 DEF HolderInv
  <2>7. ASSUME NEW side \in Sides
        PROVE  /\ IsFiniteSet(Holders(side)')
               /\ handles'[side] = Cardinality(Holders(side)')
    BY <2>2, <2>4, <2>5, <2>6 DEF HolderInv
  <2>8. QED
    BY <2>2, <2>7 DEF HolderInv
<1>7. CASE DropHandle(t)
  <2>1. /\ pc[t] = "idle" /\ op[t] # "drop"
        /\ pc'[t] = "gone" \/ op'[t] = "drop"
        /\ \A u \in Tasks \ {t} : pc'[u] = pc[u] /\ op'[u] = op[u]
    BY <1>7 DEF DropHandle, GoAs, OperationInv, ClosePCs
  <2>2. /\ handles'[Own(t)] = handles[Own(t)] - 1
        /\ \A side \in Sides \ {Own(t)} : handles'[side] = handles[side]
        /\ handles' = [handles EXCEPT ![Own(t)] = handles[Own(t)] - 1]
    BY <1>7 DEF DropHandle
  <2>3. t \in Holders(Own(t)) /\ Holders(Own(t))' = Holders(Own(t)) \ {t}
    BY <2>1 DEF Holders, Own
  <2>4. \A side \in Sides \ {Own(t)} : Holders(side)' = Holders(side)
    BY <2>1 DEF Holders, Own
  <2>5. /\ IsFiniteSet(Holders(Own(t))')
        /\ Cardinality(Holders(Own(t))') = Cardinality(Holders(Own(t))) - 1
    BY <2>3, FS_RemoveElement DEF HolderInv
  <2>6. Cardinality(Holders(Own(t))') \in Nat
    BY <2>5, FS_CardinalityType
  <2>7. Cardinality(Holders(Own(t))') = handles'[Own(t)]
    BY <2>2, <2>5 DEF HolderInv
  <2>8. ASSUME NEW side \in Sides
        PROVE  /\ IsFiniteSet(Holders(side)')
               /\ handles'[side] = Cardinality(Holders(side)')
    BY <2>2, <2>4, <2>5, <2>7 DEF HolderInv
  <2>9. handles' \in [Sides -> Nat]
    <3>1. handles[Own(t)] - 1 \in Nat
      BY <2>2, <2>6, <2>7
    <3>2. handles' = [handles EXCEPT ![Own(t)] = handles[Own(t)] - 1]
      BY <2>2
    <3>3. QED
      BY <3>1, <3>2
  <2>10. QED
    BY <2>8, <2>9 DEF HolderInv
<1>8. QED
  BY <1>1, <1>2, <1>3, <1>4, <1>5, <1>6, <1>7 DEF Begin

LEMMA SendKeepsHolders ==
    ASSUME Typed, OperationInv, HolderInv, NEW s \in Senders, SendStep(s)
    PROVE  HolderInv'
<1> s \in Tasks
  BY DEF Tasks
<1> DOMAIN pc = Tasks /\ DOMAIN op = Tasks
  BY DEF Typed, Types
<1> USE DEF Go, GoAs, sendFrame, OperationInv, AttemptPCs, ClosePCs, flagVars
<1>1. CASE CheckClosed(s)
  BY <1>1, SameHolders DEF CheckClosed, AfterClosed
<1>2. CASE ReportFull(s)
  BY <1>2, SameHolders DEF ReportFull
<1>3. CASE Claim(s)
  BY <1>3, SameHolders DEF Claim
<1>4. CASE SampleReceivers(s)
  BY <1>4, SameHolders DEF SampleReceivers
<1>5. CASE Publish(s)
  BY <1>5, SameHolders DEF Publish, AfterSuccess
<1>6. CASE ParkSender(s)
  BY <1>6, SameHolders DEF ParkSender
<1>7. QED
  BY <1>1, <1>2, <1>3, <1>4, <1>5, <1>6 DEF SendStep

LEMMA RecvKeepsHolders ==
    ASSUME Typed, OperationInv, HolderInv, NEW r \in Receivers, RecvStep(r)
    PROVE  HolderInv'
<1> r \in Tasks
  BY DEF Tasks
<1> DOMAIN pc = Tasks /\ DOMAIN op = Tasks
  BY DEF Typed, Types
<1> USE DEF Go, GoAs, recvFrame, OperationInv, AttemptPCs, ClosePCs, flagVars
<1>1. CASE Take(r)
  BY <1>1, SameHolders DEF Take
<1>2. CASE SampleSenders(r)
  BY <1>2, SameHolders DEF SampleSenders
<1>3. CASE FinishPop(r)
  BY <1>3, SameHolders DEF FinishPop, AfterSuccess
<1>4. CASE PopNone(r)
  BY <1>4, SameHolders DEF PopNone
<1>5. CASE LoadClosed(r)
  BY <1>5, SameHolders DEF LoadClosed
<1>6. CASE CheckIndices(r)
  BY <1>6, SameHolders DEF CheckIndices, AfterClosed, ForgetSnapshot
<1>7. CASE FindBusy(r)
  BY <1>7, SameHolders DEF FindBusy
<1>8. CASE TakeSnapshot(r)
  BY <1>8, SameHolders DEF TakeSnapshot
<1>9. CASE CheckClaims(r)
  BY <1>9, SameHolders DEF CheckClaims, ForgetSnapshot
<1>10. CASE FindClaims(r)
  BY <1>10, SameHolders DEF FindClaims
<1>11. CASE Snooze(r)
  BY <1>11, SameHolders DEF Snooze
<1>12. CASE Yield(r)
  BY <1>12, SameHolders DEF Yield, ForgetSnapshot
<1>13. QED
  BY <1>1, <1>2, <1>3, <1>4, <1>5, <1>6, <1>7, <1>8, <1>9, <1>10, <1>11, <1>12
     DEF RecvStep

LEMMA ListKeepsHolders ==
    ASSUME Typed, OperationInv, HolderInv, NEW t \in Tasks, ListStep(t)
    PROVE  HolderInv'
<1> DOMAIN pc = Tasks /\ DOMAIN op = Tasks
  BY DEF Typed, Types
<1> USE DEF Go, GoAs, listFrame, OperationInv, AttemptPCs, ClosePCs, flagVars
<1>1. CASE Register(t)
  BY <1>1, SameHolders DEF Register
<1>2. CASE Discard(t)
  BY <1>2, SameHolders DEF Discard
<1>3. CASE Unregister(t)
  BY <1>3, SameHolders DEF Unregister
<1>4. CASE Notify(t)
  BY <1>4, SameHolders DEF Notify, NotifyOne, TakeOut, AfterSuccess
<1>5. CASE Forward(t)
  BY <1>5, SameHolders DEF Forward, NotifyOne, TakeOut
<1>6. CASE Wake(t)
  <2>1. back[t] \in {"idle", "gone", "unregister", "wake_senders", "batch"}
    BY DEF Typed, Types
  <2>2. PICK last \in BOOLEAN :
          Go(t, "wake", IF last THEN back[t] ELSE "wake")
    BY <1>6 DEF Wake
  <2>3. handles' = handles
    BY <1>6 DEF Wake, listFrame
  <2>4. CASE last
    BY <2>1, <2>2, <2>3, <2>4, SameHolders DEF Go, GoAs, OperationInv, ClosePCs
  <2>5. CASE ~last
    BY <2>2, <2>3, <2>5, SameHolders DEF Go, GoAs
  <2>6. QED
    BY <2>4, <2>5
<1>7. CASE SwapClosed(t)
  BY <1>7, SameHolders DEF SwapClosed, AfterClose
<1>8. CASE WakeReceivers(t)
  BY <1>8, SameHolders DEF WakeReceivers, NotifyAll, TakeOut
<1>9. CASE WakeSenders(t)
  BY <1>9, SameHolders DEF WakeSenders, NotifyAll, TakeOut, AfterClose
<1>10. QED
  BY <1>1, <1>2, <1>3, <1>4, <1>5, <1>6, <1>7, <1>8, <1>9 DEF ListStep

----------------------------------------------------------------------------
(* Entries.                                                                 *)

\* The two sides of a task.
LEMMA SidesOf ==
    ASSUME NEW t \in Tasks
    PROVE  /\ Own(t) \in Sides /\ Other(t) \in Sides /\ Own(t) # Other(t)
           /\ \A side \in Sides : side = Own(t) \/ side = Other(t)
BY DEF Own, Other, Sides

\* A list that only loses entries, whose owners know.
LEMMA FewerEntries ==
    ASSUME Typed, EntryInv, NEW side \in Sides, NEW list,
           IsInjective(list), ToSet(list) \subseteq ToSet(parked[side]),
           SetParked(side, list),
           \A u \in Tasks : Own(u) = side /\ u \in ToSet(list) => id'[u],
           \A u \in Tasks : Own(u) # side => id'[u] = id[u]
    PROVE  EntryInv'
<1>1. /\ parked'[side] = list
      /\ \A other \in Sides \ {side} : parked'[other] = parked[other]
  BY DEF SetParked, Typed, Types
<1>2. \A other \in Sides : IsInjective(parked'[other])
  BY <1>1 DEF EntryInv
<1>3. ASSUME NEW u \in Tasks
      PROVE  /\ u \in ToSet(parked'[Own(u)]) => id'[u]
             /\ u \notin ToSet(parked'[Other(u)])
             /\ known'[u] \subseteq ToSet(parked'[Other(u)])
  <2>1. CASE Own(u) = side
    <3>1. Other(u) \in Sides \ {side} /\ known'[u] = known[u]
      BY <2>1, SidesOf DEF SetParked
    <3>2. QED
      BY <1>1, <2>1, <3>1 DEF EntryInv
  <2>2. CASE Other(u) = side
    <3>1. Own(u) \in Sides \ {side} /\ known'[u] = known[u] \cap ToSet(list)
      BY <2>2, SidesOf DEF SetParked
    <3>2. QED
      BY <1>1, <2>2, <3>1 DEF EntryInv, Listed
  <2>3. QED
    BY <2>1, <2>2, SidesOf
<1>4. QED
  BY <1>2, <1>3 DEF EntryInv, Listed

\* What unregister does to the list.
LEMMA OwnEntryRemoved ==
    ASSUME Typed, EntryInv, NEW t \in Tasks,
           SetParked(Own(t), RemoveFirst(parked[Own(t)], t)),
           id' = [id EXCEPT ![t] = FALSE]
    PROVE  /\ EntryInv' /\ ~Listed(t)'
           /\ \A u \in Tasks \ {t} : Listed(u)' <=> Listed(u)
           /\ parked'[Other(t)] = parked[Other(t)]
<1> DEFINE list == RemoveFirst(parked[Own(t)], t)
<1>1. Own(t) \in Sides
  BY SidesOf
<1>2. /\ IsInjective(list)
      /\ ToSet(list) = ToSet(parked[Own(t)]) \ {t}
  BY <1>1, RemovedEntry DEF Typed, Types, EntryInv
<1> HIDE DEF list
<1>3. \A u \in Tasks \ {t} : id'[u] = id[u]
  BY DEF Typed, Types
<1>4. \A u \in Tasks : Own(u) = Own(t) /\ u \in ToSet(list) => id'[u]
  BY <1>2, <1>3 DEF EntryInv, Listed
<1>5. EntryInv'
  BY <1>1, <1>2, <1>3, <1>4, FewerEntries DEF list
<1>6. /\ parked'[Own(t)] = list
      /\ \A side \in Sides \ {Own(t)} : parked'[side] = parked[side]
  BY <1>1 DEF SetParked, Typed, Types, list
<1>7. ASSUME NEW u \in Tasks \ {t} PROVE Listed(u)' <=> Listed(u)
  BY <1>2, <1>6, SidesOf DEF Listed, Own
<1>8. QED
  BY <1>2, <1>5, <1>6, <1>7, SidesOf DEF Listed

\* A notification leaves the other list alone.
LEMMA OtherListStays ==
    ASSUME Typed, NEW t \in Tasks, NEW from, NEW side \in Sides, NEW then,
           NotifyOne(t, from, side, then) \/ NotifyAll(t, from, side, then)
    PROVE  \A other \in Sides \ {side} : parked'[other] = parked[other]
BY DEF NotifyOne, NotifyAll, SetParked, Typed, Types

\* What notify_one and notify_all do to a list: `gone` is taken out of it.
LEMMA EntriesTaken ==
    ASSUME Typed, EntryInv, NEW t \in Tasks, NEW from, NEW side \in Sides,
           NEW then,
           NotifyOne(t, from, side, then) \/ NotifyAll(t, from, side, then)
    PROVE  /\ EntryInv'
           /\ ToSet(parked'[side]) = ToSet(parked[side]) \ targets'[t]
           /\ targets'[t] \subseteq ToSet(parked[side])
           /\ IsFiniteSet(targets'[t])
           /\ parked[side] # <<>> => targets'[t] # {}
           /\ \A u \in Tasks \ {t} : targets'[u] = targets[u]
           /\ targets'[t] # {} => pc'[t] = "wake"
           /\ id' = id /\ woken' = woken
<1> DEFINE now == parked'[side]
<1>1. /\ parked[side] \in Seq(Tasks) /\ IsInjective(parked[side])
      /\ DOMAIN targets = Tasks /\ DOMAIN pc = Tasks
      /\ DOMAIN parked = Sides
  BY DEF Typed, Types, EntryInv
<1>2. SetParked(side, now)
  BY <1>1 DEF NotifyOne, NotifyAll, SetParked
<1>3. PICK wakers : /\ TakeOut(t, from, side, wakers, then)
                    /\ IsInjective(now)
                    /\ ToSet(now) = ToSet(parked[side]) \ wakers
                    /\ wakers \subseteq ToSet(parked[side])
                    /\ IsFiniteSet(wakers)
                    /\ parked[side] # <<>> <=> wakers # {}
  <2>1. CASE NotifyAll(t, from, side, then)
    <3>1. now = <<>> /\ TakeOut(t, from, side, ToSet(parked[side]), then)
      BY <2>1, <1>1 DEF NotifyAll, SetParked
    <3>2. IsFiniteSet(ToSet(parked[side]))
      BY <1>1, FiniteEntries
    <3>3. IsInjective(now) /\ ToSet(now) = {}
      BY <3>1, EmptyList
    <3>4. parked[side] # <<>> <=> ToSet(parked[side]) # {}
      BY <1>1, SomeEntry
    <3>5. QED
      BY <3>1, <3>2, <3>3, <3>4
  <2>2. CASE NotifyOne(t, from, side, then) /\ parked[side] # <<>>
    <3>1. /\ now = Tail(parked[side])
          /\ TakeOut(t, from, side, {Head(parked[side])}, then)
      BY <2>2, <1>1 DEF NotifyOne, SetParked, Waiting
    <3>2. IsFiniteSet({Head(parked[side])})
      BY FS_Singleton
    <3>3. /\ IsInjective(now)
          /\ ToSet(now) = ToSet(parked[side]) \ {Head(parked[side])}
          /\ Head(parked[side]) \in ToSet(parked[side])
      BY <3>1, <2>2, <1>1, TakenEntry
    <3>4. {Head(parked[side])} # {}
      OBVIOUS
    <3> HIDE DEF now
    <3>5. QED
      BY <3>1, <3>2, <3>3, <3>4, <2>2
  <2>3. CASE NotifyOne(t, from, side, then) /\ parked[side] = <<>>
    <3>1. now = <<>> /\ TakeOut(t, from, side, {}, then)
      BY <2>3, <1>1 DEF NotifyOne, SetParked, Waiting
    <3>2. QED
      BY <3>1, <2>3, EmptyList, FS_EmptySet
  <2>4. QED
    BY <2>1, <2>2, <2>3
<1>4. /\ targets'[t] = wakers /\ id' = id /\ woken' = woken
      /\ \A u \in Tasks \ {t} : targets'[u] = targets[u]
      /\ wakers # {} => pc'[t] = "wake"
  BY <1>1, <1>3 DEF TakeOut, Go, GoAs, Waiting
<1>5. EntryInv'
  <2>1. \A u \in Tasks : Own(u) = side /\ u \in ToSet(now) => id'[u]
    BY <1>3, <1>4 DEF EntryInv, Listed
  <2>2. QED
    BY <2>1, <1>2, <1>3, <1>4, FewerEntries
<1>6. QED
  BY <1>2, <1>3, <1>4, <1>5

\* A step that leaves the lists and the ids alone.
LEMMA SameEntries ==
    ASSUME Typed, EntryInv, UNCHANGED <<parked, id>>, NEW t \in Tasks,
           \A u \in Tasks \ {t} : known'[u] = known[u],
           known'[t] \subseteq ToSet(parked[Other(t)])
    PROVE  EntryInv'
BY DEF EntryInv, Listed

LEMMA BeginKeepsEntries ==
    ASSUME Typed, OperationInv, EntryInv, NEW t \in Tasks, Begin(t)
    PROVE  EntryInv'
<1> DOMAIN known = Tasks /\ DOMAIN id = Tasks /\ DOMAIN pc = Tasks
  BY DEF Typed, Types
<1> known[t] \subseteq ToSet(parked[Other(t)]) /\ {} \subseteq
   ToSet(parked[Other(t)])
  BY DEF EntryInv
<1> USE DEF Go, GoAs, beginFrame
<1>1. CASE StartTry(t)
  BY <1>1, SameEntries DEF StartTry, Attempt
<1>2. CASE StartFuture(t)
  BY <1>2, SameEntries DEF StartFuture
<1>3. CASE Poll(t)
  BY <1>3, OwnEntryRemoved DEF Poll
<1>4. CASE Cancel(t)
  BY <1>4, SameEntries DEF Cancel
<1>5. CASE StartClose(t)
  BY <1>5, SameEntries DEF StartClose
<1>6. CASE Clone(t)
  BY <1>6, SameEntries DEF Clone
<1>7. CASE DropHandle(t)
  BY <1>7, SameEntries DEF DropHandle
<1>8. QED
  BY <1>1, <1>2, <1>3, <1>4, <1>5, <1>6, <1>7 DEF Begin

LEMMA SendKeepsEntries ==
    ASSUME Typed, OperationInv, EntryInv, NEW s \in Senders, SendStep(s)
    PROVE  EntryInv'
<1> s \in Tasks
  BY DEF Tasks
<1> DOMAIN known = Tasks /\ DOMAIN id = Tasks /\ DOMAIN pc = Tasks
  BY DEF Typed, Types
<1> known[s] \subseteq ToSet(parked[Other(s)]) /\ {} \subseteq
   ToSet(parked[Other(s)])
  BY DEF EntryInv
<1> Other(s) = "recv"
  BY DEF Other
<1> USE DEF Go, GoAs, sendFrame, sampleVars
<1>1. CASE CheckClosed(s)
  BY <1>1, SameEntries DEF CheckClosed, AfterClosed
<1>2. CASE ReportFull(s)
  BY <1>2, SameEntries DEF ReportFull
<1>3. CASE Claim(s)
  BY <1>3, SameEntries DEF Claim, sendFrame, Parked
<1>4. CASE SampleReceivers(s)
  BY <1>4, SameEntries DEF SampleReceivers
<1>5. CASE Publish(s)
  BY <1>5, SameEntries DEF Publish, AfterSuccess
<1>6. CASE ParkSender(s)
  BY <1>6, SameEntries DEF ParkSender
<1>7. QED
  BY <1>1, <1>2, <1>3, <1>4, <1>5, <1>6 DEF SendStep

LEMMA RecvKeepsEntries ==
    ASSUME Typed, OperationInv, EntryInv, NEW r \in Receivers, RecvStep(r)
    PROVE  EntryInv'
<1> r \in Tasks
  BY DEF Tasks
<1> DOMAIN known = Tasks /\ DOMAIN id = Tasks /\ DOMAIN pc = Tasks
  BY DEF Typed, Types
<1> known[r] \subseteq ToSet(parked[Other(r)]) /\ {} \subseteq
   ToSet(parked[Other(r)])
  BY DEF EntryInv
<1> Other(r) = "send"
  BY ChannelAssumption DEF Other
<1> USE DEF Go, GoAs, recvFrame, sampleVars
<1>1. CASE Take(r)
  BY <1>1, SameEntries DEF Take, recvFrame, Parked
<1>2. CASE SampleSenders(r)
  BY <1>2, SameEntries DEF SampleSenders
<1>3. CASE FinishPop(r)
  BY <1>3, SameEntries DEF FinishPop, AfterSuccess
<1>4. CASE PopNone(r)
  BY <1>4, SameEntries DEF PopNone
<1>5. CASE LoadClosed(r)
  BY <1>5, SameEntries DEF LoadClosed
<1>6. CASE CheckIndices(r)
  BY <1>6, SameEntries DEF CheckIndices, AfterClosed, ForgetSnapshot
<1>7. CASE FindBusy(r)
  BY <1>7, SameEntries DEF FindBusy
<1>8. CASE TakeSnapshot(r)
  BY <1>8, SameEntries DEF TakeSnapshot
<1>9. CASE CheckClaims(r)
  BY <1>9, SameEntries DEF CheckClaims, ForgetSnapshot
<1>10. CASE FindClaims(r)
  BY <1>10, SameEntries DEF FindClaims
<1>11. CASE Snooze(r)
  BY <1>11, SameEntries DEF Snooze
<1>12. CASE Yield(r)
  BY <1>12, SameEntries DEF Yield, ForgetSnapshot
<1>13. QED
  BY <1>1, <1>2, <1>3, <1>4, <1>5, <1>6, <1>7, <1>8, <1>9, <1>10, <1>11, <1>12
     DEF RecvStep

LEMMA ListKeepsEntries ==
    ASSUME Typed, OperationInv, EntryInv, NEW t \in Tasks, ListStep(t)
    PROVE  EntryInv'
<1> DOMAIN known = Tasks /\ DOMAIN id = Tasks /\ DOMAIN pc = Tasks
  BY DEF Typed, Types
<1> known[t] \subseteq ToSet(parked[Other(t)]) /\ {} \subseteq
   ToSet(parked[Other(t)])
  BY DEF EntryInv
<1> Own(t) \in Sides /\ Other(t) \in Sides
  BY SidesOf
<1> USE DEF Go, GoAs, listFrame, sampleVars
<1>1. CASE Register(t)
  <2> DEFINE list == Append(parked[Own(t)], t)
  <2>1. t \notin ToSet(parked[Own(t)])
    BY <1>1 DEF Register, GoAs, EntryInv, Listed, OperationInv
  <2>2. /\ IsInjective(list)
        /\ ToSet(list) = ToSet(parked[Own(t)]) \cup {t}
    BY <2>1, AddedEntry DEF Typed, Types, EntryInv
  <2>3. SetParked(Own(t), list) /\ id' = [id EXCEPT ![t] = TRUE]
    BY <1>1 DEF Register
  <2> HIDE DEF list
  <2>4. /\ parked'[Own(t)] = list
        /\ \A other \in Sides \ {Own(t)} : parked'[other] = parked[other]
    BY <2>3 DEF SetParked, Typed, Types
  <2>5. \A side \in Sides : IsInjective(parked'[side])
    BY <2>2, <2>4 DEF EntryInv
  <2>6. ASSUME NEW u \in Tasks
        PROVE  /\ u \in ToSet(parked'[Own(u)]) => id'[u]
               /\ u \notin ToSet(parked'[Other(u)])
               /\ known'[u] \subseteq ToSet(parked'[Other(u)])
    <3>1. CASE Own(u) = Own(t)
      <4>1. Other(u) \in Sides \ {Own(t)} /\ known'[u] = known[u]
        BY <2>3, <3>1, SidesOf DEF SetParked
      <4>2. QED
        BY <2>2, <2>3, <2>4, <3>1, <4>1 DEF EntryInv, Listed
    <3>2. CASE Other(u) = Own(t)
      <4>1. /\ Own(u) \in Sides \ {Own(t)} /\ u # t
            /\ known'[u] = known[u] \cap ToSet(list)
        BY <2>3, <3>2, SidesOf DEF SetParked
      <4>2. QED
        BY <2>2, <2>3, <2>4, <3>2, <4>1 DEF EntryInv, Listed
    <3>3. QED
      BY <3>1, <3>2, SidesOf
  <2>7. QED
    BY <2>5, <2>6 DEF EntryInv, Listed
<1>2. CASE Discard(t)
  BY <1>2, OwnEntryRemoved DEF Discard
<1>3. CASE Unregister(t)
  BY <1>3, OwnEntryRemoved DEF Unregister
<1>4. CASE Notify(t)
  BY <1>4, EntriesTaken DEF Notify
<1>5. CASE Forward(t)
  BY <1>5, EntriesTaken DEF Forward
<1>6. CASE Wake(t)
  BY <1>6, SameEntries DEF Wake
<1>7. CASE SwapClosed(t)
  BY <1>7, SameEntries DEF SwapClosed, AfterClose
<1>8. CASE WakeReceivers(t)
  BY <1>8, EntriesTaken DEF WakeReceivers, Sides
<1>9. CASE WakeSenders(t)
  BY <1>9, EntriesTaken DEF WakeSenders, Sides
<1>10. QED
  BY <1>1, <1>2, <1>3, <1>4, <1>5, <1>6, <1>7, <1>8, <1>9 DEF ListStep

----------------------------------------------------------------------------
(* Wake-ups.                                                                *)

\* Every task but t is where it was.
OthersStay(t) ==
    \A u \in Tasks \ {t} : pc'[u] = pc[u] /\ op'[u] = op[u]

\* A step that leaves the lists and the targets alone.
LEMMA SameWakers ==
    ASSUME WakeInv, NEW t \in Tasks, UNCHANGED <<parked, targets>>,
           OthersStay(t), pc[t] # "wake",
           \A u \in Tasks \ {t} : woken'[u] = woken[u],
           Retrying(t)' => \/ woken'[t]
                           \/ Retrying(t) /\ (woken[t] => woken'[t])
    PROVE  WakeInv'
<1>1. ASSUME NEW u \in Tasks, u # t PROVE Retrying(u)' <=> Retrying(u)
  BY <1>1 DEF OthersStay, Retrying
<1>2. \A u \in Tasks : Listed(u)' <=> Listed(u)
  BY DEF Listed, Own
<1>3. QED
  BY <1>1, <1>2 DEF WakeInv, OthersStay

\* A poll, or the end of an operation, takes the entry of its task out.
LEMMA EntryTakenBack ==
    ASSUME Typed, EntryInv, WakeInv, NEW t \in Tasks,
           SetParked(Own(t), RemoveFirst(parked[Own(t)], t)),
           id' = [id EXCEPT ![t] = FALSE],
           targets' = targets, OthersStay(t), pc[t] # "wake", ~Retrying(t)',
           \A u \in Tasks \ {t} : woken'[u] = woken[u]
    PROVE  WakeInv'
<1>1. \A u \in Tasks \ {t} : Listed(u)' <=> Listed(u)
  BY OwnEntryRemoved
<1>2. ASSUME NEW u \in Tasks, u # t PROVE Retrying(u)' <=> Retrying(u)
  BY <1>2 DEF OthersStay, Retrying
<1>3. QED
  BY <1>1, <1>2 DEF WakeInv, OthersStay

\* A notification: who leaves the list becomes a target.
LEMMA WakersTaken ==
    ASSUME Typed, EntryInv, WakeInv, NEW t \in Tasks, NEW from,
           NEW side \in Sides, NEW then,
           NotifyOne(t, from, side, then) \/ NotifyAll(t, from, side, then),
           OthersStay(t), pc[t] # "wake", ~Retrying(t)'
    PROVE  WakeInv'
<1>1. ASSUME NEW u \in Tasks, Listed(u) PROVE Listed(u)' \/ u \in targets'[t]
  <2>1. Own(u) \in Sides /\ Own(u)' = Own(u)
    BY SidesOf DEF Own
  <2>2. CASE Own(u) = side
    <3>1. ToSet(parked'[side]) = ToSet(parked[side]) \ targets'[t]
      BY EntriesTaken
    <3>2. QED
      BY <1>1, <2>1, <2>2, <3>1 DEF Listed
  <2>3. CASE Own(u) # side
    <3>1. parked'[Own(u)] = parked[Own(u)]
      BY <2>1, <2>3, OtherListStays
    <3>2. QED
      BY <1>1, <2>1, <3>1 DEF Listed
  <2>4. QED
    BY <2>2, <2>3
<1>2. ASSUME NEW u \in Tasks, u # t PROVE Retrying(u)' <=> Retrying(u)
  BY <1>2 DEF OthersStay, Retrying
<1>3. /\ \A u \in Tasks \ {t} : targets'[u] = targets[u]
      /\ targets'[t] # {} => pc'[t] = "wake"
      /\ IsFiniteSet(targets'[t]) /\ woken' = woken
  BY EntriesTaken
<1>4. targets[t] = {}
  BY DEF WakeInv
<1>5. ASSUME NEW u \in Tasks
      PROVE  /\ IsFiniteSet(targets'[u])
             /\ targets'[u] # {} => pc'[u] = "wake"
  BY <1>3 DEF WakeInv, OthersStay
<1>6. ASSUME NEW u \in Tasks, Retrying(u)'
      PROVE  Listed(u)' \/ woken'[u] \/ \E c \in Tasks : u \in targets'[c]
  <2>1. Listed(u) \/ woken[u] \/ \E c \in Tasks : u \in targets[c]
    BY <1>2, <1>6 DEF WakeInv
  <2>2. QED
    BY <2>1, <1>1, <1>3, <1>4
<1>7. QED
  BY <1>5, <1>6 DEF WakeInv

\* wake() of one waker.
LEMMA OneIsWoken ==
    ASSUME Typed, NEW t \in Tasks, Wake(t)
    PROVE  \E w \in targets[t] :
             /\ targets'[t] = targets[t] \ {w}
             /\ \A u \in Tasks \ {t} : targets'[u] = targets[u]
             /\ woken'[w] <=> pc[w] \notin {"idle", "gone"}
             /\ \A u \in Tasks \ {w} : woken'[u] = woken[u]
<1>1. \E w \in targets[t] :
        /\ woken' = [woken EXCEPT ![w] = pc[w] \notin {"idle", "gone"}]
        /\ targets' = [targets EXCEPT ![t] = @ \ {w}]
  BY Zenon DEF Wake
<1>2. PICK w \in targets[t] :
        /\ woken' = [woken EXCEPT ![w] = pc[w] \notin {"idle", "gone"}]
        /\ targets' = [targets EXCEPT ![t] = @ \ {w}]
  BY <1>1
<1>3. /\ targets'[t] = targets[t] \ {w}
      /\ \A u \in Tasks \ {t} : targets'[u] = targets[u]
  <2>1. DOMAIN targets = Tasks
    BY DEF Typed, Types
  <2>2. QED
    BY <1>2, <2>1
<1>4. w \in Tasks /\ DOMAIN woken = Tasks
  BY DEF Typed, Types
<1>5. woken'[w] <=> pc[w] \notin {"idle", "gone"}
  BY <1>2, <1>4
<1>6. \A u \in Tasks \ {w} : woken'[u] = woken[u]
  BY <1>2, <1>4
<1>7. QED
  BY <1>3, <1>5, <1>6

LEMMA BeginKeepsWakers ==
    ASSUME Typed, OperationInv, EntryInv, WakeInv, NEW t \in Tasks, Begin(t)
    PROVE  WakeInv'
<1> /\ DOMAIN pc = Tasks /\ DOMAIN op = Tasks /\ DOMAIN woken = Tasks
    /\ targets[t] # {} => pc[t] = "wake"
  BY DEF Typed, Types, WakeInv
<1> USE DEF Go, GoAs, beginFrame, OthersStay, Retrying, flagVars, OperationInv,
            ClosePCs, AttemptPCs
<1>1. CASE StartTry(t)
  BY <1>1, SameWakers DEF StartTry, Attempt
<1>2. CASE StartFuture(t)
  BY <1>2, SameWakers DEF StartFuture
<1>3. CASE Poll(t)
  BY <1>3, EntryTakenBack DEF Poll, GoAs, beginFrame, Attempt, OthersStay,
     Retrying
<1>4. CASE Cancel(t)
  BY <1>4, SameWakers DEF Cancel
<1>5. CASE StartClose(t)
  BY <1>5, SameWakers DEF StartClose
<1>6. CASE Clone(t)
  BY <1>6, SameWakers DEF Clone
<1>7. CASE DropHandle(t)
  BY <1>7, SameWakers DEF DropHandle
<1>8. QED
  BY <1>1, <1>2, <1>3, <1>4, <1>5, <1>6, <1>7 DEF Begin

LEMMA SendKeepsWakers ==
    ASSUME Typed, OperationInv, EntryInv, WakeInv, NEW s \in Senders,
           SendStep(s)
    PROVE  WakeInv'
<1> s \in Tasks
  BY DEF Tasks
<1> /\ DOMAIN pc = Tasks /\ DOMAIN op = Tasks /\ DOMAIN woken = Tasks
    /\ targets[s] # {} => pc[s] = "wake"
  BY DEF Typed, Types, WakeInv
<1> USE DEF Go, GoAs, sendFrame, OthersStay, Retrying, flagVars, OperationInv,
            ClosePCs, AttemptPCs
<1>1. CASE CheckClosed(s)
  BY <1>1, SameWakers DEF CheckClosed, AfterClosed
<1>2. CASE ReportFull(s)
  BY <1>2, SameWakers DEF ReportFull
<1>3. CASE Claim(s)
  BY <1>3, SameWakers DEF Claim
<1>4. CASE SampleReceivers(s)
  BY <1>4, SameWakers DEF SampleReceivers
<1>5. CASE Publish(s)
  BY <1>5, SameWakers DEF Publish, AfterSuccess
<1>6. CASE ParkSender(s)
  BY <1>6, SameWakers DEF ParkSender
<1>7. QED
  BY <1>1, <1>2, <1>3, <1>4, <1>5, <1>6 DEF SendStep

LEMMA RecvKeepsWakers ==
    ASSUME Typed, OperationInv, EntryInv, WakeInv, NEW r \in Receivers,
           RecvStep(r)
    PROVE  WakeInv'
<1> r \in Tasks
  BY DEF Tasks
<1> /\ DOMAIN pc = Tasks /\ DOMAIN op = Tasks /\ DOMAIN woken = Tasks
    /\ targets[r] # {} => pc[r] = "wake"
  BY DEF Typed, Types, WakeInv
<1> USE DEF Go, GoAs, recvFrame, OthersStay, Retrying, flagVars, OperationInv,
            ClosePCs, AttemptPCs
<1>1. CASE Take(r)
  BY <1>1, SameWakers DEF Take
<1>2. CASE SampleSenders(r)
  BY <1>2, SameWakers DEF SampleSenders
<1>3. CASE FinishPop(r)
  BY <1>3, SameWakers DEF FinishPop, AfterSuccess
<1>4. CASE PopNone(r)
  BY <1>4, SameWakers DEF PopNone
<1>5. CASE LoadClosed(r)
  BY <1>5, SameWakers DEF LoadClosed
<1>6. CASE CheckIndices(r)
  BY <1>6, SameWakers DEF CheckIndices, AfterClosed, ForgetSnapshot
<1>7. CASE FindBusy(r)
  BY <1>7, SameWakers DEF FindBusy
<1>8. CASE TakeSnapshot(r)
  BY <1>8, SameWakers DEF TakeSnapshot
<1>9. CASE CheckClaims(r)
  BY <1>9, SameWakers DEF CheckClaims, ForgetSnapshot
<1>10. CASE FindClaims(r)
  BY <1>10, SameWakers DEF FindClaims
<1>11. CASE Snooze(r)
  BY <1>11, SameWakers DEF Snooze
<1>12. CASE Yield(r)
  BY <1>12, SameWakers DEF Yield, ForgetSnapshot
<1>13. QED
  BY <1>1, <1>2, <1>3, <1>4, <1>5, <1>6, <1>7, <1>8, <1>9, <1>10, <1>11, <1>12
     DEF RecvStep

LEMMA ListKeepsWakers ==
    ASSUME Typed, OperationInv, EntryInv, WakeInv, NEW t \in Tasks, ListStep(t)
    PROVE  WakeInv'
<1> /\ DOMAIN pc = Tasks /\ DOMAIN op = Tasks /\ DOMAIN woken = Tasks
    /\ targets[t] # {} => pc[t] = "wake"
  BY DEF Typed, Types, WakeInv
<1> Own(t) \in Sides /\ Other(t) \in Sides
  BY SidesOf
<1> USE DEF Go, GoAs, listFrame, OthersStay, Retrying, flagVars, OperationInv,
            ClosePCs, AttemptPCs
<1>1. CASE Register(t)
  <2> DEFINE list == Append(parked[Own(t)], t)
  <2>1. /\ parked' = [parked EXCEPT ![Own(t)] = list]
        /\ pc'[t] = "parking" /\ OthersStay(t) /\ targets' = targets
        /\ woken' = woken /\ pc[t] # "wake"
    BY <1>1 DEF Register, SetParked, GoAs, OthersStay
  <2>2. t \notin ToSet(parked[Own(t)])
    BY <1>1 DEF Register, GoAs, EntryInv, Listed, OperationInv
  <2>3. ToSet(list) = ToSet(parked[Own(t)]) \cup {t}
    BY <2>2, AddedEntry DEF Typed, Types, EntryInv
  <2>4. ToSet(parked'[Own(t)]) = ToSet(parked[Own(t)]) \cup {t}
    BY <2>1, <2>3 DEF Typed, Types
  <2>5. \A side \in Sides \ {Own(t)} : parked'[side] = parked[side]
    BY <2>1 DEF Typed, Types
  <2>6. Listed(t)' /\ \A u \in Tasks : Listed(u) => Listed(u)'
    BY <2>4, <2>5, SidesOf DEF Listed, Own
  <2>7. ASSUME NEW u \in Tasks, u # t PROVE Retrying(u)' <=> Retrying(u)
    BY <2>1, <2>7 DEF OthersStay, Retrying
  <2>8. QED
    BY <2>1, <2>6, <2>7 DEF WakeInv, OthersStay
<1>2. CASE Discard(t)
  <2>1. OthersStay(t) /\ pc[t] # "wake" /\ ~Retrying(t)'
    BY <1>2 DEF Discard, Go, GoAs, OthersStay, Retrying
  <2>2. QED
    BY <1>2, <2>1, EntryTakenBack DEF Discard
<1>3. CASE Unregister(t)
  <2>1. OthersStay(t) /\ pc[t] # "wake" /\ ~Retrying(t)'
    BY <1>3 DEF Unregister, Go, GoAs, OthersStay, Retrying
  <2>2. QED
    BY <1>3, <2>1, EntryTakenBack DEF Unregister
<1>4. CASE Notify(t)
  <2>1. OthersStay(t) /\ pc[t] # "wake" /\ ~Retrying(t)'
    BY <1>4 DEF Notify, NotifyOne, TakeOut, Go, GoAs, AfterSuccess, AfterClose,
       OthersStay, Retrying
  <2>2. QED
    BY <1>4, <2>1, WakersTaken DEF Notify
<1>5. CASE Forward(t)
  <2>1. OthersStay(t) /\ pc[t] # "wake" /\ ~Retrying(t)'
    BY <1>5 DEF Forward, NotifyOne, TakeOut, Go, GoAs, AfterSuccess,
       AfterClose, OthersStay, Retrying
  <2>2. QED
    BY <1>5, <2>1, WakersTaken DEF Forward
<1>6. CASE Wake(t)
  <2>1. PICK w \in targets[t] :
          /\ targets'[t] = targets[t] \ {w}
          /\ \A u \in Tasks \ {t} : targets'[u] = targets[u]
          /\ woken'[w] <=> pc[w] \notin {"idle", "gone"}
          /\ \A u \in Tasks \ {w} : woken'[u] = woken[u]
    BY <1>6, OneIsWoken
  <2> DEFINE last == Cardinality(targets[t]) = 1
  <2>2. /\ pc[t] = "wake" /\ pc'[t] = (IF last THEN back[t] ELSE "wake")
        /\ OthersStay(t) /\ parked' = parked
    BY <1>6 DEF Wake, Go, GoAs, OthersStay, listFrame
  <2>3. /\ w \in Tasks /\ IsFiniteSet(targets[t])
        /\ back[t] \in {"idle", "gone", "unregister", "wake_senders", "batch"}
    BY <2>1 DEF Typed, Types, WakeInv
  <2>4. IsFiniteSet(targets'[t]) /\ (last => targets'[t] = {})
    <3>1. /\ IsFiniteSet(targets[t] \ {w})
          /\ Cardinality(targets[t] \ {w}) = Cardinality(targets[t]) - 1
      BY <2>1, <2>3, FS_RemoveElement
    <3>2. last => Cardinality(targets[t] \ {w}) = 0
      BY <3>1
    <3>3. last => targets[t] \ {w} = {}
      BY <3>1, <3>2, FS_EmptySet
    <3>4. QED
      BY <2>1, <3>1, <3>3
  <2>5. ~Retrying(t)'
    BY <2>2, <2>3 DEF Retrying
  <2>6. ASSUME NEW u \in Tasks
        PROVE  /\ IsFiniteSet(targets'[u])
               /\ targets'[u] # {} => pc'[u] = "wake"
    <3>1. CASE u = t
      <4>1. targets'[t] # {} => ~last
        BY <2>4
      <4>2. QED
        BY <2>2, <2>4, <3>1, <4>1
    <3>2. CASE u # t
      BY <2>1, <2>2, <3>2 DEF WakeInv, OthersStay
    <3>3. QED
      BY <3>1, <3>2
  <2>7. ASSUME NEW u \in Tasks, Retrying(u)'
        PROVE  Listed(u)' \/ woken'[u] \/ \E c \in Tasks : u \in targets'[c]
    <3>1. Retrying(u) /\ u # t
      BY <2>2, <2>5, <2>7 DEF OthersStay, Retrying
    <3>2. Listed(u) \/ woken[u] \/ \E c \in Tasks : u \in targets[c]
      BY <3>1 DEF WakeInv
    <3>3. Listed(u)' <=> Listed(u)
      BY <2>2 DEF Listed, Own
    <3>4. u = w => woken'[u]
      BY <3>1, <2>1 DEF Retrying
    <3>5. QED
      BY <3>2, <3>3, <3>4, <2>1
  <2>8. QED
    BY <2>6, <2>7 DEF WakeInv
<1>7. CASE SwapClosed(t)
  BY <1>7, SameWakers DEF SwapClosed, AfterClose
<1>8. CASE WakeReceivers(t)
  <2>1. OthersStay(t) /\ pc[t] # "wake" /\ ~Retrying(t)'
    BY <1>8 DEF WakeReceivers, NotifyAll, TakeOut, Go, GoAs, AfterSuccess,
       AfterClose, OthersStay, Retrying
  <2>2. QED
    BY <1>8, <2>1, WakersTaken DEF WakeReceivers, Sides
<1>9. CASE WakeSenders(t)
  <2>1. OthersStay(t) /\ pc[t] # "wake" /\ ~Retrying(t)'
    BY <1>9 DEF WakeSenders, NotifyAll, TakeOut, Go, GoAs, AfterSuccess,
       AfterClose, OthersStay, Retrying
  <2>2. QED
    BY <1>9, <2>1, WakersTaken DEF WakeSenders, Sides
<1>10. QED
  BY <1>1, <1>2, <1>3, <1>4, <1>5, <1>6, <1>7, <1>8, <1>9 DEF ListStep

----------------------------------------------------------------------------
(* Values are looked after.                                                 *)

\* A receiver that is going to look keeps the values served.
LEMMA ReceiverLooks ==
    ASSUME NEW r \in Receivers, ~Exposed(r)'
    PROVE  ServeInv'
BY DEF ServeInv

\* A step that tells no receiver less, and leaves no announcement half-made.
LEMMA StillServed ==
    ASSUME ServeInv, items' # <<>> => items # <<>>,
           \A r \in Receivers : Exposed(r)' => Exposed(r),
           \A s \in Senders : Announcing(s) =>
             Announcing(s)' \/ \E r \in Receivers : ~Exposed(r)'
    PROVE  ServeInv'
BY DEF ServeInv

\* A step of one task that leaves the queue and the list of receivers alone.
LEMMA OneTaskServes ==
    ASSUME ServeInv, NEW t \in Tasks, OthersStay(t),
           Len(items') = Len(items), items' # <<>> => items # <<>>,
           parked'["recv"] = parked["recv"],
           \A u \in Tasks \ {t} : /\ woken'[u] = woken[u] /\ wake'[u] = wake[u]
                                  /\ u \in Senders => known'[u] = known[u],
           \A r \in Receivers \ {t} : ahead'[r] = ahead[r],
           t \in Receivers /\ Exposed(t)' => Exposed(t),
           t \in Senders /\ Announcing(t) => Announcing(t)'
    PROVE  ServeInv'
<1>1. ASSUME NEW r \in Receivers PROVE Exposed(r)' => Exposed(r)
  <2>1. r \in Tasks /\ Own(r) = "recv"
    BY ChannelAssumption DEF Tasks, Own
  <2>2. Listed(r)' <=> Listed(r)
    BY <2>1 DEF Listed, Own
  <2>3. QED
    BY <2>1, <2>2 DEF Exposed, OthersStay
<1>2. ASSUME NEW s \in Senders PROVE Announcing(s) => Announcing(s)'
  BY DEF Announcing, OthersStay, Tasks
<1>3. QED
  BY <1>1, <1>2, StillServed

\* A receiver that takes its own entry back is going to look; a sender's entry
\* is not in the list of receivers.
LEMMA EntryBackServes ==
    ASSUME Typed, EntryInv, ServeInv, NEW t \in Tasks,
           SetParked(Own(t), RemoveFirst(parked[Own(t)], t)),
           id' = [id EXCEPT ![t] = FALSE],
           UNCHANGED <<items, wake, ahead>>, OthersStay(t),
           \A u \in Tasks \ {t} : woken'[u] = woken[u],
           pc[t] \in {"pending", "discard", "unregister"}
    PROVE  ServeInv'
<1>1. CASE t \in Receivers
  <2>1. ~Listed(t)'
    BY OwnEntryRemoved
  <2>2. QED
    BY <1>1, <2>1, ReceiverLooks DEF Exposed
<1>2. CASE t \in Senders
  <2>1. Own(t) = "send" /\ Other(t) = "recv" /\ t \notin Receivers
    BY <1>2, ChannelAssumption DEF Own, Other
  <2>2. parked'["recv"] = parked["recv"]
    BY <2>1, OwnEntryRemoved
  <2>3. \A u \in Senders : known'[u] = known[u]
    BY <2>1 DEF SetParked, Other, Tasks
  <2>4. ~Announcing(t)
    BY DEF Announcing
  <2>5. QED
    BY <2>1, <2>2, <2>3, <2>4, OneTaskServes
<1>3. QED
  BY <1>1, <1>2 DEF Tasks

\* A receiver that goes on in its retry knows what it knew.
LEMMA RetryGoesOn ==
    ASSUME ServeInv, NEW r \in Receivers, OthersStay(r),
           pc[r] \in {"pop", "state", "indices", "claims", "busy"},
           op'[r] = "retry" => op[r] = "retry", pc'[r] # "pending",
           UNCHANGED <<items, parked, woken, wake, known, ahead>>
    PROVE  ServeInv'
<1>1. Exposed(r)' => Exposed(r)
  BY DEF Exposed, Listed, Own
<1>2. r \in Tasks /\ r \notin Senders
  BY ChannelAssumption DEF Tasks
<1>3. QED
  BY <1>1, <1>2, OneTaskServes

\* A notification: out of the list of receivers it takes somebody, unless
\* nobody sleeps.
LEMMA NotificationServes ==
    ASSUME Typed, EntryInv, ServeInv, NEW t \in Tasks, NEW from,
           NEW side \in Sides, NEW then \in {"idle", "gone", "unregister",
                                             "wake_senders"},
           NotifyOne(t, from, side, then) \/ NotifyAll(t, from, side, then),
           t \in Senders => ~Announcing(t) \/ side = "recv"
    PROVE  ServeInv'
<1>1. CASE side = "recv"
  <2>1. PICK r \in Receivers : parked["recv"] # <<>> => r \in targets'[t]
    <3>1. CASE parked["recv"] = <<>>
      BY <3>1 DEF ServeInv
    <3>2. CASE parked["recv"] # <<>>
      <4>1. PICK r \in targets'[t] : r \in ToSet(parked["recv"])
        BY <1>1, <3>2, EntriesTaken
      <4>2. r \in Receivers
        BY <4>1, SomeEntry DEF EntryInv, Typed, Types, Tasks, Other, Sides
      <4>3. QED
        BY <4>1, <4>2
    <3>3. QED
      BY <3>1, <3>2
  <2>2. r \notin ToSet(parked'["recv"])
    <3>1. ToSet(parked'["recv"]) = ToSet(parked["recv"]) \ targets'[t]
      BY <1>1, EntriesTaken
    <3>2. parked["recv"] = <<>> => ToSet(parked["recv"]) = {}
      BY EmptyList
    <3>3. QED
      BY <2>1, <3>1, <3>2
  <2>3. ~Exposed(r)'
    BY <2>2, ChannelAssumption DEF Exposed, Listed, Own
  <2>4. QED
    BY <2>3, ReceiverLooks
<1>2. CASE side = "send"
  <2>1. /\ pc'[t] \in {"wake", "idle", "gone", "unregister", "wake_senders"}
        /\ OthersStay(t) /\ UNCHANGED <<items, wake, ahead, woken>>
    BY DEF NotifyOne, NotifyAll, TakeOut, Go, GoAs, OthersStay, listFrame,
           queueVars, Typed, Types
  <2>2. CASE t \in Receivers
    BY <2>1, <2>2, ReceiverLooks DEF Exposed
  <2>3. CASE t \in Senders
    <3>1. /\ parked'["recv"] = parked["recv"] /\ t \notin Receivers
          /\ ~Announcing(t)
      BY <1>2, <2>3, OtherListStays, ChannelAssumption DEF Sides
    <3>2. \A u \in Senders : known'[u] = known[u]
      BY <1>2 DEF NotifyOne, NotifyAll, SetParked, Other, Tasks
    <3>3. QED
      BY <2>1, <3>1, <3>2, OneTaskServes
  <2>4. QED
    BY <2>2, <2>3 DEF Tasks
<1>3. QED
  BY <1>1, <1>2 DEF Sides

LEMMA BeginKeepsServing ==
    ASSUME Typed, OperationInv, EntryInv, ServeInv, NEW t \in Tasks, Begin(t)
    PROVE  ServeInv'
<1> t \notin Receivers => t \in Senders
  BY DEF Tasks
<1> DOMAIN pc = Tasks /\ DOMAIN op = Tasks /\ DOMAIN woken = Tasks
  BY DEF Typed, Types
<1> USE DEF Go, GoAs, beginFrame, OthersStay, queueVars, sampleVars, flagVars,
            Exposed, Announcing
<1>1. CASE StartTry(t)
  BY <1>1, OneTaskServes DEF StartTry, Attempt
<1>2. CASE StartFuture(t)
  BY <1>2, OneTaskServes DEF StartFuture
<1>3. CASE Poll(t)
  BY <1>3, EntryBackServes DEF Poll, GoAs, beginFrame, queueVars, OthersStay
<1>4. CASE Cancel(t)
  BY <1>4, OneTaskServes DEF Cancel
<1>5. CASE StartClose(t)
  BY <1>5, OneTaskServes DEF StartClose
<1>6. CASE Clone(t)
  BY <1>6, OneTaskServes DEF Clone
<1>7. CASE DropHandle(t)
  BY <1>7, OneTaskServes DEF DropHandle
<1>8. QED
  BY <1>1, <1>2, <1>3, <1>4, <1>5, <1>6, <1>7 DEF Begin

LEMMA SendKeepsServing ==
    ASSUME Typed, OperationInv, EntryInv, ServeInv, NEW s \in Senders,
           SendStep(s)
    PROVE  ServeInv'
<1> s \in Tasks /\ s \notin Receivers
  BY ChannelAssumption DEF Tasks
<1> /\ DOMAIN pc = Tasks /\ DOMAIN op = Tasks /\ DOMAIN wake = Tasks
    /\ DOMAIN known = Tasks
  BY DEF Typed, Types
<1> USE DEF Go, GoAs, sendFrame, OthersStay, queueVars, sampleVars, flagVars,
            Exposed, Announcing
<1>1. CASE CheckClosed(s)
  BY <1>1, OneTaskServes DEF CheckClosed, AfterClosed
<1>2. CASE ReportFull(s)
  BY <1>2, OneTaskServes DEF ReportFull
<1>3. CASE Claim(s)
  <2>1. /\ known'[s] = Parked("recv") /\ pc'[s] = "sample"
        /\ OthersStay(s) /\ UNCHANGED <<parked, woken, ahead>>
    BY <1>3 DEF Claim, Go, GoAs, sendFrame, OthersStay
  <2>2. CASE \E r \in Receivers : ~Exposed(r)'
    BY <2>2, ReceiverLooks
  <2>3. CASE \A r \in Receivers : Exposed(r)'
    <3>1. PICK r \in Receivers : Exposed(r)'
      BY <2>3 DEF ServeInv
    <3>2. r \in Tasks /\ r # s /\ Own(r) = "recv"
      BY ChannelAssumption DEF Tasks, Own
    <3>3. Listed(r)' /\ pc'[r] # "parking"
      BY <3>1 DEF Exposed
    <3>4. r \in ToSet(parked["recv"]) /\ pc[r] # "parking"
      BY <2>1, <3>2, <3>3 DEF Listed, OthersStay, Own
    <3>5. Announcing(s)'
      BY <2>1, <3>4 DEF Parked, Announcing
    <3>6. QED
      BY <3>5 DEF ServeInv
  <2>4. QED
    BY <2>2, <2>3
<1>4. CASE SampleReceivers(s)
  <2>1. Announcing(s) => Announcing(s)'
    BY <1>4 DEF SampleReceivers, MaySee, Go, GoAs, Announcing
  <2>2. QED
    BY <1>4, <2>1, OneTaskServes DEF SampleReceivers, Go, GoAs, sendFrame,
       OthersStay
<1>5. CASE Publish(s)
  <2>1. Announcing(s) => Announcing(s)'
    BY <1>5 DEF Publish, Go, GoAs, Announcing
  <2>2. Len(items') = Len(items) /\ (items' # <<>> => items # <<>>)
    BY <1>5, PublishKeepsLength DEF Typed, Types
  <2>3. QED
    BY <1>5, <2>1, <2>2, OneTaskServes DEF Publish, Go, GoAs, sendFrame,
       OthersStay
<1>6. CASE ParkSender(s)
  BY <1>6, OneTaskServes DEF ParkSender
<1>7. QED
  BY <1>1, <1>2, <1>3, <1>4, <1>5, <1>6 DEF SendStep

LEMMA RecvKeepsServing ==
    ASSUME Typed, OperationInv, EntryInv, ServeInv, NEW r \in Receivers,
           RecvStep(r)
    PROVE  ServeInv'
<1> r \in Tasks /\ r \notin Senders
  BY ChannelAssumption DEF Tasks
<1> DOMAIN pc = Tasks /\ DOMAIN op = Tasks /\ DOMAIN woken = Tasks
  BY DEF Typed, Types
<1> ahead \in [Receivers -> Nat]
  BY DEF Typed, Types
<1> USE DEF Go, GoAs, recvFrame, OthersStay, queueVars, sampleVars, flagVars,
            Exposed, Announcing, OperationInv
<1>1. CASE Take(r)
  BY <1>1, ReceiverLooks DEF Take, Go, GoAs, Exposed
<1>2. CASE SampleSenders(r)
  BY <1>2, ReceiverLooks DEF SampleSenders, Go, GoAs, Exposed
<1>3. CASE FinishPop(r)
  BY <1>3, ReceiverLooks DEF FinishPop, Go, GoAs, Exposed, AfterSuccess
<1>4. CASE PopNone(r)
  BY <1>4, RetryGoesOn DEF PopNone, Go, GoAs, recvFrame, queueVars, sampleVars,
     OthersStay
<1>5. CASE LoadClosed(r)
  BY <1>5, RetryGoesOn DEF LoadClosed, Go, GoAs, recvFrame, queueVars,
     sampleVars,
     OthersStay
<1>6. CASE CheckIndices(r)
  BY <1>6, ReceiverLooks DEF CheckIndices, Go, GoAs, Exposed, AfterClosed
<1>7. CASE FindBusy(r)
  BY <1>7, RetryGoesOn DEF FindBusy, Go, GoAs, recvFrame, queueVars, sampleVars,
     OthersStay
<1>8. CASE TakeSnapshot(r)
  <2>1. ahead'[r] = Len(items) /\ items' = items
    BY <1>8 DEF TakeSnapshot, queueVars
  <2>2. pc'[r] = "pop" /\ Len(items) \in Nat
    BY <1>8 DEF TakeSnapshot, Go, GoAs, Typed, Types
  <2>3. QED
    BY <2>1, <2>2, ReceiverLooks DEF Exposed
<1>9. CASE CheckClaims(r)
  <2>1. /\ pc[r] = "claims" /\ op[r] = "retry" /\ ahead[r] = 0
        /\ OthersStay(r)
        /\ UNCHANGED <<items, parked, woken, wake, known>>
        /\ \A q \in Receivers \ {r} : ahead'[q] = ahead[q]
    BY <1>9 DEF CheckClaims, ForgetSnapshot, Go, GoAs, recvFrame, queueVars,
                sampleVars, OthersStay, OperationInv
  <2>2. items # <<>> => Len(items) > 0
    BY DEF Typed, Types
  <2>3. CASE items = <<>>
    BY <2>1, <2>3 DEF ServeInv
  <2>4. CASE items # <<>>
    <3>1. Exposed(r)' => Exposed(r)
      BY <2>1, <2>2, <2>4 DEF Exposed, Listed, Own
    <3>2. QED
      BY <2>1, <3>1, OneTaskServes
  <2>5. QED
    BY <2>3, <2>4
<1>10. CASE FindClaims(r)
  BY <1>10, RetryGoesOn DEF FindClaims, Go, GoAs, recvFrame, queueVars,
     sampleVars,
     OthersStay
<1>11. CASE Snooze(r)
  BY <1>11, RetryGoesOn DEF Snooze, Go, GoAs, recvFrame, queueVars, sampleVars,
     OthersStay
<1>12. CASE Yield(r)
  BY <1>12, ReceiverLooks DEF Yield, Go, GoAs, Exposed
<1>13. QED
  BY <1>1, <1>2, <1>3, <1>4, <1>5, <1>6, <1>7, <1>8, <1>9, <1>10, <1>11, <1>12
     DEF RecvStep

LEMMA ListKeepsServing ==
    ASSUME Typed, OperationInv, EntryInv, ServeInv, NEW t \in Tasks,
           ListStep(t)
    PROVE  ServeInv'
<1> t \notin Receivers => t \in Senders
  BY DEF Tasks
<1> DOMAIN pc = Tasks /\ DOMAIN op = Tasks /\ DOMAIN woken = Tasks
  BY DEF Typed, Types
<1> t \in Receivers => t \notin Senders
  BY ChannelAssumption
<1> USE DEF Go, GoAs, listFrame, OthersStay, queueVars, sampleVars, flagVars,
            Exposed, Announcing
<1>1. CASE Register(t)
  <2>1. OthersStay(t) /\ pc[t] = "register" /\ pc'[t] = "parking"
    BY <1>1 DEF Register, GoAs, OthersStay
  <2>2. CASE t \in Receivers
    BY <2>1, <2>2, ReceiverLooks DEF Exposed
  <2>3. CASE t \in Senders
    <3>1. Own(t) = "send" /\ t \notin Receivers
      BY <2>3, ChannelAssumption DEF Own
    <3>2. /\ parked'["recv"] = parked["recv"]
          /\ \A u \in Senders : known'[u] = known[u]
          /\ UNCHANGED <<items, woken, wake, ahead>>
      BY <1>1, <3>1 DEF Register, SetParked, Other, Tasks, queueVars, Typed, Types,
                        Sides
    <3>3. ~Announcing(t)
      BY <2>1 DEF Announcing
    <3>4. QED
      BY <2>1, <3>1, <3>2, <3>3, OneTaskServes
  <2>4. QED
    BY <2>2, <2>3 DEF Tasks
<1>2. CASE Discard(t)
  <2>1. OthersStay(t) /\ pc[t] = "discard"
    BY <1>2 DEF Discard, Go, GoAs, OthersStay
  <2>2. QED
    BY <1>2, <2>1, EntryBackServes DEF Discard, listFrame, queueVars
<1>3. CASE Unregister(t)
  <2>1. OthersStay(t) /\ pc[t] = "unregister"
    BY <1>3 DEF Unregister, Go, GoAs, OthersStay
  <2>2. QED
    BY <1>3, <2>1, EntryBackServes DEF Unregister, listFrame, queueVars
<1>4. CASE Notify(t)
  <2>1. AfterSuccess(t) \in {"idle", "unregister"} /\ Other(t) \in Sides
    BY SidesOf DEF AfterSuccess
  <2>2. t \in Senders => Other(t) = "recv"
    BY DEF Other
  <2>3. QED
    BY <1>4, <2>1, <2>2, NotificationServes DEF Notify
<1>5. CASE Forward(t)
  <2>1. t \in Senders => ~Announcing(t) /\ Own(t) = "send"
    BY <1>5 DEF Forward, NotifyOne, TakeOut, Go, GoAs, Announcing, Own
  <2>2. QED
    BY <1>5, <2>1, SidesOf, NotificationServes DEF Forward
<1>6. CASE Wake(t)
  <2>1. PICK w \in targets[t] :
          /\ woken'[w] <=> pc[w] \notin {"idle", "gone"}
          /\ \A u \in Tasks \ {w} : woken'[u] = woken[u]
    BY <1>6, OneIsWoken
  <2>2. /\ pc[t] = "wake" /\ OthersStay(t)
        /\ pc'[t] \in {"idle", "gone", "unregister", "wake_senders", "wake",
                       "batch"}
        /\ UNCHANGED <<items, parked, known, wake, ahead>>
    BY <1>6 DEF Wake, Go, GoAs, OthersStay, listFrame, queueVars, Typed, Types
  <2>3. CASE t \in Receivers
    BY <2>2, <2>3, ReceiverLooks DEF Exposed
  <2>4. CASE t \in Senders
    <3>1. ASSUME NEW r \in Receivers PROVE Exposed(r)' => Exposed(r)
      <4>1. r # t /\ r \in Tasks
        BY <2>4, ChannelAssumption DEF Tasks
      <4>2. Listed(r)' <=> Listed(r)
        BY <2>2 DEF Listed, Own
      <4>3. ~woken'[r] => ~woken[r] \/ pc[r] \in {"idle", "gone"}
        BY <2>1, <4>1
      <4>4. QED
        BY <2>2, <4>1, <4>2, <4>3 DEF Exposed, OthersStay
    <3>2. ASSUME NEW s \in Senders PROVE Announcing(s) => Announcing(s)'
      BY <2>2 DEF Announcing, OthersStay, Tasks
    <3>3. QED
      BY <2>2, <3>1, <3>2, StillServed
  <2>5. QED
    BY <2>3, <2>4 DEF Tasks
<1>7. CASE SwapClosed(t)
  BY <1>7, OneTaskServes DEF SwapClosed, AfterClose
<1>8. CASE WakeReceivers(t)
  BY <1>8, NotificationServes DEF WakeReceivers, Sides
<1>9. CASE WakeSenders(t)
  <2>1. AfterClose(t) \in {"idle", "gone"} /\ ~Announcing(t)
    BY <1>9 DEF AfterClose, WakeSenders, NotifyAll, TakeOut, Go, GoAs,
                Announcing
  <2>2. QED
    BY <1>9, <2>1, NotificationServes DEF WakeSenders, Sides
<1>10. QED
  BY <1>1, <1>2, <1>3, <1>4, <1>5, <1>6, <1>7, <1>8, <1>9 DEF ListStep

----------------------------------------------------------------------------
(* Close.                                                                   *)

\* A step of a task that is not closing, and leaves the lists alone: it does
\* not go to sleep on an open channel that was seen open before.
LEMMA OneTaskCloses ==
    ASSUME CloseInv, NEW t \in Tasks, OthersStay(t),
           UNCHANGED <<closed, parked>>,
           \A u \in Tasks \ {t} : woken'[u] = woken[u] /\ back'[u] = back[u],
           closed /\ Deaf(t)' /\ ~woken'[t] => Deaf(t) /\ ~woken[t],
           pc[t] \notin {"wake", "wake_receivers", "wake_senders"}
    PROVE  CloseInv'
<1>1. \A u \in Tasks : Listed(u)' <=> Listed(u)
  BY DEF Listed, Own
<1>2. ASSUME NEW u \in Tasks, closed, Deaf(u)', ~woken'[u]
      PROVE  Deaf(u) /\ ~woken[u]
  BY <1>2 DEF Deaf, OthersStay
<1>3. ASSUME NEW c \in Tasks, NEW side, Draining(c, side)
      PROVE  Draining(c, side)'
  BY <1>3 DEF Draining, OthersStay
<1>4. \A u \in Tasks : Own(u)' = Own(u)
  BY DEF Own
<1>5. QED
  BY <1>1, <1>2, <1>3, <1>4 DEF CloseInv

\* A task that takes its own entry back and does not go to sleep.
LEMMA EntryBackCloses ==
    ASSUME Typed, EntryInv, CloseInv, NEW t \in Tasks,
           SetParked(Own(t), RemoveFirst(parked[Own(t)], t)),
           id' = [id EXCEPT ![t] = FALSE],
           UNCHANGED <<closed, back>>, OthersStay(t), ~Deaf(t)',
           \A u \in Tasks \ {t} : woken'[u] = woken[u],
           pc[t] \notin {"wake", "wake_receivers", "wake_senders"}
    PROVE  CloseInv'
<1>1. \A u \in Tasks \ {t} : Listed(u)' <=> Listed(u)
  BY OwnEntryRemoved
<1>2. ASSUME NEW u \in Tasks, Deaf(u)' PROVE u # t /\ Deaf(u)
  BY <1>2 DEF Deaf, OthersStay
<1>3. ASSUME NEW c \in Tasks, NEW side, Draining(c, side)
      PROVE  Draining(c, side)'
  BY <1>3 DEF Draining, OthersStay
<1>4. \A u \in Tasks : Own(u)' = Own(u)
  BY DEF Own
<1>5. QED
  BY <1>1, <1>2, <1>3, <1>4 DEF CloseInv

\* A notification that is not the draining of a side, or that drains it.
LEMMA NotificationCloses ==
    ASSUME Typed, EntryInv, CloseInv, NEW t \in Tasks, NEW from,
           NEW side \in Sides,
           NEW then \in {"idle", "gone", "unregister", "wake_senders"},
           NotifyOne(t, from, side, then) \/ NotifyAll(t, from, side, then),
           \/ from \notin {"wake", "wake_receivers", "wake_senders"}
           \/ /\ from = "wake_senders" /\ side = "send"
              /\ NotifyAll(t, from, side, then)
           \/ /\ from = "wake_receivers" /\ side = "recv"
              /\ then = "wake_senders" /\ NotifyAll(t, from, side, then)
    PROVE  CloseInv'
<1>1. /\ OthersStay(t) /\ UNCHANGED <<closed, woken>> /\ pc[t] = from
      /\ \/ pc'[t] = "wake" /\ back'[t] = then
         \/ pc'[t] = then
      /\ \A u \in Tasks \ {t} : back'[u] = back[u]
  BY DEF NotifyOne, NotifyAll, TakeOut, Go, GoAs, OthersStay, listFrame,
         Typed, Types
<1>2. ASSUME NEW u \in Tasks, Listed(u)' PROVE Listed(u)
  <2>1. CASE Own(u) = side
    BY <1>2, <2>1, EntriesTaken DEF Listed, Own
  <2>2. CASE Own(u) # side
    BY <1>2, <2>2, OtherListStays, SidesOf DEF Listed, Own
  <2>3. QED
    BY <2>1, <2>2
<1>3. ASSUME NEW u \in Tasks, Deaf(u)', ~woken'[u] PROVE Deaf(u) /\ ~woken[u]
  BY <1>1, <1>3 DEF Deaf, OthersStay
<1>4. NotifyAll(t, from, side, then)
        => \A u \in Tasks : Own(u) = side => ~Listed(u)'
  <2>1. NotifyAll(t, from, side, then) => parked'[side] = <<>>
    BY DEF NotifyAll, SetParked, Typed, Types
  <2>2. QED
    BY <2>1, EmptyList DEF Listed, Own
<1>5. ASSUME NEW c \in Tasks, NEW u \in Tasks, Draining(c, Own(u)), Listed(u)'
      PROVE  Draining(c, Own(u))'
  <2>1. CASE c # t
    BY <1>1, <1>5, <2>1 DEF Draining, OthersStay, Own
  <2>2. CASE c = t
    <3>1. from \in {"wake", "wake_receivers", "wake_senders"}
      BY <1>1, <1>5, <2>2 DEF Draining
    <3>2. Own(u) # side
      BY <1>4, <1>5, <3>1
    <3>3. side = "recv" /\ from = "wake_receivers" /\ Own(u) = "send"
      BY <1>1, <1>5, <2>2, <3>1, <3>2, SidesOf DEF Draining, Sides
    <3>4. QED
      BY <1>1, <2>2, <3>1, <3>3 DEF Draining, Own
  <2>3. QED
    BY <2>1, <2>2
<1>6. \A u \in Tasks : Own(u)' = Own(u)
  BY DEF Own
<1>7. QED
  BY <1>1, <1>2, <1>3, <1>5, <1>6 DEF CloseInv

LEMMA BeginKeepsClosing ==
    ASSUME Typed, OperationInv, EntryInv, CloseInv, NEW t \in Tasks, Begin(t)
    PROVE  CloseInv'
<1> /\ DOMAIN pc = Tasks /\ DOMAIN op = Tasks /\ DOMAIN woken = Tasks
    /\ woken \in [Tasks -> BOOLEAN]
  BY DEF Typed, Types
<1> USE DEF Go, GoAs, beginFrame, OthersStay, Deaf, flagVars, OperationInv,
            AttemptPCs
<1>1. CASE StartTry(t)
  BY <1>1, OneTaskCloses DEF StartTry, Attempt
<1>2. CASE StartFuture(t)
  BY <1>2, OneTaskCloses DEF StartFuture
<1>3. CASE Poll(t)
  <2>1. /\ OthersStay(t) /\ pc[t] = "pending" /\ ~Deaf(t)'
        /\ \A u \in Tasks \ {t} : woken'[u] = woken[u]
    BY <1>3 DEF Poll, GoAs, OthersStay, Deaf, Attempt
  <2>2. QED
    BY <1>3, <2>1, EntryBackCloses DEF Poll, beginFrame
<1>4. CASE Cancel(t)
  BY <1>4, OneTaskCloses DEF Cancel
<1>5. CASE StartClose(t)
  BY <1>5, OneTaskCloses DEF StartClose
<1>6. CASE Clone(t)
  BY <1>6, OneTaskCloses DEF Clone
<1>7. CASE DropHandle(t)
  BY <1>7, OneTaskCloses DEF DropHandle
<1>8. QED
  BY <1>1, <1>2, <1>3, <1>4, <1>5, <1>6, <1>7 DEF Begin

LEMMA SendKeepsClosing ==
    ASSUME Typed, OperationInv, EntryInv, CloseInv, NEW s \in Senders,
           SendStep(s)
    PROVE  CloseInv'
<1> s \in Tasks
  BY DEF Tasks
<1> /\ DOMAIN pc = Tasks /\ DOMAIN op = Tasks /\ DOMAIN woken = Tasks
    /\ woken \in [Tasks -> BOOLEAN]
  BY DEF Typed, Types
<1> USE DEF Go, GoAs, sendFrame, OthersStay, Deaf, flagVars, OperationInv,
            AttemptPCs
<1>1. CASE CheckClosed(s)
  BY <1>1, OneTaskCloses DEF CheckClosed, AfterClosed
<1>2. CASE ReportFull(s)
  BY <1>2, OneTaskCloses DEF ReportFull
<1>3. CASE Claim(s)
  BY <1>3, OneTaskCloses DEF Claim
<1>4. CASE SampleReceivers(s)
  BY <1>4, OneTaskCloses DEF SampleReceivers
<1>5. CASE Publish(s)
  BY <1>5, OneTaskCloses DEF Publish, AfterSuccess
<1>6. CASE ParkSender(s)
  BY <1>6, OneTaskCloses DEF ParkSender
<1>7. QED
  BY <1>1, <1>2, <1>3, <1>4, <1>5, <1>6 DEF SendStep

LEMMA RecvKeepsClosing ==
    ASSUME Typed, OperationInv, EntryInv, CloseInv, NEW r \in Receivers,
           RecvStep(r)
    PROVE  CloseInv'
<1> r \in Tasks
  BY DEF Tasks
<1> /\ DOMAIN pc = Tasks /\ DOMAIN op = Tasks /\ DOMAIN woken = Tasks
    /\ woken \in [Tasks -> BOOLEAN]
  BY DEF Typed, Types
<1> USE DEF Go, GoAs, recvFrame, OthersStay, Deaf, flagVars, OperationInv,
            AttemptPCs
<1>1. CASE Take(r)
  BY <1>1, OneTaskCloses DEF Take
<1>2. CASE SampleSenders(r)
  BY <1>2, OneTaskCloses DEF SampleSenders
<1>3. CASE FinishPop(r)
  BY <1>3, OneTaskCloses DEF FinishPop, AfterSuccess
<1>4. CASE PopNone(r)
  BY <1>4, OneTaskCloses DEF PopNone
<1>5. CASE LoadClosed(r)
  BY <1>5, OneTaskCloses DEF LoadClosed
<1>6. CASE CheckIndices(r)
  BY <1>6, OneTaskCloses DEF CheckIndices, AfterClosed, ForgetSnapshot
<1>7. CASE FindBusy(r)
  BY <1>7, OneTaskCloses DEF FindBusy
<1>8. CASE TakeSnapshot(r)
  BY <1>8, OneTaskCloses DEF TakeSnapshot
<1>9. CASE CheckClaims(r)
  BY <1>9, OneTaskCloses DEF CheckClaims, ForgetSnapshot
<1>10. CASE FindClaims(r)
  BY <1>10, OneTaskCloses DEF FindClaims
<1>11. CASE Snooze(r)
  BY <1>11, OneTaskCloses DEF Snooze
<1>12. CASE Yield(r)
  BY <1>12, OneTaskCloses DEF Yield, ForgetSnapshot
<1>13. QED
  BY <1>1, <1>2, <1>3, <1>4, <1>5, <1>6, <1>7, <1>8, <1>9, <1>10, <1>11, <1>12
     DEF RecvStep

LEMMA ListKeepsClosing ==
    ASSUME Typed, OperationInv, EntryInv, CloseInv, NEW t \in Tasks,
           ListStep(t)
    PROVE  CloseInv'
<1> /\ DOMAIN pc = Tasks /\ DOMAIN op = Tasks /\ DOMAIN woken = Tasks
    /\ woken \in [Tasks -> BOOLEAN]
  BY DEF Typed, Types
<1> USE DEF Go, GoAs, listFrame, OthersStay, Deaf, flagVars, OperationInv,
            AttemptPCs
<1>1. CASE Register(t)
  <2> DEFINE list == Append(parked[Own(t)], t)
  <2>1. /\ OthersStay(t) /\ pc[t] = "register" /\ pc'[t] = "parking"
        /\ parked' = [parked EXCEPT ![Own(t)] = list]
        /\ UNCHANGED <<closed, back, woken>>
    BY <1>1 DEF Register, SetParked, GoAs, OthersStay, flagVars
  <2>2. \A side \in Sides \ {Own(t)} : parked'[side] = parked[side]
    BY <2>1 DEF Typed, Types
  <2>3. t \notin ToSet(parked[Own(t)])
    BY <1>1 DEF Register, GoAs, EntryInv, Listed, OperationInv
  <2>4. ToSet(list) = ToSet(parked[Own(t)]) \cup {t}
    BY <2>3, AddedEntry, SidesOf DEF Typed, Types, EntryInv
  <2>5. ToSet(parked'[Own(t)]) = ToSet(parked[Own(t)]) \cup {t}
    BY <2>1, <2>4, SidesOf DEF Typed, Types
  <2>6. ASSUME NEW u \in Tasks, u # t PROVE Listed(u)' <=> Listed(u)
    BY <2>2, <2>5, <2>6, SidesOf DEF Listed, Own
  <2>7. ASSUME NEW u \in Tasks, Deaf(u)' PROVE u # t /\ Deaf(u)
    BY <2>1, <2>7 DEF Deaf, OthersStay
  <2>8. ASSUME NEW c \in Tasks, NEW side, Draining(c, side)
        PROVE  Draining(c, side)'
    BY <2>1, <2>8 DEF Draining, OthersStay
  <2>9. \A u \in Tasks : Own(u)' = Own(u)
    BY DEF Own
  <2>10. QED
    BY <2>1, <2>6, <2>7, <2>8, <2>9 DEF CloseInv
<1>2. CASE Discard(t)
  <2>1. OthersStay(t) /\ pc[t] = "discard" /\ ~Deaf(t)'
    BY <1>2 DEF Discard, Go, GoAs, OthersStay, Deaf
  <2>2. QED
    BY <1>2, <2>1, EntryBackCloses DEF Discard, listFrame
<1>3. CASE Unregister(t)
  <2>1. OthersStay(t) /\ pc[t] = "unregister" /\ ~Deaf(t)'
    BY <1>3 DEF Unregister, Go, GoAs, OthersStay, Deaf
  <2>2. QED
    BY <1>3, <2>1, EntryBackCloses DEF Unregister, listFrame
<1>4. CASE Notify(t)
  <2>1. AfterSuccess(t) \in {"idle", "unregister"} /\ Other(t) \in Sides
    BY SidesOf DEF AfterSuccess
  <2>2. QED
    BY <1>4, <2>1, NotificationCloses DEF Notify
<1>5. CASE Forward(t)
  BY <1>5, SidesOf, NotificationCloses DEF Forward
<1>6. CASE Wake(t)
  <2>1. PICK w \in targets[t] :
          /\ woken'[w] <=> pc[w] \notin {"idle", "gone"}
          /\ \A u \in Tasks \ {w} : woken'[u] = woken[u]
    BY <1>6, OneIsWoken
  <2>2. /\ pc[t] = "wake" /\ OthersStay(t) /\ UNCHANGED <<parked, closed>>
        /\ \/ pc'[t] = back[t]
           \/ pc'[t] = "wake" /\ back'[t] = back[t]
        /\ \A u \in Tasks \ {t} : back'[u] = back[u]
    BY <1>6 DEF Wake, Go, GoAs, OthersStay, listFrame, Typed, Types
  <2>3. back[t] \in {"idle", "gone", "unregister", "wake_senders", "batch"}
    BY DEF Typed, Types
  <2>4. ASSUME NEW u \in Tasks, Deaf(u)', ~woken'[u] PROVE Deaf(u) /\ ~woken[u]
    BY <2>1, <2>2, <2>3, <2>4 DEF Deaf, OthersStay
  <2>5. \A u \in Tasks : Listed(u)' <=> Listed(u)
    BY <2>2 DEF Listed, Own
  <2>6. ASSUME NEW c \in Tasks, NEW side, Draining(c, side)
        PROVE  Draining(c, side)'
    BY <2>2, <2>6 DEF Draining, OthersStay
  <2>7. \A u \in Tasks : Own(u)' = Own(u)
    BY DEF Own
  <2>8. QED
    BY <2>2, <2>4, <2>5, <2>6, <2>7 DEF CloseInv
<1>7. CASE SwapClosed(t)
  <2>1. /\ pc[t] = "swap" /\ OthersStay(t)
        /\ pc'[t] = (IF closed THEN AfterClose(t) ELSE "wake_receivers")
        /\ UNCHANGED <<parked, back, woken>>
    BY <1>7 DEF SwapClosed, Go, GoAs, OthersStay
  <2>2. CASE closed
    <3>1. ~Deaf(t)' /\ closed'
      BY <1>7, <2>1, <2>2 DEF Deaf, AfterClose, SwapClosed
    <3>2. QED
      BY <2>1, <2>2, <3>1, OneTaskCloses
  <2>3. CASE ~closed
    <3>1. \A u \in Tasks : Draining(t, Own(u))'
      BY <2>1, <2>3 DEF Draining
    <3>2. QED
      BY <3>1 DEF CloseInv, Own
  <2>4. QED
    BY <2>2, <2>3
<1>8. CASE WakeReceivers(t)
  BY <1>8, NotificationCloses DEF WakeReceivers, Sides
<1>9. CASE WakeSenders(t)
  <2>1. AfterClose(t) \in {"idle", "gone"}
    BY DEF AfterClose
  <2>2. QED
    BY <1>9, <2>1, NotificationCloses DEF WakeSenders, Sides
<1>10. QED
  BY <1>1, <1>2, <1>3, <1>4, <1>5, <1>6, <1>7, <1>8, <1>9 DEF ListStep

----------------------------------------------------------------------------
(* The invariant, and what follows from it.                                 *)

\* The types of Channel are among these.
LEMMA ChannelTypes == TypeOK => Typed
BY DEF TypeOK, Typed, Types

LEMMA NewIsWellFormed ==
    ASSUME NEW s \in Senders, NEW r \in Receivers, New({s, r})
    PROVE  TypeOK /\ WakeupInv
<1>1. {s, r} \cap Senders = {s} /\ {s, r} \cap Receivers = {r}
  <2>1. s \notin Receivers /\ r \notin Senders
    BY ChannelAssumption
  <2>2. QED
    BY <2>1
<1>2. /\ IsFiniteSet({s}) /\ Cardinality({s}) = 1
      /\ IsFiniteSet({r}) /\ Cardinality({r}) = 1
  BY FS_Singleton
<1>3. handles = [send |-> 1, recv |-> 1]
  BY <1>1, <1>2 DEF New
<1>4. pc = [t \in Tasks |-> IF t \in {s, r} THEN "idle" ELSE "gone"]
  BY DEF New
<1>5. op = [t \in Tasks |-> "none"] /\ id = [t \in Tasks |-> FALSE]
  BY DEF New
<1>6. parked = [side \in Sides |-> <<>>] /\ ToSet(<<>>) = {}
  BY EmptyList DEF New
<1>7. TypeOK
  <2>1. handles \in [Sides -> Nat]
    BY <1>3 DEF Sides
  <2>2. <<>> \in Seq(Tasks) /\ <<>> \in Seq(Senders \cup {Ready}) /\ Len(<<>>)
     = 0
    OBVIOUS
  <2>3. /\ items = <<>> /\ undrained = 0 /\ moving = NoTask /\ closed = FALSE
        /\ known = [t \in Tasks |-> {}] /\ wake = [t \in Tasks |-> FALSE]
        /\ targets = [t \in Tasks |-> {}] /\ back = [t \in Tasks |-> "idle"]
        /\ woken = [t \in Tasks |-> FALSE]
        /\ ahead = [q \in Receivers |-> 0] /\ snoozes = [q \in Receivers |-> 0]
    BY DEF New
  <2>4. 0 \in 0..SNOOZE_LIMIT /\ 0 \in 0..0
    BY ChannelAssumption
  <2>5. QED
    BY <2>1, <2>2, <2>3, <2>4, <1>4, <1>5, <1>6 DEF TypeOK, Types
<1>8. OperationInv
  BY <1>4, <1>5 DEF OperationInv, AttemptPCs, ClosePCs
<1>9. HolderInv
  <2>1. Holders("send") = {s} /\ Holders("recv") = {r}
    BY <1>1, <1>4, <1>5, ChannelAssumption DEF Holders, Own, Tasks
  <2>2. QED
    BY <2>1, <1>2, <1>3 DEF HolderInv, Sides
<1>10. EntryInv
  <2>1. \A side \in Sides : parked[side] = <<>> /\ ToSet(parked[side]) = {}
    BY <1>6
  <2>2. \A side \in Sides : IsInjective(parked[side])
    BY <2>1, EmptyList
  <2>3. known = [t \in Tasks |-> {}]
    BY DEF New
  <2>4. QED
    BY <2>1, <2>2, <2>3, SidesOf DEF EntryInv, Listed
<1>11. WakeInv
  <2>1. targets = [t \in Tasks |-> {}]
    BY DEF New
  <2>2. \A t \in Tasks : ~Retrying(t)
    BY <1>4 DEF Retrying
  <2>3. QED
    BY <2>1, <2>2, FS_EmptySet DEF WakeInv
<1>12. ServeInv
  BY DEF New, ServeInv
<1>13. CloseInv
  BY DEF New, CloseInv
<1>14. QED
  BY <1>7, <1>8, <1>9, <1>10, <1>11, <1>12, <1>13, ChannelTypes DEF WakeupInv

LEMMA BeginKeepsWakeups ==
    ASSUME WakeupInv, NEW t \in Tasks, Begin(t)
    PROVE  WakeupInv'
<1>1. HolderInv' /\ handles' \in [Sides -> Nat]
  BY BeginKeepsHolders DEF WakeupInv
<1>2. Typed'
  BY <1>1, BeginKeepsTypes DEF WakeupInv, Typed
<1>3. QED
  BY <1>1, <1>2, BeginKeepsOperations, BeginKeepsEntries, BeginKeepsWakers,
     BeginKeepsServing, BeginKeepsClosing DEF WakeupInv

LEMMA SendKeepsWakeups ==
    ASSUME WakeupInv, NEW s \in Senders, SendStep(s)
    PROVE  WakeupInv'
BY SendKeepsTypes, SendKeepsOperations, SendKeepsHolders, SendKeepsEntries,
   SendKeepsWakers, SendKeepsServing, SendKeepsClosing DEF WakeupInv, Typed

LEMMA RecvKeepsWakeups ==
    ASSUME WakeupInv, NEW r \in Receivers, RecvStep(r)
    PROVE  WakeupInv'
BY RecvKeepsTypes, RecvKeepsOperations, RecvKeepsHolders, RecvKeepsEntries,
   RecvKeepsWakers, RecvKeepsServing, RecvKeepsClosing DEF WakeupInv, Typed

LEMMA ListKeepsWakeups ==
    ASSUME WakeupInv, NEW t \in Tasks, ListStep(t)
    PROVE  WakeupInv'
<1>1. {"batch"} \subseteq BatchPCs
  BY DEF BatchPCs
<1>2. Typed'
  BY <1>1, ListKeepsTypes DEF WakeupInv, Typed
<1>3. QED
  BY <1>2, ListKeepsOperations, ListKeepsHolders, ListKeepsEntries,
     ListKeepsWakers, ListKeepsServing, ListKeepsClosing DEF WakeupInv

LEMMA StutterKeepsWakeups ==
    ASSUME WakeupInv, UNCHANGED vars
    PROVE  WakeupInv'
<1> USE DEF vars, queueVars, flagVars, taskVars, sampleVars
<1>1. Typed'
  BY DEF WakeupInv, Typed, Types
<1>2. OperationInv'
  BY DEF WakeupInv, OperationInv
<1>3. HolderInv'
  <2>1. \A side \in Sides : Holders(side)' = Holders(side)
    BY DEF Holders, Own
  <2>2. QED
    BY <2>1 DEF WakeupInv, HolderInv
<1>4. EntryInv' /\ WakeInv'
  BY DEF WakeupInv, EntryInv, WakeInv, Listed, Retrying, Own, Other
<1>5. ServeInv'
  BY DEF WakeupInv, ServeInv, Exposed, Announcing, Listed, Own
<1>6. CloseInv'
  BY DEF WakeupInv, CloseInv, Deaf, Draining, Listed, Own
<1>7. QED
  BY <1>1, <1>2, <1>3, <1>4, <1>5, <1>6 DEF WakeupInv

\* The inductive invariant of the channel layer, for any number of tasks, any
\* capacity and any budget of snoozes.
THEOREM WakeupInvariant == Spec => []WakeupInv
<1>1. Init => WakeupInv
  BY NewIsWellFormed DEF Init
<1>2. WakeupInv /\ [Next]_vars => WakeupInv'
  BY BeginKeepsWakeups, SendKeepsWakeups, RecvKeepsWakeups, ListKeepsWakeups,
     StutterKeepsWakeups DEF Next, Step
<1>3. QED
  BY <1>1, <1>2, PTL DEF Spec

\* Types hold: no counter goes below zero, no snapshot is ahead of the queue.
THEOREM TypesHold == Spec => []TypeOK
<1>1. Init => TypeOK
  BY NewIsWellFormed DEF Init
<1>2. TypeOK /\ WakeupInv /\ WakeupInv' /\ [Next]_vars => TypeOK'
  <2> SUFFICES ASSUME TypeOK, WakeupInv, WakeupInv', [Next]_vars PROVE TypeOK'
    OBVIOUS
  <2>1. CASE UNCHANGED vars
    BY <2>1 DEF vars, queueVars, flagVars, taskVars, sampleVars, TypeOK, Types
  <2>2. ASSUME NEW t \in Tasks, Begin(t) \/ Step(t) PROVE Types({}, {}, {})'
    <3>1. Types({}, {}, {}) /\ EntryInv
      BY DEF TypeOK, WakeupInv
    <3>2. handles' \in [Sides -> Nat]
      BY DEF WakeupInv, Typed, Types
    <3>3. QED
      BY <2>2, <3>1, <3>2, BeginKeepsTypes, SendKeepsTypes, RecvKeepsTypes,
         ListKeepsTypes DEF Step
  <2>3. QED
    BY <2>1, <2>2 DEF Next, TypeOK
<1>3. QED
  BY <1>1, <1>2, WakeupInvariant, PTL DEF Spec

LEMMA EntriesOwned ==
    ASSUME WakeupInv
    PROVE  EntriesAreOwned
<1>1. \A t \in Tasks, side \in Sides :
        Contains(parked[side], t) <=> t \in ToSet(parked[side])
  BY DEF WakeupInv, Typed, Types, Contains, ToSet
<1>2. QED
  BY <1>1, SidesOf DEF WakeupInv, EntryInv, OperationInv, EntriesAreOwned, Listed

\* No future that has completed, was dropped or is being polled anew has an
\* entry in a list, and no task has two (WaiterList::register and unregister,
\* lib.rs:236-285).
THEOREM EntryOwnership == Spec => []EntriesAreOwned
BY EntriesOwned, WakeupInvariant, PTL

\* At rest, who is asleep is in a list.
LEMMA SleepersAreListed ==
    ASSUME WakeupInv, EveryoneRests, NEW t \in Tasks, Asleep(t)
    PROVE  Listed(t)
<1>1. Retrying(t) /\ ~woken[t]
  BY DEF Asleep, Retrying
<1>2. \A u \in Tasks : targets[u] = {}
  BY DEF WakeupInv, WakeInv, EveryoneRests, Asleep
<1>3. QED
  BY <1>1, <1>2 DEF WakeupInv, WakeInv

LEMMA SomebodyServed ==
    ASSUME WakeupInv
    PROVE  SomeReceiverServed
<1> SUFFICES ASSUME EveryoneRests, \A r \in Receivers : Asleep(r), items # <<>>
             PROVE  FALSE
  BY DEF SomeReceiverServed
<1>1. \A t \in Receivers \cup Senders : t \in Tasks
  BY DEF Tasks
<1>2. ASSUME NEW r \in Receivers PROVE Exposed(r)
  BY <1>1, SleepersAreListed DEF Asleep, Exposed
<1>3. ASSUME NEW s \in Senders PROVE ~Announcing(s)
  BY <1>1 DEF EveryoneRests, Asleep, Announcing
<1>4. QED
  BY <1>2, <1>3 DEF WakeupInv, ServeInv

\* However many receivers there are and however their polls, cancellations and
\* the sends interleave, they are never all left asleep beside a value
\* (Recv::poll, lib.rs:831-885).
THEOREM ReceiverNotForgotten == Spec => []SomeReceiverServed
BY SomebodyServed, WakeupInvariant, PTL

LEMMA NobodyDeaf ==
    ASSUME WakeupInv
    PROVE  CloseWakesAll
<1> SUFFICES ASSUME EveryoneRests, closed, NEW t \in Tasks, Asleep(t)
             PROVE  FALSE
  BY DEF CloseWakesAll
<1>1. Deaf(t) /\ ~woken[t] /\ Listed(t)
  BY SleepersAreListed DEF Asleep, Deaf
<1>2. \A c \in Tasks : ~Draining(c, Own(t))
  BY DEF EveryoneRests, Asleep, Draining
<1>3. QED
  BY <1>1, <1>2 DEF WakeupInv, CloseInv

\* Nobody sleeps through a close, on either side, however the swap and the two
\* drains interleave with registrations (Inner::close, lib.rs:371-381).
THEOREM CloseIsHeard == Spec => []CloseWakesAll
BY NobodyDeaf, WakeupInvariant, PTL

----------------------------------------------------------------------------
(* Free slots are looked after.                                             *)

\* The senders and the receivers that look after free slots hold handles.
LEMMA FinitelyMany ==
    ASSUME WakeupInv, WakeupInv', NEW b
    PROVE  /\ /\ IsFiniteSet(Attempting) /\ IsFiniteSet(Absorbed)
              /\ IsFiniteSet(Owing(b))
           /\ /\ IsFiniteSet(Attempting') /\ IsFiniteSet(Absorbed')
              /\ IsFiniteSet(Owing(b)')
<1>1. /\ \A s \in Senders : s \in Tasks /\ Own(s) = "send"
      /\ \A r \in Receivers : r \in Tasks /\ Own(r) = "recv"
  BY ChannelAssumption DEF Tasks, Own
<1>2. /\ IsFiniteSet(Holders("send")) /\ IsFiniteSet(Holders("send")')
      /\ IsFiniteSet(Holders("recv")) /\ IsFiniteSet(Holders("recv")')
  BY DEF WakeupInv, HolderInv, Sides
<1>3. /\ Attempting \subseteq Holders("send")
      /\ Absorbed \subseteq Holders("send")
      /\ Owing(b) \subseteq Holders("recv")
  BY <1>1 DEF Attempting, Absorbed, Owing, Owes, Holders, WakeupInv,
              OperationInv, AttemptPCs, ClosePCs
<1>4. /\ Attempting' \subseteq Holders("send")'
      /\ Absorbed' \subseteq Holders("send")'
      /\ Owing(b)' \subseteq Holders("recv")'
  BY <1>1 DEF Attempting, Absorbed, Owing, Owes, Holders, WakeupInv,
              OperationInv, AttemptPCs, ClosePCs
<1>5. QED
  BY <1>2, <1>3, <1>4, FS_Subset

\* What a step has to show: the watchers of who sleeps grow with the room.
LEMMA SlotsMoved ==
    ASSUME WakeupInv, WakeupInv', NEW spare \in [Senders -> Nat],
           SlotsWatched(spare), closed => closed',
           \A b \in Senders : Bounded /\ ~closed' /\ SleepsListed(b)' =>
             /\ SleepsListed(b)
             /\ Len(items) + Watchers(b) <= Len(items') + Watchers(b)'
    PROVE  SlotsWatched(spare)'
<1> SUFFICES ASSUME Bounded, ~closed', NEW b \in Senders, SleepsListed(b)'
             PROVE  Capacity - Len(items') <= Watchers(b)' + spare[b]
  BY DEF SlotsWatched, Bounded
<1>1. /\ Cardinality(Attempting) \in Nat /\ Cardinality(Attempting') \in Nat
      /\ Cardinality(Absorbed) \in Nat /\ Cardinality(Absorbed') \in Nat
      /\ Cardinality(Owing(b)) \in Nat /\ Cardinality(Owing(b)') \in Nat
  BY FinitelyMany, FS_CardinalityType
<1>2. Watchers(b) \in Nat /\ Watchers(b)' \in Nat
  <2>1. \A i, j, k \in Nat : i + j + k \in Nat
    OBVIOUS
  <2>2. QED
    BY <1>1, <2>1 DEF Watchers
<1>3. Len(items) \in Nat /\ Len(items') \in Nat /\ Capacity \in Int
  BY ChannelAssumption DEF WakeupInv, Typed, Types, UNBOUNDED
<1>4. Capacity - Len(items) <= Watchers(b) + spare[b]
  BY DEF SlotsWatched
<1>5. QED
  BY <1>2, <1>3, <1>4

\* A step after which nobody looks after less, and nobody else sleeps.
LEMMA SlotsKept ==
    ASSUME WakeupInv, WakeupInv', NEW spare \in [Senders -> Nat],
           SlotsWatched(spare), closed => closed',
           Len(items') >= Len(items),
           Attempting \subseteq Attempting', Absorbed \subseteq Absorbed',
           \A b \in Senders : SleepsListed(b)' =>
             SleepsListed(b) /\ Owing(b) \subseteq Owing(b)'
    PROVE  SlotsWatched(spare)'
<1>1. ASSUME NEW b \in Senders, SleepsListed(b)'
      PROVE  Len(items) + Watchers(b) <= Len(items') + Watchers(b)'
  <2>1. /\ Cardinality(Attempting) <= Cardinality(Attempting')
        /\ Cardinality(Absorbed) <= Cardinality(Absorbed')
        /\ Cardinality(Owing(b)) <= Cardinality(Owing(b)')
    BY <1>1, FinitelyMany, FS_Subset
  <2>2. /\ Cardinality(Attempting) \in Nat /\ Cardinality(Attempting') \in Nat
        /\ Cardinality(Absorbed) \in Nat /\ Cardinality(Absorbed') \in Nat
        /\ Cardinality(Owing(b)) \in Nat /\ Cardinality(Owing(b)') \in Nat
    BY FinitelyMany, FS_CardinalityType
  <2>3. Len(items) \in Nat /\ Len(items') \in Nat
    BY DEF WakeupInv, Typed, Types
  <2>4. QED
    BY <2>1, <2>2, <2>3 DEF Watchers
<1>2. QED
  BY <1>1, SlotsMoved

\* A step of one task that leaves the list of senders and their ids alone.
LEMMA OneTaskSlots ==
    ASSUME WakeupInv, WakeupInv', NEW spare \in [Senders -> Nat],
           SlotsWatched(spare), NEW t \in Tasks, OthersStay(t),
           closed => closed', Len(items') >= Len(items),
           parked'["send"] = parked["send"],
           \A s \in Senders : id'[s] = id[s],
           \A r \in Receivers \ {t} : /\ wake'[r] = wake[r]
                                      /\ known'[r] = known[r],
           t \in Senders =>
             /\ pc[t] \in {"check", "claim"} => pc'[t] \in {"check", "claim"}
             /\ pc[t] # "forward"
             /\ pc'[t] = "pending" => pc[t] = "pending" \/ ~id[t],
           t \in Receivers => \A b \in Senders : Owes(t, b) => Owes(t, b)'
    PROVE  SlotsWatched(spare)'
<1>1. ASSUME NEW s \in Senders
      PROVE  /\ s \in Tasks /\ s \notin Receivers
             /\ Listed(s)' <=> Listed(s)
             /\ Listed(s) => id[s]
  BY ChannelAssumption DEF Tasks, Listed, Own, WakeupInv, EntryInv
<1>2. Attempting \subseteq Attempting'
  BY <1>1 DEF Attempting, OthersStay
<1>3. Absorbed \subseteq Absorbed'
  BY <1>1 DEF Absorbed, OthersStay
<1>4. ASSUME NEW b \in Senders, SleepsListed(b)'
      PROVE  SleepsListed(b) /\ Owing(b) \subseteq Owing(b)'
  <2>1. SleepsListed(b)
    BY <1>1, <1>4 DEF SleepsListed, OthersStay
  <2>2. \A r \in Receivers : r \in Tasks /\ (Owes(r, b) => Owes(r, b)')
    BY DEF Owes, OthersStay, Tasks
  <2>3. QED
    BY <2>1, <2>2 DEF Owing
<1>5. QED
  BY <1>2, <1>3, <1>4, SlotsKept

\* A sender that takes its own entry back changes nothing for another sleeper.
LEMMA SenderEntryBack ==
    ASSUME WakeupInv, WakeupInv', NEW t \in Senders, OthersStay(t),
           SetParked(Own(t), RemoveFirst(parked[Own(t)], t)),
           id' = [id EXCEPT ![t] = FALSE], UNCHANGED wake, pc'[t] # "pending"
    PROVE  /\ \A s \in Senders \ {t} : /\ Listed(s)' <=> Listed(s)
                                       /\ id'[s] = id[s]
           /\ ~id'[t]
           /\ \A b \in Senders : SleepsListed(b)' =>
                SleepsListed(b) /\ Owing(b) \subseteq Owing(b)'
<1>1. /\ \A s \in Senders : s \in Tasks /\ Own(s) = "send"
      /\ \A r \in Receivers : r \in Tasks /\ r # t /\ Other(r) = "send"
  BY ChannelAssumption DEF Tasks, Own, Other
<1>2. Typed /\ EntryInv
  BY DEF WakeupInv
<1>3. \A s \in Senders \ {t} : (Listed(s)' <=> Listed(s)) /\ id'[s] = id[s]
  BY <1>1, <1>2, OwnEntryRemoved DEF Typed, Types
<1>4. ~id'[t]
  BY <1>1, <1>2 DEF Typed, Types
<1>5. ASSUME NEW b \in Senders, SleepsListed(b)'
      PROVE  SleepsListed(b) /\ Owing(b) \subseteq Owing(b)'
  <2>1. b # t /\ SleepsListed(b)
    BY <1>1, <1>3, <1>5 DEF SleepsListed, OthersStay
  <2>2. ASSUME NEW r \in Receivers, b \in known[r] PROVE b \in known'[r]
    <3>1. b \in ToSet(parked'["send"])
      BY <1>1, <1>5 DEF SleepsListed, Listed
    <3>2. parked'["send"] = RemoveFirst(parked[Own(t)], t)
      BY <1>1, <1>2 DEF SetParked, Typed, Types, Sides
    <3>3. known'[r] = known[r] \cap ToSet(parked'["send"])
      BY <1>1, <3>2 DEF SetParked
    <3>4. QED
      BY <2>2, <3>1, <3>3
  <2>3. ASSUME NEW r \in Receivers, Owes(r, b) PROVE Owes(r, b)'
    BY <1>1, <2>2, <2>3 DEF Owes, OthersStay
  <2>4. QED
    BY <2>1, <2>3 DEF Owing
<1>6. QED
  BY <1>3, <1>4, <1>5

\* A receiver's entry is not in the list of senders.
LEMMA ReceiverEntryBack ==
    ASSUME WakeupInv, WakeupInv', NEW spare \in [Senders -> Nat],
           SlotsWatched(spare), NEW t \in Receivers, OthersStay(t),
           SetParked(Own(t), RemoveFirst(parked[Own(t)], t)),
           id' = [id EXCEPT ![t] = FALSE], UNCHANGED <<items, closed, wake>>,
           pc[t] \in {"pending", "discard", "unregister"}
    PROVE  SlotsWatched(spare)'
<1>1. t \in Tasks /\ Own(t) = "recv" /\ Other(t) = "send" /\ t \notin Senders
  BY ChannelAssumption DEF Tasks, Own, Other
<1>2. Typed /\ EntryInv
  BY DEF WakeupInv
<1>3. parked'["send"] = parked["send"]
  BY <1>1, <1>2, OwnEntryRemoved
<1>4. \A s \in Senders : id'[s] = id[s]
  BY <1>1, <1>2 DEF Typed, Types, Tasks
<1>5. \A r \in Receivers : r \in Tasks /\ Other(r) = "send"
  BY ChannelAssumption DEF Tasks, Other
<1>6. \A r \in Receivers : wake'[r] = wake[r] /\ known'[r] = known[r]
  BY <1>1, <1>5 DEF SetParked
<1>7. \A b \in Senders : ~Owes(t, b)
  BY DEF Owes
<1>8. Len(items') >= Len(items)
  BY <1>2 DEF Typed, Types
<1>9. QED
  BY <1>1, <1>3, <1>4, <1>6, <1>7, <1>8, OneTaskSlots

\* notify_one on the list of senders, by a receiver that owes it or by a sender
\* that passes on what it absorbed: for the one that notified, the head of the
\* list has absorbed a wake-up.
LEMMA OneSenderNotified ==
    ASSUME WakeupInv, WakeupInv', NEW spare \in [Senders -> Nat],
           SlotsWatched(spare), NEW t \in Tasks, NEW from,
           NEW then \in {"idle", "unregister"},
           NotifyOne(t, from, "send", then),
           \/ from = "notify" /\ t \in Receivers
           \/ from = "forward" /\ t \in Senders
    PROVE  SlotsWatched(spare)'
<1>1. /\ \A s \in Senders : s \in Tasks /\ Own(s) = "send" /\ s \notin Receivers
      /\ \A r \in Receivers : /\ r \in Tasks
                               /\ Own(r) = "recv" /\ Other(r) = "send"
  BY ChannelAssumption DEF Tasks, Own, Other
<1>2. Typed /\ EntryInv /\ OperationInv
  BY DEF WakeupInv
<1>3. /\ pc[t] = from /\ pc'[t] \in {"wake", "idle", "unregister"}
      /\ OthersStay(t) /\ UNCHANGED <<items, closed, wake>>
  BY <1>2 DEF NotifyOne, TakeOut, Go, GoAs, OthersStay, listFrame, queueVars,
              Typed, Types
<1>4. /\ ToSet(parked'["send"]) = ToSet(parked["send"]) \ targets'[t]
      /\ targets'[t] \subseteq ToSet(parked["send"])
      /\ parked["send"] # <<>> => targets'[t] # {}
      /\ id' = id
  BY <1>2, EntriesTaken DEF Sides
<1>5. Attempting \subseteq Attempting'
  BY <1>1, <1>3 DEF Attempting, OthersStay
<1>6. ASSUME NEW b \in Senders, SleepsListed(b)'
      PROVE  SleepsListed(b) /\ Watchers(b) <= Watchers(b)'
  <2>1. b \in ToSet(parked'["send"]) /\ b \in ToSet(parked["send"])
    BY <1>1, <1>4, <1>6 DEF SleepsListed, Listed
  <2>2. SleepsListed(b)
    BY <1>1, <1>3, <1>6, <2>1 DEF SleepsListed, Listed, OthersStay
  <2>3. parked["send"] # <<>>
    BY <2>1, EmptyList
  <2>4. PICK h \in targets'[t] : h \in ToSet(parked["send"])
    BY <2>3, <1>4
  <2>5. h \in Senders
    <3>1. h \in Tasks
      BY <2>4, <1>2, SomeEntry DEF Typed, Types, Sides
    <3>2. h \notin Receivers
      BY <2>4, <1>1, <1>2 DEF EntryInv
    <3>3. QED
      BY <3>1, <3>2 DEF Tasks
  <2>6. h \notin Absorbed
    BY <2>4, <2>5, <1>1, <1>2 DEF Absorbed, Listed, EntryInv, OperationInv
  <2>7. h # t /\ h \in Absorbed'
    <3>1. id[h] /\ ~Listed(h)'
      BY <2>4, <2>5, <1>1, <1>2, <1>4 DEF Listed, EntryInv
    <3>2. h # t
      BY <3>1, <2>5, <1>1, <1>2, <1>3 DEF OperationInv
    <3>3. QED
      BY <3>1, <3>2, <2>5, <1>4 DEF Absorbed
  <2>8. (Absorbed \ {t}) \cup {h} \subseteq Absorbed'
    <3>1. ASSUME NEW s \in Absorbed \ {t} PROVE s \in Absorbed'
      BY <3>1, <1>1, <1>3, <1>4 DEF Absorbed, Listed, OthersStay
    <3>2. QED
      BY <3>1, <2>7
  <2>9. Owing(b) \ {t} \subseteq Owing(b)'
    <3>1. ASSUME NEW r \in Receivers
          PROVE  known'[r] = known[r] \cap ToSet(parked'["send"])
      BY <1>1, <1>2 DEF NotifyOne, SetParked, Typed, Types, Sides
    <3>2. ASSUME NEW r \in Receivers \ {t}, Owes(r, b) PROVE Owes(r, b)'
      BY <3>1, <3>2, <2>1, <1>1, <1>3 DEF Owes, OthersStay
    <3>3. QED
      BY <3>2 DEF Owing
  <2>10. \/ t \in Owing(b) /\ t \notin Absorbed
         \/ t \in Absorbed /\ t \notin Owing(b)
    BY <1>1, <1>3 DEF Owing, Owes, Absorbed
  <2>11. /\ Cardinality(Attempting) <= Cardinality(Attempting')
         /\ Cardinality((Absorbed \ {t}) \cup {h}) <= Cardinality(Absorbed')
         /\ Cardinality(Owing(b) \ {t}) <= Cardinality(Owing(b)')
    BY <1>5, <2>8, <2>9, FinitelyMany, FS_Subset
  <2>12. /\ Cardinality(Owing(b) \ {t}) =
              IF t \in Owing(b) THEN Cardinality(Owing(b)) - 1
              ELSE Cardinality(Owing(b))
         /\ Cardinality(Absorbed \ {t}) =
              IF t \in Absorbed THEN Cardinality(Absorbed) - 1
              ELSE Cardinality(Absorbed)
         /\ IsFiniteSet(Absorbed \ {t})
    BY FinitelyMany, FS_RemoveElement
  <2>13. Cardinality((Absorbed \ {t}) \cup {h})
           = Cardinality(Absorbed \ {t}) + 1
    <3>1. h \notin Absorbed \ {t}
      BY <2>6
    <3>2. QED
      BY <3>1, <2>12, FS_AddElement
  <2>14. /\ Cardinality(Attempting) \in Nat /\ Cardinality(Attempting') \in Nat
         /\ Cardinality(Absorbed) \in Nat /\ Cardinality(Absorbed') \in Nat
         /\ Cardinality(Owing(b)) \in Nat /\ Cardinality(Owing(b)') \in Nat
    BY FinitelyMany, FS_CardinalityType
  <2>15. Watchers(b) <= Watchers(b)'
    BY <2>10, <2>11, <2>12, <2>13, <2>14 DEF Watchers
  <2>16. QED
    BY <2>2, <2>15
<1>7. ASSUME NEW b \in Senders
      PROVE  Watchers(b) \in Nat /\ Watchers(b)' \in Nat
  <2>1. /\ Cardinality(Attempting) \in Nat /\ Cardinality(Attempting') \in Nat
        /\ Cardinality(Absorbed) \in Nat /\ Cardinality(Absorbed') \in Nat
        /\ Cardinality(Owing(b)) \in Nat /\ Cardinality(Owing(b)') \in Nat
    BY FinitelyMany, FS_CardinalityType
  <2>2. QED
    BY <2>1 DEF Watchers
<1>8. Len(items) \in Nat /\ Len(items') = Len(items)
  BY <1>2, <1>3 DEF Typed, Types
<1>9. ASSUME NEW b \in Senders, SleepsListed(b)'
      PROVE  /\ SleepsListed(b)
             /\ Len(items) + Watchers(b) <= Len(items') + Watchers(b)'
  BY <1>6, <1>7, <1>8, <1>9
<1>10. QED
  BY <1>3, <1>9, SlotsMoved

\* A notification of receivers.
LEMMA ReceiversNotified ==
    ASSUME WakeupInv, WakeupInv', NEW spare \in [Senders -> Nat],
           SlotsWatched(spare), NEW t \in Tasks, NEW from,
           NEW then \in {"idle", "gone", "unregister", "wake_senders"},
           NotifyOne(t, from, "recv", then) \/ NotifyAll(t, from, "recv", then),
           \/ from = "notify" /\ t \in Senders
           \/ from = "forward" /\ t \in Receivers
           \/ from = "wake_receivers"
    PROVE  SlotsWatched(spare)'
<1>1. /\ t \in Receivers => t \notin Senders
      /\ \A r \in Receivers : r \in Tasks /\ Other(r) = "send"
  BY ChannelAssumption DEF Tasks, Other
<1>2. Typed /\ EntryInv
  BY DEF WakeupInv
<1>3. /\ pc[t] = from
      /\ pc'[t] \in {"wake", "idle", "gone", "unregister", "wake_senders"}
      /\ OthersStay(t) /\ UNCHANGED <<items, closed, wake>>
  BY <1>2 DEF NotifyOne, NotifyAll, TakeOut, Go, GoAs, OthersStay, listFrame,
              queueVars, Typed, Types
<1>4. parked'["send"] = parked["send"] /\ id' = id
  BY <1>2, OtherListStays, EntriesTaken DEF Sides
<1>5. \A r \in Receivers : wake'[r] = wake[r] /\ known'[r] = known[r]
  BY <1>1, <1>3 DEF NotifyOne, NotifyAll, SetParked
<1>6. t \in Receivers => \A b \in Senders : ~Owes(t, b)
  BY <1>1, <1>3 DEF Owes
<1>7. Len(items') >= Len(items)
  BY <1>2, <1>3 DEF Typed, Types
<1>8. QED
  BY <1>1, <1>3, <1>4, <1>5, <1>6, <1>7, OneTaskSlots

LEMMA BeginKeepsSlots ==
    ASSUME WakeupInv, WakeupInv', NEW spare \in [Senders -> Nat],
           SlotsWatched(spare), NEW t \in Tasks, Begin(t)
    PROVE  SlotsWatched(spare)'
<1> /\ Typed /\ EntryInv /\ OperationInv
  BY DEF WakeupInv
<1> t \in Senders => t \notin Receivers
  BY ChannelAssumption
<1> Len(items) \in Nat /\ DOMAIN pc = Tasks /\ DOMAIN op = Tasks
  BY DEF Typed, Types
<1> \A b \in Senders : pc[t] \in {"gone", "idle", "pending"} => ~Owes(t, b)
  BY DEF Owes
<1> USE DEF Go, GoAs, beginFrame, OthersStay, queueVars
<1>1. CASE StartTry(t)
  BY <1>1, OneTaskSlots DEF StartTry, Attempt
<1>2. CASE StartFuture(t)
  BY <1>2, OneTaskSlots DEF StartFuture, OperationInv
<1>3. CASE Poll(t)
  <2>1. /\ OthersStay(t) /\ pc[t] = "pending"
        /\ SetParked(Own(t), RemoveFirst(parked[Own(t)], t))
        /\ id' = [id EXCEPT ![t] = FALSE] /\ UNCHANGED <<items, closed, wake>>
    BY <1>3 DEF Poll
  <2>2. CASE t \in Receivers
    BY <2>1, <2>2, ReceiverEntryBack
  <2>3. CASE t \in Senders
    <3>1. pc'[t] = "check"
      BY <1>3, <2>3 DEF Poll, Attempt
    <3>2. /\ \A s \in Senders \ {t} : /\ Listed(s)' <=> Listed(s)
                                      /\ id'[s] = id[s]
          /\ ~id'[t]
          /\ \A b \in Senders : SleepsListed(b)' =>
               SleepsListed(b) /\ Owing(b) \subseteq Owing(b)'
      BY <2>1, <2>3, <3>1, SenderEntryBack
    <3>3. Attempting \cup {t} \subseteq Attempting' /\ t \notin Attempting
      BY <2>1, <2>3, <3>1 DEF Attempting, Tasks
    <3>4. Absorbed \ {t} \subseteq Absorbed'
      BY <2>1, <3>2 DEF Absorbed, Tasks
    <3>5. ASSUME NEW b \in Senders, SleepsListed(b)'
          PROVE  Len(items) + Watchers(b) <= Len(items') + Watchers(b)'
      <4>1. Owing(b) \subseteq Owing(b)'
        BY <3>2, <3>5
      <4>2. /\ Cardinality(Attempting \cup {t}) <= Cardinality(Attempting')
            /\ Cardinality(Absorbed \ {t}) <= Cardinality(Absorbed')
            /\ Cardinality(Owing(b)) <= Cardinality(Owing(b)')
        BY <3>3, <3>4, <4>1, FinitelyMany, FS_Subset
      <4>3. /\ Cardinality(Attempting \cup {t}) = Cardinality(Attempting) + 1
            /\ Cardinality(Absorbed \ {t}) =
                 IF t \in Absorbed THEN Cardinality(Absorbed) - 1
                 ELSE Cardinality(Absorbed)
        BY <3>3, FinitelyMany, FS_AddElement, FS_RemoveElement
      <4>4. /\ Cardinality(Attempting) \in Nat
            /\ Cardinality(Attempting') \in Nat
            /\ Cardinality(Absorbed) \in Nat /\ Cardinality(Absorbed') \in Nat
            /\ Cardinality(Owing(b)) \in Nat /\ Cardinality(Owing(b)') \in Nat
        BY FinitelyMany, FS_CardinalityType
      <4>5. Len(items') = Len(items)
        BY <2>1
      <4>6. QED
        BY <4>2, <4>3, <4>4, <4>5 DEF Watchers
    <3>6. QED
      BY <2>1, <3>2, <3>5, SlotsMoved
  <2>4. QED
    BY <2>2, <2>3 DEF Tasks
<1>4. CASE Cancel(t)
  BY <1>4, OneTaskSlots DEF Cancel
<1>5. CASE StartClose(t)
  BY <1>5, OneTaskSlots DEF StartClose
<1>6. CASE Clone(t)
  BY <1>6, OneTaskSlots DEF Clone
<1>7. CASE DropHandle(t)
  BY <1>7, OneTaskSlots DEF DropHandle
<1>8. QED
  BY <1>1, <1>2, <1>3, <1>4, <1>5, <1>6, <1>7 DEF Begin

LEMMA SendKeepsSlots ==
    ASSUME WakeupInv, WakeupInv', NEW spare \in [Senders -> Nat],
           SlotsWatched(spare), NEW s \in Senders, SendStep(s)
    PROVE  SlotsWatched(spare)'
<1> s \in Tasks /\ s \notin Receivers
  BY ChannelAssumption DEF Tasks
<1> Typed
  BY DEF WakeupInv
<1> Len(items) \in Nat /\ DOMAIN pc = Tasks /\ DOMAIN op = Tasks
  BY DEF Typed, Types
<1> USE DEF Go, GoAs, sendFrame, OthersStay, flagVars, sampleVars
<1>1. CASE CheckClosed(s)
  <2>1. CASE closed
    BY <1>1, <2>1 DEF CheckClosed, SlotsWatched
  <2>2. CASE ~closed
    BY <1>1, <2>2, OneTaskSlots DEF CheckClosed
  <2>3. QED
    BY <2>1, <2>2
<1>2. CASE ReportFull(s)
  <2>1. Bounded => Len(items) >= Capacity /\ Capacity \in Nat
    BY <1>2, ChannelAssumption DEF ReportFull, HasRoom, Bounded
  <2>2. ASSUME NEW b \in Senders PROVE Watchers(b)' \in Nat
    <3>1. /\ Cardinality(Attempting') \in Nat
          /\ Cardinality(Absorbed') \in Nat
          /\ Cardinality(Owing(b)') \in Nat
      BY FinitelyMany, FS_CardinalityType
    <3>2. QED
      BY <3>1 DEF Watchers
  <2>3. items' = items
    BY <1>2 DEF ReportFull
  <2>4. QED
    BY <2>1, <2>2, <2>3 DEF SlotsWatched, Bounded
<1>3. CASE Claim(s)
  <2>1. /\ OthersStay(s) /\ pc[s] = "claim" /\ pc'[s] = "sample"
        /\ UNCHANGED <<closed, parked, id, wake>>
        /\ \A r \in Receivers : known'[r] = known[r]
    BY <1>3 DEF Claim
  <2>2. Len(items') = Len(items) + 1
    BY <1>3 DEF Claim, Typed, Types
  <2>3. Attempting \ {s} \subseteq Attempting' /\ s \in Attempting
    BY <2>1 DEF Attempting, Tasks
  <2>4. Absorbed \subseteq Absorbed'
    BY <2>1 DEF Absorbed, Listed, Own, Tasks
  <2>5. ASSUME NEW b \in Senders, SleepsListed(b)'
        PROVE  SleepsListed(b) /\ Owing(b) \subseteq Owing(b)'
    BY <2>1, <2>5 DEF SleepsListed, Owing, Owes, Listed, Own, Tasks
  <2>6. ASSUME NEW b \in Senders, SleepsListed(b)'
        PROVE  Len(items) + Watchers(b) <= Len(items') + Watchers(b)'
    <3>1. /\ Cardinality(Attempting \ {s}) <= Cardinality(Attempting')
          /\ Cardinality(Absorbed) <= Cardinality(Absorbed')
          /\ Cardinality(Owing(b)) <= Cardinality(Owing(b)')
      BY <2>3, <2>4, <2>5, <2>6, FinitelyMany, FS_Subset
    <3>2. Cardinality(Attempting \ {s}) = Cardinality(Attempting) - 1
      BY <2>3, FinitelyMany, FS_RemoveElement
    <3>3. /\ Cardinality(Attempting) \in Nat /\ Cardinality(Attempting') \in Nat
          /\ Cardinality(Absorbed) \in Nat /\ Cardinality(Absorbed') \in Nat
          /\ Cardinality(Owing(b)) \in Nat /\ Cardinality(Owing(b)') \in Nat
      BY FinitelyMany, FS_CardinalityType
    <3>4. \A i, j, k, x, y, z, n \in Nat :
            i - 1 <= x /\ j <= y /\ k <= z
              => n + (i + j + k) <= (n + 1) + (x + y + z)
      OBVIOUS
    <3>5. Len(items) \in Nat
      BY DEF Typed, Types
    <3>6. QED
      BY <2>2, <3>1, <3>2, <3>3, <3>4, <3>5 DEF Watchers
  <2>7. QED
    BY <2>1, <2>5, <2>6, SlotsMoved
<1>4. CASE SampleReceivers(s)
  <2>1. /\ OthersStay(s) /\ pc[s] = "sample" /\ pc'[s] = "publish"
        /\ UNCHANGED <<items, closed, parked, id>>
    BY <1>4 DEF SampleReceivers, Typed, Types
  <2>2. \A r \in Receivers : wake'[r] = wake[r] /\ known'[r] = known[r]
    <3>1. PICK seen \in BOOLEAN : wake' = [wake EXCEPT ![s] = seen]
      BY <1>4 DEF SampleReceivers, MaySee
    <3>2. known' = [known EXCEPT ![s] = {}]
      BY <1>4 DEF SampleReceivers
    <3>3. \A r \in Receivers : r \in Tasks /\ r # s
      BY DEF Tasks
    <3>4. QED
      BY <3>1, <3>2, <3>3, Zenon DEF Typed, Types
  <2>3. QED
    BY <2>1, <2>2, OneTaskSlots
<1>5. CASE Publish(s)
  <2>1. Len(items') = Len(items)
    BY <1>5, PublishKeepsLength DEF Typed, Types
  <2>2. /\ OthersStay(s) /\ pc[s] = "publish"
        /\ pc'[s] \in {"notify", "unregister", "idle"}
        /\ UNCHANGED <<closed, parked, id, known>>
    BY <1>5 DEF Publish, AfterSuccess
  <2>3. \A r \in Receivers : wake'[r] = wake[r]
    <3>1. wake' = [wake EXCEPT ![s] = FALSE] /\ DOMAIN wake = Tasks
      BY <1>5 DEF Publish, Typed, Types
    <3>2. \A r \in Receivers : r \in Tasks /\ r # s
      BY DEF Tasks
    <3>3. QED
      BY <3>1, <3>2, Zenon
  <2>4. QED
    BY <2>1, <2>2, <2>3, OneTaskSlots
<1>6. CASE ParkSender(s)
  BY <1>6, OneTaskSlots DEF ParkSender, queueVars
<1>7. QED
  BY <1>1, <1>2, <1>3, <1>4, <1>5, <1>6 DEF SendStep

LEMMA RecvKeepsSlots ==
    ASSUME WakeupInv, WakeupInv', NEW spare \in [Senders -> Nat],
           SlotsWatched(spare), NEW r \in Receivers, RecvStep(r)
    PROVE  SlotsWatched(spare)'
<1> r \in Tasks /\ r \notin Senders /\ Other(r) = "send"
  BY ChannelAssumption DEF Tasks, Other
<1> Typed /\ OperationInv
  BY DEF WakeupInv
<1> Len(items) \in Nat /\ DOMAIN pc = Tasks /\ DOMAIN op = Tasks
  BY DEF Typed, Types
<1> pc[r] \notin {"sample", "finish", "notify"}
      => \A b \in Senders : ~Owes(r, b)
  BY DEF Owes
<1> USE DEF Go, GoAs, recvFrame, OthersStay, flagVars, sampleVars, queueVars
<1>1. CASE Take(r)
  <2>1. /\ OthersStay(r) /\ pc[r] = "pop"
        /\ UNCHANGED <<closed, parked, id, wake>>
        /\ \A q \in Receivers \ {r} : known'[q] = known[q]
        /\ Bounded => pc'[r] = "sample" /\ known'[r] = Parked("send")
    BY <1>1 DEF Take, Bounded, Typed, Types
  <2>2. Len(items') = Len(items) - 1
    BY <1>1 DEF Take, FrontReady, Typed, Types
  <2>3. Attempting \subseteq Attempting' /\ Absorbed \subseteq Absorbed'
    BY <2>1 DEF Attempting, Absorbed, Listed, Own, Tasks
  <2>4. ASSUME NEW b \in Senders, SleepsListed(b)', Bounded
        PROVE  SleepsListed(b) /\ Owing(b) \cup {r} \subseteq Owing(b)'
    <3>1. SleepsListed(b) /\ b \in Tasks
      BY <2>1, <2>4 DEF SleepsListed, Listed, Own, Tasks
    <3>2. b \in Parked("send")
      BY <3>1 DEF SleepsListed, Listed, Own, Parked
    <3>3. r \in Owing(b)'
      BY <2>1, <2>4, <3>2 DEF Owing, Owes
    <3>4. ASSUME NEW q \in Receivers \ {r}, Owes(q, b) PROVE Owes(q, b)'
      BY <2>1, <3>4 DEF Owes, Tasks
    <3>5. QED
      BY <3>1, <3>3, <3>4 DEF Owing
  <2>5. ASSUME NEW b \in Senders, SleepsListed(b)', Bounded
        PROVE  Len(items) + Watchers(b) <= Len(items') + Watchers(b)'
    <3>1. /\ Cardinality(Attempting) <= Cardinality(Attempting')
          /\ Cardinality(Absorbed) <= Cardinality(Absorbed')
          /\ Cardinality(Owing(b) \cup {r}) <= Cardinality(Owing(b)')
      BY <2>3, <2>4, <2>5, FinitelyMany, FS_Subset
    <3>2. Cardinality(Owing(b) \cup {r}) = Cardinality(Owing(b)) + 1
      <4>1. r \notin Owing(b)
        BY <2>1 DEF Owing, Owes
      <4>2. QED
        BY <4>1, FinitelyMany, FS_AddElement
    <3>3. /\ Cardinality(Attempting) \in Nat /\ Cardinality(Attempting') \in Nat
          /\ Cardinality(Absorbed) \in Nat /\ Cardinality(Absorbed') \in Nat
          /\ Cardinality(Owing(b)) \in Nat /\ Cardinality(Owing(b)') \in Nat
      BY FinitelyMany, FS_CardinalityType
    <3>4. \A i, j, k, x, y, z, n \in Nat :
            i <= x /\ j <= y /\ k + 1 <= z
              => n + (i + j + k) <= (n - 1) + (x + y + z)
      OBVIOUS
    <3>5. QED
      BY <2>2, <3>1, <3>2, <3>3, <3>4 DEF Watchers
  <2>6. QED
    BY <2>1, <2>4, <2>5, SlotsMoved
<1>2. CASE SampleSenders(r)
  <2>1. \A b \in Senders : Owes(r, b) => Owes(r, b)'
    BY <1>2 DEF SampleSenders, MaySee, Owes, Typed, Types
  <2>2. QED
    BY <1>2, <2>1, OneTaskSlots DEF SampleSenders
<1>3. CASE FinishPop(r)
  <2>1. \A b \in Senders : Owes(r, b) => Owes(r, b)'
    BY <1>3 DEF FinishPop, Owes
  <2>2. /\ OthersStay(r) /\ UNCHANGED <<items, closed, parked, id, known>>
    BY <1>3 DEF FinishPop
  <2>3. \A q \in Receivers \ {r} : wake'[q] = wake[q]
    <3>1. wake' = [wake EXCEPT ![r] = FALSE] /\ DOMAIN wake = Tasks
      BY <1>3 DEF FinishPop, Typed, Types
    <3>2. \A q \in Receivers : q \in Tasks
      BY DEF Tasks
    <3>3. QED
      BY <3>1, <3>2, Zenon
  <2>4. QED
    BY <2>1, <2>2, <2>3, OneTaskSlots
<1>4. CASE PopNone(r)
  BY <1>4, OneTaskSlots DEF PopNone
<1>5. CASE LoadClosed(r)
  BY <1>5, OneTaskSlots DEF LoadClosed
<1>6. CASE CheckIndices(r)
  BY <1>6, OneTaskSlots DEF CheckIndices
<1>7. CASE FindBusy(r)
  BY <1>7, OneTaskSlots DEF FindBusy
<1>8. CASE TakeSnapshot(r)
  BY <1>8, OneTaskSlots DEF TakeSnapshot
<1>9. CASE CheckClaims(r)
  BY <1>9, OneTaskSlots DEF CheckClaims
<1>10. CASE FindClaims(r)
  BY <1>10, OneTaskSlots DEF FindClaims
<1>11. CASE Snooze(r)
  BY <1>11, OneTaskSlots DEF Snooze
<1>12. CASE Yield(r)
  BY <1>12, OneTaskSlots DEF Yield
<1>13. QED
  BY <1>1, <1>2, <1>3, <1>4, <1>5, <1>6, <1>7, <1>8, <1>9, <1>10, <1>11, <1>12
     DEF RecvStep

LEMMA ListKeepsSlots ==
    ASSUME WakeupInv, WakeupInv', WaitInv, NEW spare \in [Senders -> Nat],
           SlotsWatched(spare), NEW t \in Tasks,
           ListStep(t)
    PROVE  SlotsWatched(spare)'
<1> t \in Receivers \/ t \in Senders
  BY DEF Tasks
<1> /\ t \in Senders =>
         t \notin Receivers /\ Own(t) = "send" /\ Other(t) = "recv"
    /\ t \in Receivers =>
         t \notin Senders /\ Own(t) = "recv" /\ Other(t) = "send"
  BY ChannelAssumption DEF Own, Other
<1> Typed /\ EntryInv /\ OperationInv
  BY DEF WakeupInv
<1> Len(items) \in Nat /\ DOMAIN pc = Tasks /\ DOMAIN op = Tasks
  BY DEF Typed, Types
<1> pc[t] \notin {"sample", "finish", "notify"}
      => \A b \in Senders : ~Owes(t, b)
  BY DEF Owes
<1> USE DEF Go, GoAs, listFrame, OthersStay, flagVars, sampleVars, queueVars
<1>1. CASE Register(t)
  <2>1. /\ OthersStay(t) /\ pc[t] = "register" /\ pc'[t] = "parking"
        /\ UNCHANGED <<items, closed, wake>>
        /\ SetParked(Own(t), Append(parked[Own(t)], t))
        /\ \A u \in Tasks \ {t} : id'[u] = id[u]
    BY <1>1 DEF Register, Typed, Types
  <2>2. CASE t \in Receivers
    <3>1. parked'["send"] = parked["send"]
      BY <2>1, <2>2 DEF SetParked, Typed, Types, Sides
    <3>2. \A r \in Receivers : Other(r) = "send" /\ r \in Tasks
      BY ChannelAssumption DEF Other, Tasks
    <3>3. \A r \in Receivers : known'[r] = known[r]
      BY <2>1, <2>2, <3>2 DEF SetParked
    <3>4. \A s \in Senders : id'[s] = id[s]
      BY <2>1, <2>2 DEF Tasks
    <3>5. QED
      BY <2>1, <2>2, <3>1, <3>3, <3>4, OneTaskSlots
  <2>3. CASE t \in Senders
    <3>1. parked'["send"] = Append(parked["send"], t)
      BY <2>1, <2>3 DEF SetParked, Typed, Types, Sides
    <3>2. ~id[t] /\ t \notin ToSet(parked["send"])
      BY <2>1, <2>3 DEF OperationInv, EntryInv, Listed
    <3>3. ToSet(parked'["send"]) = ToSet(parked["send"]) \cup {t}
      <4>1. parked["send"] \in Seq(Tasks) /\ IsInjective(parked["send"])
        BY DEF Typed, Types, EntryInv, Sides
      <4>2. QED
        BY <4>1, <3>1, <3>2, AddedEntry
    <3>4. \A s \in Senders \ {t} : (Listed(s)' <=> Listed(s)) /\ id'[s] = id[s]
      BY <2>1, <3>3 DEF Listed, Own, Tasks
    <3>5. Attempting \subseteq Attempting'
      BY <2>1 DEF Attempting, Tasks
    <3>6. Absorbed \subseteq Absorbed'
      BY <2>1, <3>2, <3>4 DEF Absorbed, Tasks
    <3>7. \A r \in Receivers : known[r] \subseteq known'[r]
      <4>1. ASSUME NEW r \in Receivers PROVE known[r] \subseteq known'[r]
        <5>1. r \in Tasks /\ Other(r) = "send"
          BY ChannelAssumption DEF Other, Tasks
        <5>2. known'[r] = known[r] \cap ToSet(parked'["send"])
          BY <2>1, <2>3, <3>1, <5>1 DEF SetParked
        <5>3. known[r] \subseteq ToSet(parked["send"])
          BY <5>1 DEF EntryInv
        <5>4. QED
          BY <5>2, <5>3, <3>3
      <4>2. QED
        BY <4>1
    <3>8. ASSUME NEW b \in Senders, SleepsListed(b)'
          PROVE  SleepsListed(b) /\ Owing(b) \subseteq Owing(b)'
      <4>1. SleepsListed(b)
        BY <2>1, <3>4, <3>8 DEF SleepsListed, Tasks
      <4>2. ASSUME NEW r \in Receivers, Owes(r, b) PROVE Owes(r, b)'
        BY <2>1, <2>3, <3>7, <4>2 DEF Owes, Tasks
      <4>3. QED
        BY <4>1, <4>2 DEF Owing
    <3>9. QED
      BY <2>1, <3>5, <3>6, <3>8, SlotsKept
  <2>4. QED
    BY <2>2, <2>3
<1>2. CASE Discard(t)
  <2>1. CASE t \in Senders
    BY <1>2, <2>1 DEF Discard, WaitInv, SlotsWatched
  <2>2. CASE t \in Receivers
    BY <1>2, <2>2, ReceiverEntryBack DEF Discard
  <2>3. QED
    BY <2>1, <2>2
<1>3. CASE Unregister(t)
  <2>1. CASE t \in Senders
    <3>1. /\ OthersStay(t) /\ pc[t] = "unregister"
          /\ pc'[t] = IF Listed(t) THEN "idle" ELSE "forward"
          /\ SetParked(Own(t), RemoveFirst(parked[Own(t)], t))
          /\ id' = [id EXCEPT ![t] = FALSE] /\ UNCHANGED <<items, closed, wake>>
      <4>1. DOMAIN parked = Sides /\ parked[Own(t)] \in Seq(Tasks)
        BY SidesOf DEF Typed, Types
      <4>2. Contains(parked[Own(t)], t) <=> Listed(t)
        BY <4>1 DEF Contains, Listed, ToSet
      <4>3. QED
        BY <1>3, <2>1, <4>2 DEF Unregister, Typed, Types
    <3>2. /\ \A s \in Senders \ {t} : /\ Listed(s)' <=> Listed(s)
                                      /\ id'[s] = id[s]
          /\ \A b \in Senders : SleepsListed(b)' =>
               SleepsListed(b) /\ Owing(b) \subseteq Owing(b)'
      BY <2>1, <3>1, SenderEntryBack
    <3>3. Attempting \subseteq Attempting'
      BY <3>1 DEF Attempting, Tasks
    <3>4. Absorbed \subseteq Absorbed'
      BY <2>1, <3>1, <3>2 DEF Absorbed, Tasks
    <3>5. QED
      BY <3>1, <3>2, <3>3, <3>4, SlotsKept
  <2>2. CASE t \in Receivers
    BY <1>3, <2>2, ReceiverEntryBack DEF Unregister
  <2>3. QED
    BY <2>1, <2>2
<1>4. CASE Notify(t)
  <2>1. AfterSuccess(t) \in {"idle", "unregister"}
    BY DEF AfterSuccess
  <2>2. QED
    BY <1>4, <2>1, OneSenderNotified, ReceiversNotified DEF Notify
<1>5. CASE Forward(t)
  BY <1>5, OneSenderNotified, ReceiversNotified DEF Forward
<1>6. CASE Wake(t)
  <2>1. /\ OthersStay(t) /\ pc[t] = "wake"
        /\ pc'[t] \in {"wake", "idle", "gone", "unregister", "wake_senders",
                       "batch"}
        /\ UNCHANGED <<items, closed, parked, id, known, wake>>
    BY <1>6 DEF Wake, Typed, Types
  <2>2. QED
    BY <2>1, OneTaskSlots
<1>7. CASE SwapClosed(t)
  BY <1>7 DEF SwapClosed, SlotsWatched
<1>8. CASE WakeReceivers(t)
  BY <1>8, ReceiversNotified DEF WakeReceivers
<1>9. CASE WakeSenders(t)
  <2>1. parked'["send"] = <<>>
    BY <1>9 DEF WakeSenders, NotifyAll, SetParked, Typed, Types, Sides
  <2>2. \A b \in Senders : ~SleepsListed(b)'
    BY <2>1, EmptyList DEF SleepsListed, Listed, Own
  <2>3. QED
    BY <2>2 DEF SlotsWatched
<1>10. QED
  BY <1>1, <1>2, <1>3, <1>4, <1>5, <1>6, <1>7, <1>8, <1>9 DEF ListStep

\* Only ReportFull, of a bounded queue, and Register make a sender wait.
LEMMA StepKeepsWaits ==
    ASSUME Typed, OperationInv, WaitInv, NEW t \in Tasks, Begin(t) \/ Step(t)
    PROVE  WaitInv'
<1> \A s \in Senders : s \in Tasks /\ s \notin Receivers
  BY ChannelAssumption DEF Tasks
<1> DOMAIN pc = Tasks /\ DOMAIN id = Tasks
  BY DEF Typed, Types
<1> USE DEF WaitInv, Go, GoAs, Bounded
<1>1. CASE Begin(t)
  BY <1>1 DEF Begin, StartTry, Attempt, StartFuture, Poll, Cancel, StartClose,
              Clone, DropHandle, beginFrame
<1>2. CASE t \in Senders /\ SendStep(t)
  BY <1>2 DEF SendStep, CheckClosed, AfterClosed, ReportFull, HasRoom, Claim,
              SampleReceivers, Publish, AfterSuccess, ParkSender, sendFrame,
              flagVars
<1>3. CASE t \in Receivers /\ RecvStep(t)
  <2>1. UNCHANGED <<closed, id>> /\ \A s \in Senders : pc'[s] = pc[s]
    BY <1>3 DEF RecvStep, Take, SampleSenders, FinishPop, PopNone, LoadClosed,
                CheckIndices, FindBusy, TakeSnapshot, CheckClaims, FindClaims,
                Snooze, Yield, recvFrame, flagVars
  <2>2. QED
    BY <2>1
<1>4. CASE ListStep(t)
  <2>1. CASE Register(t)
    BY <2>1 DEF Register, flagVars
  <2>2. CASE Discard(t)
    BY <2>2 DEF Discard, listFrame
  <2>3. CASE Unregister(t)
    BY <2>3 DEF Unregister, listFrame
  <2>4. CASE Notify(t)
    BY <2>4 DEF Notify, NotifyOne, TakeOut, AfterSuccess, listFrame
  <2>5. CASE Forward(t)
    BY <2>5 DEF Forward, NotifyOne, TakeOut, listFrame
  <2>6. CASE Wake(t)
    BY <2>6 DEF Wake, listFrame, Typed, Types
  <2>7. CASE SwapClosed(t)
    BY <2>7 DEF SwapClosed, AfterClose
  <2>8. CASE WakeReceivers(t)
    BY <2>8 DEF WakeReceivers, NotifyAll, TakeOut, listFrame
  <2>9. CASE WakeSenders(t)
    BY <2>9 DEF WakeSenders, NotifyAll, TakeOut, AfterClose, listFrame
  <2>10. QED
    BY <1>4, <2>1, <2>2, <2>3, <2>4, <2>5, <2>6, <2>7, <2>8, <2>9 DEF ListStep
<1>5. QED
  BY <1>1, <1>2, <1>3, <1>4 DEF Step

LEMMA StutterKeepsSlots ==
    ASSUME WaitInv, SlotInv, UNCHANGED vars
    PROVE  WaitInv' /\ SlotInv'
<1> USE DEF vars, queueVars, flagVars, taskVars, sampleVars
<1>1. WaitInv'
  BY DEF WaitInv
<1>2. /\ Attempting' = Attempting /\ Absorbed' = Absorbed
      /\ \A b \in Senders : Owing(b)' = Owing(b)
  BY DEF Attempting, Absorbed, Owing, Owes, Listed, Own
<1>3. \A b \in Senders : /\ Watchers(b)' = Watchers(b)
                         /\ SleepsListed(b)' <=> SleepsListed(b)
  BY <1>2 DEF Watchers, SleepsListed, Listed, Own
<1>4. QED
  BY <1>1, <1>3 DEF SlotInv, SlotsWatched, Bounded

\* Nothing is spared in Channel itself.
LEMMA NoneSpared == [b \in Senders |-> 0] \in [Senders -> Nat]
OBVIOUS

\* The inductive invariant of free slots, for any number of tasks and any
\* capacity.
THEOREM SlotInvariant == Spec => [](WakeupInv /\ WaitInv /\ SlotInv)
<1>1. Init => WakeupInv /\ WaitInv /\ SlotInv
  <2> SUFFICES ASSUME NEW s \in Senders, NEW r \in Receivers, New({s, r})
               PROVE  WakeupInv /\ WaitInv /\ SlotInv
    BY DEF Init
  <2>1. WakeupInv
    BY NewIsWellFormed
  <2>2. \A b \in Senders : pc[b] \in {"idle", "gone"} /\ ~id[b]
    BY DEF New, Tasks
  <2>3. QED
    BY <2>1, <2>2 DEF WaitInv, SlotInv, SlotsWatched, SleepsListed
<1>2. WakeupInv /\ WaitInv /\ SlotInv /\ [Next]_vars
        => (WakeupInv /\ WaitInv /\ SlotInv)'
  <2> SUFFICES ASSUME WakeupInv, WaitInv, SlotInv, [Next]_vars
               PROVE  WakeupInv' /\ WaitInv' /\ SlotInv'
    OBVIOUS
  <2>1. CASE Next
    <3>1. PICK t \in Tasks : Begin(t) \/ Step(t)
      BY <2>1 DEF Next
    <3>2. WakeupInv'
      BY <3>1, BeginKeepsWakeups, SendKeepsWakeups, RecvKeepsWakeups,
         ListKeepsWakeups DEF Step
    <3>3. WaitInv'
      BY <3>1, StepKeepsWaits DEF WakeupInv
    <3>4. SlotInv'
      BY <3>1, <3>2, NoneSpared, BeginKeepsSlots, SendKeepsSlots, RecvKeepsSlots,
         ListKeepsSlots DEF Step, SlotInv
    <3>5. QED
      BY <3>2, <3>3, <3>4
  <2>2. CASE UNCHANGED vars
    BY <2>2, StutterKeepsWakeups, StutterKeepsSlots
  <2>3. QED
    BY <2>1, <2>2
<1>3. QED
  BY <1>1, <1>2, PTL DEF Spec

\* A sender asleep beside free room, when everyone rests: nobody looks for room, and
\* nobody is going to wake one that does.
LEMMA SleepsBesideRoom ==
    ASSUME WakeupInv, WaitInv, EveryoneRests, HasRoom, NEW b \in Senders, Asleep(b)
    PROVE  /\ SleepsListed(b) /\ ~closed /\ Bounded /\ Len(items) < Capacity
           /\ Attempting = {} /\ Absorbed = {} /\ Owing(b) = {} /\ Watchers(b) = 0
           /\ Capacity - Len(items) > 0
<1>1. \A t \in Senders \cup Receivers : t \in Tasks
  BY DEF Tasks
<1>2. Typed /\ OperationInv /\ WakeInv
  BY DEF WakeupInv
<1>3. SleepsListed(b)
  BY <1>1, SleepersAreListed DEF SleepsListed, Asleep
<1>4. id[b]
  BY <1>1, <1>3 DEF SleepsListed, WakeupInv, EntryInv
<1>5. ~closed
  <2>1. Deaf(b) /\ ~woken[b]
    BY DEF Deaf, Asleep
  <2>2. \A c \in Tasks : ~Draining(c, Own(b))
    BY DEF EveryoneRests, Asleep, Draining
  <2>3. QED
    BY <1>1, <1>3, <2>1, <2>2 DEF WakeupInv, CloseInv, SleepsListed
<1>6. Bounded
  BY <1>4 DEF WaitInv
<1>7. Attempting = {}
  BY <1>1 DEF Attempting, EveryoneRests, Asleep
<1>8. Absorbed = {}
  <2>1. ASSUME NEW s \in Senders, id[s], ~Listed(s) PROVE FALSE
    <3>1. Asleep(s)
      BY <1>1, <1>2, <2>1 DEF EveryoneRests, OperationInv
    <3>2. QED
      BY <1>1, <2>1, <3>1, SleepersAreListed
  <2>2. \A s \in Senders : pc[s] # "forward"
    BY <1>1 DEF EveryoneRests, Asleep
  <2>3. QED
    BY <2>1, <2>2 DEF Absorbed
<1>9. Owing(b) = {}
  BY <1>1 DEF Owing, Owes, EveryoneRests, Asleep
<1>10. Watchers(b) = 0
  BY <1>7, <1>8, <1>9, FS_EmptySet DEF Watchers
<1>11. Len(items) < Capacity /\ Len(items) \in Nat /\ Capacity \in Int
  BY <1>2, <1>6, ChannelAssumption DEF HasRoom, Bounded, Typed, Types
<1>12. Capacity - Len(items) > 0
  BY <1>11
<1>13. QED
  BY <1>3, <1>5, <1>6, <1>7, <1>8, <1>9, <1>10, <1>11, <1>12

\* However many senders and receivers there are and however sends, receives,
\* cancellations and handle drops interleave, no send is left asleep beside
\* free room: a wake-up taken by a future that completes or is cancelled is
\* passed on (WaiterList::unregister, lib.rs:256-285).
THEOREM SenderNotForgotten == Spec => []SendersServed
<1>1. WakeupInv /\ WaitInv /\ SlotInv => SendersServed
  <2> SUFFICES ASSUME WakeupInv, WaitInv, SlotInv, EveryoneRests, HasRoom,
                      NEW b \in Senders, Asleep(b)
               PROVE  FALSE
    BY DEF SendersServed
  <2>1. /\ SleepsListed(b) /\ ~closed /\ Bounded /\ Watchers(b) = 0
        /\ Capacity - Len(items) > 0
    BY SleepsBesideRoom
  <2>2. Capacity - Len(items) <= Watchers(b) + [s \in Senders |-> 0][b]
    BY <2>1 DEF SlotInv, SlotsWatched
  <2>3. Len(items) \in Nat /\ Capacity \in Int
    BY ChannelAssumption DEF WakeupInv, Typed, Types, UNBOUNDED
  <2>4. QED
    BY <2>1, <2>2, <2>3
<1>2. QED
  BY <1>1, SlotInvariant, PTL

----------------------------------------------------------------------------
(* The last handle of a side closes.                                        *)

HandlesInv ==
    /\ DOMAIN handles = Sides /\ \A side \in Sides : handles[side] \in Int
    /\ closed \in BOOLEAN
    /\ DOMAIN pc = Tasks
    /\ LastHandleCloses

\* A step that leaves the flags alone, begins anywhere but at the swap of
\* close, and touches one task's program counter keeps the invariant.
LEMMA OtherSteps ==
    ASSUME HandlesInv, NEW t \in Tasks, NEW to,
           pc' = [pc EXCEPT ![t] = to], pc[t] # "swap", UNCHANGED flagVars
    PROVE  HandlesInv'
BY DEF HandlesInv, LastHandleCloses, flagVars

LEMMA BeginKeepsHandles ==
    ASSUME HandlesInv, NEW t \in Tasks, Begin(t)
    PROVE  HandlesInv'
<1>1. CASE StartTry(t)
  BY <1>1, OtherSteps DEF StartTry, GoAs, beginFrame, flagVars, Attempt
<1>2. CASE StartFuture(t)
  BY <1>2, OtherSteps DEF StartFuture, Go, GoAs, beginFrame, flagVars
<1>3. CASE Poll(t)
  BY <1>3, OtherSteps DEF Poll, GoAs, beginFrame, flagVars, Attempt
<1>4. CASE Cancel(t)
  BY <1>4, OtherSteps DEF Cancel, GoAs, beginFrame, flagVars
<1>5. CASE StartClose(t)
  BY <1>5, OtherSteps DEF StartClose, GoAs, beginFrame, flagVars
<1>6. CASE Clone(t)
  BY <1>6 DEF Clone, Go, GoAs, beginFrame, HandlesInv, LastHandleCloses, Own,
              Sides
<1>7. CASE DropHandle(t)
  BY <1>7 DEF DropHandle, GoAs, beginFrame, HandlesInv, LastHandleCloses, Own,
              Sides
<1>8. QED
  BY <1>1, <1>2, <1>3, <1>4, <1>5, <1>6, <1>7 DEF Begin

LEMMA SendKeepsHandles ==
    ASSUME HandlesInv, NEW s \in Senders, SendStep(s)
    PROVE  HandlesInv'
<1> s \in Tasks
  BY DEF Tasks
<1>1. CASE CheckClosed(s)
  BY <1>1, OtherSteps DEF CheckClosed, Go, GoAs, sendFrame, AfterClosed
<1>2. CASE ReportFull(s)
  BY <1>2, OtherSteps DEF ReportFull, Go, GoAs, sendFrame
<1>3. CASE Claim(s)
  BY <1>3, OtherSteps DEF Claim, Go, GoAs, sendFrame
<1>4. CASE SampleReceivers(s)
  BY <1>4, OtherSteps DEF SampleReceivers, Go, GoAs, sendFrame
<1>5. CASE Publish(s)
  BY <1>5, OtherSteps DEF Publish, Go, GoAs, sendFrame, AfterSuccess
<1>6. CASE ParkSender(s)
  BY <1>6, OtherSteps DEF ParkSender, Go, GoAs
<1>7. QED
  BY <1>1, <1>2, <1>3, <1>4, <1>5, <1>6 DEF SendStep

LEMMA RecvKeepsHandles ==
    ASSUME HandlesInv, NEW r \in Receivers, RecvStep(r)
    PROVE  HandlesInv'
<1> r \in Tasks
  BY DEF Tasks
<1>1. CASE Take(r)
  BY <1>1, OtherSteps DEF Take, Go, GoAs, recvFrame
<1>2. CASE SampleSenders(r)
  BY <1>2, OtherSteps DEF SampleSenders, Go, GoAs, recvFrame
<1>3. CASE FinishPop(r)
  BY <1>3, OtherSteps DEF FinishPop, Go, GoAs, recvFrame, AfterSuccess
<1>4. CASE PopNone(r)
  BY <1>4, OtherSteps DEF PopNone, Go, GoAs, recvFrame
<1>5. CASE LoadClosed(r)
  BY <1>5, OtherSteps DEF LoadClosed, Go, GoAs, recvFrame
<1>6. CASE CheckIndices(r)
  BY <1>6, OtherSteps DEF CheckIndices, Go, GoAs, recvFrame, AfterClosed
<1>7. CASE FindBusy(r)
  BY <1>7, OtherSteps DEF FindBusy, Go, GoAs, recvFrame
<1>8. CASE TakeSnapshot(r)
  BY <1>8, OtherSteps DEF TakeSnapshot, Go, GoAs, recvFrame
<1>9. CASE CheckClaims(r)
  BY <1>9, OtherSteps DEF CheckClaims, Go, GoAs, recvFrame
<1>10. CASE FindClaims(r)
  BY <1>10, OtherSteps DEF FindClaims, Go, GoAs, recvFrame
<1>11. CASE Snooze(r)
  BY <1>11, OtherSteps DEF Snooze, Go, GoAs, recvFrame
<1>12. CASE Yield(r)
  BY <1>12, OtherSteps DEF Yield, Go, GoAs, recvFrame
<1>13. QED
  BY <1>1, <1>2, <1>3, <1>4, <1>5, <1>6, <1>7, <1>8, <1>9, <1>10, <1>11,
     <1>12 DEF RecvStep

LEMMA ListKeepsHandles ==
    ASSUME HandlesInv, NEW t \in Tasks, ListStep(t)
    PROVE  HandlesInv'
<1>1. CASE Register(t)
  BY <1>1, OtherSteps DEF Register, GoAs
<1>2. CASE Discard(t)
  BY <1>2, OtherSteps DEF Discard, Go, GoAs, listFrame, flagVars
<1>3. CASE Unregister(t)
  BY <1>3, OtherSteps DEF Unregister, Go, GoAs, listFrame, flagVars
<1>4. CASE Notify(t)
  BY <1>4, OtherSteps DEF Notify, NotifyOne, TakeOut, Go, GoAs, listFrame,
                          flagVars
<1>5. CASE Forward(t)
  BY <1>5, OtherSteps DEF Forward, NotifyOne, TakeOut, Go, GoAs, listFrame,
                          flagVars
<1>6. CASE Wake(t)
  BY <1>6, OtherSteps DEF Wake, Go, GoAs, listFrame, flagVars
<1>7. CASE SwapClosed(t)
  BY <1>7 DEF SwapClosed, HandlesInv, LastHandleCloses, Go, GoAs
<1>8. CASE WakeReceivers(t)
  BY <1>8, OtherSteps DEF WakeReceivers, NotifyAll, TakeOut, Go, GoAs,
                          listFrame, flagVars
<1>9. CASE WakeSenders(t)
  BY <1>9, OtherSteps DEF WakeSenders, NotifyAll, TakeOut, Go, GoAs, listFrame,
                          flagVars
<1>10. QED
  BY <1>1, <1>2, <1>3, <1>4, <1>5, <1>6, <1>7, <1>8, <1>9 DEF ListStep

LEMMA NewHasHandles ==
    ASSUME NEW s \in Senders, NEW r \in Receivers, New({s, r})
    PROVE  HandlesInv
<1>1. {s, r} \cap Senders = {s} /\ {s, r} \cap Receivers = {r}
  <2>1. s \notin Receivers /\ r \notin Senders
    BY ChannelAssumption
  <2>2. QED
    BY <2>1
<1>2. Cardinality({s}) = 1 /\ Cardinality({r}) = 1
  BY FS_Singleton
<1>3. handles = [send |-> 1, recv |-> 1]
  BY <1>1, <1>2 DEF New
<1>4. DOMAIN handles = Sides /\ \A side \in Sides : handles[side] = 1
  BY <1>3 DEF Sides
<1>5. closed \in BOOLEAN /\ DOMAIN pc = Tasks
  BY DEF New
<1>6. \A side \in Sides : handles[side] \in Int /\ handles[side] # 0
  BY <1>4
<1>7. QED
  BY <1>4, <1>5, <1>6 DEF HandlesInv, LastHandleCloses

LEMMA HandlesInvariant == Spec => []HandlesInv
<1>1. Init => HandlesInv
  BY NewHasHandles DEF Init
<1>2. HandlesInv /\ [Next]_vars => HandlesInv'
  <2> SUFFICES ASSUME HandlesInv, [Next]_vars PROVE HandlesInv'
    OBVIOUS
  <2>1. CASE UNCHANGED vars
    BY <2>1 DEF vars, flagVars, taskVars, HandlesInv, LastHandleCloses
  <2>2. CASE Next
    BY <2>2, BeginKeepsHandles, SendKeepsHandles, RecvKeepsHandles,
       ListKeepsHandles DEF Next, Step
  <2>3. QED
    BY <2>1, <2>2
<1>3. QED
  BY <1>1, <1>2, PTL DEF Spec

\* A channel whose senders, or whose receivers, are all gone is closed or is
\* being closed by the last of them, whatever clones race with the drops
\* (Clone and Drop for Sender and Receiver, lib.rs:480-514).
THEOREM LastHandle == Spec => []LastHandleCloses
<1>1. HandlesInv => LastHandleCloses
  BY DEF HandlesInv
<1>2. QED
  BY <1>1, HandlesInvariant, PTL

----------------------------------------------------------------------------
(* Closed means drained.                                                    *)

\* Only the two index checks lead away from the final verdict.
LEMMA VerdictIsChecked ==
    ASSUME DOMAIN pc = Tasks, Next, NEW r \in Receivers,
           pc[r] = "indices", pc'[r] # "indices"
    PROVE  CheckIndices(r) \/ FindBusy(r)
<1>1. PICK t \in Tasks : Begin(t) \/ Step(t)
  BY DEF Next
<1> r \in Tasks
  BY DEF Tasks
<1>2. \E to : pc' = [pc EXCEPT ![t] = to]
  <2>1. CASE Begin(t)
    BY <2>1 DEF Begin, StartTry, StartFuture, Poll, Cancel, StartClose, Clone,
       DropHandle, Go, GoAs
  <2>2. CASE SendStep(t)
    BY <2>2 DEF SendStep, CheckClosed, ReportFull, Claim, SampleReceivers,
       Publish, ParkSender, Go, GoAs
  <2>3. CASE RecvStep(t)
    BY <2>3 DEF RecvStep, Take, SampleSenders, FinishPop, PopNone, LoadClosed,
       CheckIndices, FindBusy, TakeSnapshot, CheckClaims, FindClaims, Snooze,
       Yield, Go, GoAs
  <2>4. CASE ListStep(t)
    BY <2>4 DEF ListStep, Register, Discard, Unregister, Notify, Forward, Wake,
       SwapClosed, WakeReceivers, WakeSenders, NotifyOne, NotifyAll, TakeOut,
       Go, GoAs
  <2>5. QED
    BY <1>1, <2>1, <2>2, <2>3, <2>4 DEF Step
<1>3. t = r
  BY <1>2
<1>4. ~Begin(t)
  BY <1>3 DEF Begin, StartTry, StartFuture, Poll, Cancel, StartClose, Clone,
     DropHandle, Go, GoAs
<1>5. ~SendStep(t)
  BY <1>3 DEF SendStep, CheckClosed, ReportFull, Claim, SampleReceivers,
     Publish, ParkSender, Go, GoAs
<1>6. ~ListStep(t)
  BY <1>3 DEF ListStep, Register, Discard, Unregister, Notify, Forward, Wake,
     SwapClosed, WakeReceivers, WakeSenders, NotifyOne, NotifyAll, TakeOut,
     Go, GoAs
<1>7. RecvStep(r)
  BY <1>1, <1>3, <1>4, <1>5, <1>6 DEF Step
<1>8. QED
  BY <1>7 DEF RecvStep, Take, SampleSenders, PopNone, FinishPop, LoadClosed,
     TakeSnapshot, CheckClaims, FindClaims, Snooze, Yield, Go, GoAs

\* No receive, blocking or not, reports Closed while a value claimed before
\* the close is still in the queue (recv_state_when_empty, lib.rs:434-447).
THEOREM ClosedVerdict == Spec => ClosedMeansDrained
<1>1. TypeOK /\ HandlesInv /\ [Next]_vars
        => [\A r \in Receivers :
              (pc[r] = "indices" /\ pc'[r] \in {"idle", "discard"})
                => undrained = 0]_vars
  <2> SUFFICES ASSUME TypeOK, HandlesInv, Next, NEW r \in Receivers,
                      pc[r] = "indices", pc'[r] \in {"idle", "discard"}
               PROVE  undrained = 0
    OBVIOUS
  <2>1. CheckIndices(r) \/ FindBusy(r)
    BY VerdictIsChecked DEF HandlesInv
  <2>2. r \in DOMAIN pc
    BY DEF HandlesInv, Tasks
  <2>3. ~FindBusy(r)
    BY <2>2 DEF FindBusy, Go, GoAs
  <2>4. items = <<>>
    BY <2>1, <2>3 DEF CheckIndices
  <2>5. QED
    BY <2>4 DEF TypeOK, Types
<1>2. QED
  BY <1>1, TypesHold, HandlesInvariant, PTL DEF Spec, ClosedMeansDrained
==============================================================================
