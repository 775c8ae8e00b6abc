------------------------- MODULE MpscChannelTheorems -------------------------
(***************************************************************************)
(* What the channel with the exclusive receiver (MpscChannel) guarantees,  *)
(* for any number of senders, any capacity and any limit of recv_many.     *)
(*                                                                         *)
(* The steps of senders, and the receiver's outside its batches, are steps *)
(* of Channel, so the lemmas of ChannelTheorems apply to them.  What is    *)
(* new is a batch: it takes several values, and notify_many wakes several  *)
(* senders with one section under the lock.                                *)
(***************************************************************************)
EXTENDS MpscWakeups, ChannelTheorems

MpscInv == WakeupInv /\ WaitInv /\ BatchInv /\ BatchSlotInv

\* The steps of Channel that the receiver takes, and those of a batch.
SharedStep(t) ==
    \/ Begin(t)
    \/ t \in Senders /\ SendStep(t)
    \/ t \in Receivers /\ RecvStep(t)
    \/ ListStep(t)

BatchStep(r) ==
    \/ StartMany(r) \/ TakeBatch(r) \/ SampleBatch(r) \/ NotifyMany(r)
    \/ EndOfBatch(r) \/ Unwind(r) \/ Resume(r)

LEMMA OneReceiver == \A q, r \in Receivers : q = r
<1>1. IsFiniteSet(Receivers) /\ Cardinality(Receivers) = 1
  BY MpscAssumption
<1>2. PICK r : Receivers = {r}
  BY <1>1, FS_Singleton
<1>3. QED
  BY <1>2

LEMMA StepsOfReceiver ==
    ASSUME NEW r \in Receivers, ReceiverStep(r)
    PROVE  SharedStep(r) \/ BatchStep(r)
BY DEF ReceiverStep, SingleStep, TakeOne, CancelMany, SharedStep, BatchStep, Begin,
       RecvStep

----------------------------------------------------------------------------
(* Wake-ups, as in Channel.                                                 *)

LEMMA SharedKeepsWakeups ==
    ASSUME WakeupInv, NEW t \in Tasks, SharedStep(t)
    PROVE  WakeupInv'
BY BeginKeepsWakeups, SendKeepsWakeups, RecvKeepsWakeups, ListKeepsWakeups
   DEF SharedStep

\* A receiver without an entry goes into a batch, on in it, or out of it.
LEMMA BatchGoesOn ==
    ASSUME WakeupInv, NEW r \in Receivers, ~id[r],
           pc[r] \in {"idle"} \cup BatchPCs, op[r] # "drop",
           NEW to, NEW kind, \/ to \in BatchPCs /\ kind = "many"
                             \/ to = "pop" /\ kind = "first"
                             \/ to = "idle" /\ kind = "none",
           pc' = [pc EXCEPT ![r] = to], op' = [op EXCEPT ![r] = kind],
           items' \in Seq(Senders \cup {Ready}), undrained' \in 0..Len(items'),
           \A q \in Receivers : ahead[q] \in 0..Len(items'),
           NEW seen, seen \subseteq ToSet(parked["send"]),
           known' = [known EXCEPT ![r] = seen],
           UNCHANGED <<closed, handles, parked, moving, id, wake, woken, ahead,
                       snoozes, targets, back>>
    PROVE  WakeupInv'
<1> r \in Tasks /\ r \notin Senders /\ Other(r) = "send" /\ Own(r) = "recv"
  BY ChannelAssumption DEF Tasks, Other, Own
<1> Typed /\ OperationInv /\ HolderInv /\ EntryInv /\ WakeInv /\ ServeInv /\ CloseInv
  BY DEF WakeupInv
<1>1. UNCHANGED <<closed, handles, parked, moving, id, wake, woken, ahead, snoozes,
                  targets, back>>
  OBVIOUS
<1>2. /\ pc \in [Tasks -> {"gone", "idle", "pending"} \cup SendPCs \cup RecvPCs
                            \cup ListPCs \cup BatchPCs]
      /\ op \in [Tasks -> {"none", "try", "first", "retry", "cancel", "close",
                            "drop"} \cup {"many"}]
      /\ known \in [Tasks -> SUBSET Tasks]
      /\ parked \in [Sides -> Seq(Tasks)]
  BY DEF Typed, Types
<1>3. /\ pc'[r] = to /\ op'[r] = kind /\ OthersStay(r)
      /\ known'[r] = seen /\ \A u \in Tasks \ {r} : known'[u] = known[u]
  BY <1>2 DEF OthersStay
<1>4. Typed'
  <2>1. to \in {"gone", "idle", "pending"} \cup SendPCs \cup RecvPCs
                \cup ListPCs \cup BatchPCs
    BY DEF RecvPCs
  <2>2. kind \in {"none", "try", "first", "retry", "cancel", "close", "drop"}
                 \cup {"many"}
    OBVIOUS
  <2>3. seen \in SUBSET Tasks
    BY <1>2, SomeEntry DEF Sides
  <2>4. pc' \in [Tasks -> {"gone", "idle", "pending"} \cup SendPCs \cup RecvPCs
                            \cup ListPCs \cup BatchPCs]
    BY <1>2, <2>1
  <2>5. op' \in [Tasks -> {"none", "try", "first", "retry", "cancel", "close",
                            "drop"} \cup {"many"}]
    BY <1>2, <2>2
  <2>6. known' \in [Tasks -> SUBSET Tasks]
    BY <1>2, <2>3
  <2>7. ahead' \in [Receivers -> 0..Len(items')]
    BY <1>1 DEF Typed, Types
  <2>8. QED
    BY <1>1, <2>4, <2>5, <2>6, <2>7 DEF Typed, Types
<1>5. OperationInv'
  BY <1>1, <1>3 DEF OperationInv, OthersStay, BatchPCs, AttemptPCs, ClosePCs
<1>6. HolderInv'
  BY <1>1, <1>3, SameHolders DEF OthersStay, BatchPCs
<1>7. EntryInv'
  BY <1>1, <1>3, SameEntries
<1>8. WakeInv'
  <2>1. ~Retrying(r)'
    BY <1>3 DEF Retrying, BatchPCs
  <2>2. pc[r] # "wake"
    BY DEF BatchPCs
  <2>3. QED
    BY <1>1, <1>3, <2>1, <2>2, SameWakers
<1>9. ServeInv'
  <2>1. ~Listed(r)'
    BY <1>1 DEF EntryInv, Listed
  <2>2. QED
    BY <2>1, ReceiverLooks DEF Exposed
<1>10. CloseInv'
  <2>1. ~Deaf(r)' /\ pc[r] \notin {"wake", "wake_receivers", "wake_senders"}
    BY <1>3 DEF Deaf, BatchPCs
  <2>2. QED
    BY <1>1, <1>3, <2>1, OneTaskCloses
<1>11. QED
  BY <1>4, <1>5, <1>6, <1>7, <1>8, <1>9, <1>10 DEF WakeupInv

\* The published prefix of the queue.
LEMMA ReadyPrefix ==
    ASSUME Typed
    PROVE  ReadyCount \in 0..Len(items)
<1>1. \E n \in 0..Len(items) : /\ \A i \in 1..n : items[i] = Ready
                               /\ n < Len(items) => items[n + 1] # Ready
  BY LongestPrefix DEF Typed, Types
<1>2. QED
  BY <1>1 DEF ReadyCount

\* What a batch takes.
LEMMA BatchTaken ==
    ASSUME Typed, BatchInv, NEW r \in Receivers, TakeBatch(r)
    PROVE  \E n \in 1..Len(items) :
             /\ left' = left - n /\ n <= left
             /\ burst' = IF Bounded THEN n ELSE 0
             /\ items' \in Seq(Senders \cup {Ready}) /\ Len(items') = Len(items) - n
             /\ undrained' \in 0..Len(items')
             /\ \A q \in Receivers : ahead[q] = 0
<1>1. PICK n \in 1..ReadyCount :
        /\ n <= left /\ left' = left - n
        /\ burst' = IF Capacity = UNBOUNDED THEN 0 ELSE n
        /\ items' = SubSeq(items, n + 1, Len(items))
        /\ undrained' = IF undrained > n THEN undrained - n ELSE 0
  BY DEF TakeBatch
<1>2. n \in 1..Len(items) /\ Len(items) \in Nat
  BY ReadyPrefix DEF Typed, Types
<1>3. items' \in Seq(Senders \cup {Ready}) /\ Len(items') = Len(items) - n
  BY <1>1, <1>2 DEF Typed, Types
<1>4. undrained' \in 0..Len(items')
  BY <1>1, <1>2, <1>3 DEF Typed, Types
<1>5. pc[r] = "batch"
  BY DEF TakeBatch, Go, GoAs
<1>6. \A q \in Receivers : ahead[q] = 0
  BY <1>5, OneReceiver DEF BatchInv
<1>7. QED
  BY <1>1, <1>2, <1>3, <1>4, <1>6 DEF Bounded

\* Where each step of a batch leads; none but TakeBatch touches the queue.
LEMMA BatchMoves ==
    ASSUME Typed, OperationInv, BatchInv, NEW r \in Receivers,
           BatchStep(r), ~NotifyMany(r)
    PROVE  /\ ~id[r] /\ op[r] # "drop"
           /\ UNCHANGED <<closed, handles, parked, moving, id, wake, woken, ahead,
                          snoozes, targets, back>>
           /\ ~TakeBatch(r) => UNCHANGED <<items, undrained>>
           /\ \E to, kind :
                /\ pc' = [pc EXCEPT ![r] = to] /\ op' = [op EXCEPT ![r] = kind]
                /\ \/ to \in BatchPCs /\ kind = "many"
                   \/ to = "pop" /\ kind = "first"
                   \/ to = "idle" /\ kind = "none"
           /\ known' = known \/ \E seen : /\ known' = [known EXCEPT ![r] = seen]
                                          /\ seen = {} \/ seen = Parked("send")
<1> r \in Tasks
  BY DEF Tasks
<1> USE DEF Go, GoAs, manyFrame, flagVars
<1>1. pc[r] = "idle" \/ (pc[r] \in BatchPCs /\ op[r] = "many")
  BY DEF BatchStep, StartMany, TakeBatch, SampleBatch, EndOfBatch, Unwind, Resume,
         BatchInv, BatchPCs
<1>2. ~id[r] /\ op[r] # "drop"
  BY <1>1 DEF OperationInv, BatchPCs, ClosePCs
<1>3. CASE StartMany(r)
  BY <1>2, <1>3 DEF StartMany, BatchPCs
<1>4. CASE TakeBatch(r)
  <2>1. pc[r] = "batch" /\ op[r] = "many"
    BY <1>1, <1>4 DEF TakeBatch
  <2>2. PICK to \in {"idle", "batch", "freed"} :
          /\ pc' = [pc EXCEPT ![r] = to]
          /\ op' = [op EXCEPT ![r] = IF to = "idle" THEN "none" ELSE op[r]]
    BY <1>4 DEF TakeBatch, AfterBatch
  <2>3. /\ UNCHANGED <<closed, handles, parked, moving, id, wake, woken, ahead,
                       snoozes, targets, back>>
        /\ known' = [known EXCEPT ![r] = IF Capacity = UNBOUNDED THEN {}
                                         ELSE Parked("send")]
    BY <1>4 DEF TakeBatch
  <2>4. QED
    BY <1>2, <1>4, <2>1, <2>2, <2>3 DEF BatchPCs
<1>5. CASE SampleBatch(r)
  <2>1. pc[r] = "freed" /\ op[r] = "many"
    BY <1>1, <1>5 DEF SampleBatch
  <2>2. PICK to \in {"idle", "batch", "notify_many"} :
          /\ pc' = [pc EXCEPT ![r] = to]
          /\ op' = [op EXCEPT ![r] = IF to = "idle" THEN "none" ELSE op[r]]
    BY <1>5 DEF SampleBatch, AfterBatch
  <2>3. /\ UNCHANGED <<closed, handles, parked, moving, id, wake, woken, ahead,
                       snoozes, targets, back, items, undrained>>
        /\ known' = [known EXCEPT ![r] = {}]
    BY <1>5 DEF SampleBatch
  <2>4. QED
    BY <1>2, <1>5, <2>1, <2>2, <2>3 DEF BatchPCs
<1>6. CASE EndOfBatch(r)
  BY <1>2, <1>6 DEF EndOfBatch
<1>7. CASE Unwind(r)
  BY <1>2, <1>7 DEF Unwind
<1>8. CASE Resume(r)
  BY <1>2, <1>8 DEF Resume, BatchPCs
<1>9. QED
  BY <1>3, <1>4, <1>5, <1>6, <1>7, <1>8 DEF BatchStep

\* notify_many takes as many senders out of the list as it was told, or all.
LEMMA ManyTaken ==
    ASSUME Typed, EntryInv, BatchInv, NEW r \in Receivers, NotifyMany(r)
    PROVE  /\ pc[r] = "notify_many" /\ op[r] = "many" /\ OthersStay(r)
           /\ burst' = 0
           /\ UNCHANGED <<items, moving, undrained, closed, handles, wake, ahead,
                          snoozes, id, woken>>
           /\ parked'["recv"] = parked["recv"] /\ parked' \in [Sides -> Seq(Tasks)]
           /\ IsInjective(parked'["send"])
           /\ targets'[r] \subseteq ToSet(parked["send"])
           /\ ToSet(parked'["send"]) = ToSet(parked["send"]) \ targets'[r]
           /\ Cardinality(targets'[r]) = burst \/ parked'["send"] = <<>>
           /\ targets'[r] # {} => pc'[r] = "wake"
           /\ \A u \in Tasks \ {r} : targets'[u] = targets[u] /\ back'[u] = back[u]
           /\ SetParked("send", parked'["send"])
           /\ \/ pc'[r] = "wake" /\ op'[r] = "many" /\ back'[r] \in {"idle", "batch"}
              \/ pc'[r] = "batch" /\ op'[r] = "many" /\ back'[r] = "idle"
              \/ pc'[r] = "idle" /\ op'[r] = "none" /\ back'[r] = "idle"
<1> DEFINE list == parked["send"]
           n == IF Len(list) < burst THEN Len(list) ELSE burst
           first == SubSeq(list, 1, n)
           rest == SubSeq(list, n + 1, Len(list))
<1>1. r \in Tasks /\ pc[r] = "notify_many" /\ op[r] = "many"
  <2>1. pc[r] = "notify_many"
    BY DEF NotifyMany, TakeOut, Go, GoAs
  <2>2. QED
    BY <2>1 DEF Tasks, BatchInv, BatchPCs
<1>2. /\ list \in Seq(Tasks) /\ IsInjective(list) /\ n \in 0..Len(list)
      /\ n = burst \/ n = Len(list)
  BY DEF Typed, Types, EntryInv, Sides, BatchInv
<1>3. /\ ToSet(first) \subseteq ToSet(list) /\ Cardinality(ToSet(first)) = n
      /\ ToSet(rest) = ToSet(list) \ ToSet(first)
      /\ rest \in Seq(Tasks) /\ IsInjective(rest) /\ Len(rest) = Len(list) - n
  <2> HIDE DEF n
  <2>1. QED
    BY <1>2, CutEntries, CutApart
<1>4. n = Len(list) => rest = <<>>
  <2>1. Len(rest) = 0 => rest = <<>>
    BY <1>3
  <2>2. QED
    BY <1>2, <1>3, <2>1
<1>5. /\ burst' = 0
      /\ TakeOut(r, "notify_many", "send", ToSet(first), AfterBatch)
      /\ SetParked("send", rest)
  BY DEF NotifyMany
<1> HIDE DEF first, rest, n
<1>6. /\ parked' = [parked EXCEPT !["send"] = rest]
      /\ parked \in [Sides -> Seq(Tasks)]
  BY <1>5 DEF SetParked, Typed, Types
<1>7. parked'["send"] = rest /\ parked'["recv"] = parked["recv"]
      /\ parked' \in [Sides -> Seq(Tasks)]
  BY <1>3, <1>6 DEF Sides
<1>8. /\ pc' = [pc EXCEPT ![r] = IF list # <<>> THEN "wake" ELSE AfterBatch]
      /\ op' = [op EXCEPT ![r] = IF (IF list # <<>> THEN "wake" ELSE AfterBatch)
                                       \in {"idle", "gone", "pending"}
                                 THEN "none" ELSE op[r]]
      /\ targets' = [targets EXCEPT ![r] = ToSet(first)]
      /\ back' = [back EXCEPT ![r] = IF list # <<>> THEN AfterBatch ELSE "idle"]
      /\ UNCHANGED <<items, moving, undrained, closed, handles, wake, ahead,
                     snoozes, id, woken>>
  BY <1>5 DEF TakeOut, Waiting, Go, GoAs, listFrame, queueVars
<1>9. /\ DOMAIN pc = Tasks /\ DOMAIN op = Tasks /\ DOMAIN targets = Tasks
      /\ DOMAIN back = Tasks
  BY DEF Typed, Types
<1>10. targets'[r] = ToSet(first) /\ OthersStay(r)
       /\ \A u \in Tasks \ {r} : targets'[u] = targets[u] /\ back'[u] = back[u]
  BY <1>1, <1>8, <1>9 DEF OthersStay
<1>11. AfterBatch \in {"idle", "batch"}
  BY DEF AfterBatch
<1>12. \/ pc'[r] = "wake" /\ op'[r] = "many" /\ back'[r] \in {"idle", "batch"}
       \/ pc'[r] = "batch" /\ op'[r] = "many" /\ back'[r] = "idle"
       \/ pc'[r] = "idle" /\ op'[r] = "none" /\ back'[r] = "idle"
  BY <1>1, <1>8, <1>9, <1>11
<1>13. ToSet(first) # {} => pc'[r] = "wake"
  <2>1. ToSet(first) # {} => list # <<>>
    BY <1>3, EmptyList
  <2>2. QED
    BY <2>1, <1>1, <1>8, <1>9
<1>14. Cardinality(targets'[r]) = burst \/ parked'["send"] = <<>>
  BY <1>2, <1>3, <1>4, <1>7, <1>10
<1>15. QED
  BY <1>1, <1>3, <1>5, <1>7, <1>8, <1>10, <1>12, <1>13, <1>14

LEMMA NotifyManyKeepsWakeups ==
    ASSUME WakeupInv, BatchInv, NEW r \in Receivers, NotifyMany(r)
    PROVE  WakeupInv'
<1> r \in Tasks /\ r \notin Senders /\ Other(r) = "send" /\ Own(r) = "recv"
  BY ChannelAssumption DEF Tasks, Other, Own
<1> Typed /\ OperationInv /\ HolderInv /\ EntryInv /\ WakeInv /\ ServeInv /\ CloseInv
  BY DEF WakeupInv
<1>1. /\ pc[r] = "notify_many" /\ op[r] = "many" /\ OthersStay(r)
      /\ UNCHANGED <<items, moving, undrained, closed, handles, wake, ahead,
                     snoozes, id, woken>>
      /\ parked'["recv"] = parked["recv"] /\ parked' \in [Sides -> Seq(Tasks)]
      /\ IsInjective(parked'["send"])
      /\ targets'[r] \subseteq ToSet(parked["send"])
      /\ ToSet(parked'["send"]) = ToSet(parked["send"]) \ targets'[r]
      /\ targets'[r] # {} => pc'[r] = "wake"
      /\ \A u \in Tasks \ {r} : targets'[u] = targets[u] /\ back'[u] = back[u]
      /\ SetParked("send", parked'["send"])
      /\ \/ pc'[r] = "wake" /\ op'[r] = "many" /\ back'[r] \in {"idle", "batch"}
         \/ pc'[r] = "batch" /\ op'[r] = "many" /\ back'[r] = "idle"
         \/ pc'[r] = "idle" /\ op'[r] = "none" /\ back'[r] = "idle"
  BY ManyTaken
<1>2. ~id[r]
  BY <1>1 DEF OperationInv
<1>3. Typed'
  <2>1. known' \in [Tasks -> SUBSET Tasks]
    BY <1>1 DEF SetParked, Typed, Types
  <2>2. targets'[r] \in SUBSET Tasks
    BY <1>1, SomeEntry DEF Typed, Types, Sides
  <2>3. targets' \in [Tasks -> SUBSET Tasks]
    <3>1. \E T : targets' = [targets EXCEPT ![r] = T]
      BY DEF NotifyMany, TakeOut
    <3>2. PICK T : targets' = [targets EXCEPT ![r] = T]
      BY <3>1
    <3>3. T = targets'[r]
      BY <3>2 DEF Typed, Types
    <3>4. QED
      BY <2>2, <3>2, <3>3 DEF Typed, Types
  <2>4. pc' \in [Tasks -> {"gone", "idle", "pending"} \cup SendPCs \cup RecvPCs
                            \cup ListPCs \cup BatchPCs]
    <3>1. PICK to : pc' = [pc EXCEPT ![r] = to]
      BY DEF NotifyMany, TakeOut, Go, GoAs
    <3>2. to = pc'[r]
      BY <3>1 DEF Typed, Types
    <3>3. to \in {"idle"} \cup ListPCs \cup BatchPCs
      BY <1>1, <3>2 DEF ListPCs, BatchPCs
    <3>4. QED
      BY <3>1, <3>3 DEF Typed, Types
  <2>5. op' \in [Tasks -> {"none", "try", "first", "retry", "cancel", "close",
                            "drop"} \cup {"many"}]
    <3>1. PICK kind : op' = [op EXCEPT ![r] = kind]
      BY DEF NotifyMany, TakeOut, Go, GoAs
    <3>2. kind = op'[r]
      BY <3>1 DEF Typed, Types
    <3>3. QED
      BY <1>1, <3>1, <3>2 DEF Typed, Types
  <2>6. back' \in [Tasks -> {"idle", "gone", "unregister", "wake_senders"}
                              \cup {"batch"}]
    <3>1. PICK then : back' = [back EXCEPT ![r] = then]
      BY DEF NotifyMany, TakeOut
    <3>2. then = back'[r]
      BY <3>1 DEF Typed, Types
    <3>3. QED
      BY <1>1, <3>1, <3>2 DEF Typed, Types
  <2>7. QED
    BY <1>1, <2>1, <2>3, <2>4, <2>5, <2>6 DEF Typed, Types
<1>4. OperationInv'
  BY <1>1, <1>2 DEF OperationInv, OthersStay, AttemptPCs, ClosePCs
<1>5. HolderInv'
  BY <1>1, SameHolders DEF OthersStay
<1>6. EntryInv'
  <2>1. \A u \in Tasks : Own(u) = "send" /\ u \in ToSet(parked["send"]) => id[u]
    BY DEF EntryInv, Listed
  <2>2. QED
    BY <1>1, <2>1, FewerEntries DEF Sides
<1>7. ASSUME NEW u \in Tasks
      PROVE  /\ Listed(u) => Listed(u)' \/ u \in targets'[r]
             /\ Listed(u)' => Listed(u)
  <2>1. Own(u) \in {"send", "recv"} /\ Own(u)' = Own(u)
    BY DEF Own
  <2>2. QED
    BY <1>1, <2>1 DEF Listed
<1>8. WakeInv'
  <2>1. ~Retrying(r)'
    BY <1>1 DEF Retrying
  <2>2. targets[r] = {}
    BY <1>1 DEF WakeInv
  <2>3. IsFiniteSet(targets'[r])
    BY <1>1, FiniteEntries, FS_Subset DEF Typed, Types, Sides
  <2>4. ASSUME NEW u \in Tasks
        PROVE  IsFiniteSet(targets'[u]) /\ (targets'[u] # {} => pc'[u] = "wake")
    BY <1>1, <2>3 DEF WakeInv, OthersStay
  <2>5. ASSUME NEW u \in Tasks, Retrying(u)'
        PROVE  Listed(u)' \/ woken'[u] \/ \E c \in Tasks : u \in targets'[c]
    <3>1. u # r /\ Retrying(u)
      BY <1>1, <2>1, <2>5 DEF Retrying, OthersStay
    <3>2. Listed(u) \/ woken[u] \/ \E c \in Tasks : u \in targets[c]
      BY <3>1 DEF WakeInv
    <3>3. QED
      BY <1>1, <1>7, <2>2, <3>2
  <2>6. QED
    BY <2>4, <2>5 DEF WakeInv
<1>9. ServeInv'
  <2>1. ~Exposed(r)'
    BY <1>1 DEF Exposed
  <2>2. QED
    BY <2>1, ReceiverLooks
<1>10. CloseInv'
  <2>1. ASSUME closed', NEW u \in Tasks, Deaf(u)', Listed(u)', ~woken'[u]
        PROVE  \E c \in Tasks : Draining(c, Own(u))'
    <3>1. u # r /\ Deaf(u) /\ Listed(u) /\ ~woken[u]
      BY <1>1, <1>7, <2>1 DEF Deaf, OthersStay
    <3>2. PICK c \in Tasks : Draining(c, Own(u))
      BY <1>1, <2>1, <3>1 DEF CloseInv
    <3>3. c # r
      BY <1>1, <3>2 DEF Draining
    <3>4. Draining(c, Own(u))'
      BY <1>1, <3>2, <3>3 DEF Draining, OthersStay, Own
    <3>5. QED
      BY <3>4
  <2>2. QED
    BY <2>1 DEF CloseInv, Own
<1>11. QED
  BY <1>3, <1>4, <1>5, <1>6, <1>8, <1>9, <1>10 DEF WakeupInv

LEMMA BatchKeepsWakeups ==
    ASSUME WakeupInv, BatchInv, NEW r \in Receivers, BatchStep(r)
    PROVE  WakeupInv'
<1>1. CASE NotifyMany(r)
  BY <1>1, NotifyManyKeepsWakeups
<1>2. CASE ~NotifyMany(r)
  <2>1. Typed /\ OperationInv /\ EntryInv
    BY DEF WakeupInv
  <2>2. /\ ~id[r] /\ op[r] # "drop"
        /\ UNCHANGED <<closed, handles, parked, moving, id, wake, woken, ahead,
                       snoozes, targets, back>>
        /\ ~TakeBatch(r) => UNCHANGED <<items, undrained>>
    BY <1>2, <2>1, BatchMoves
  <2>3. PICK to, kind :
             /\ pc' = [pc EXCEPT ![r] = to] /\ op' = [op EXCEPT ![r] = kind]
             /\ \/ to \in BatchPCs /\ kind = "many"
                \/ to = "pop" /\ kind = "first"
                \/ to = "idle" /\ kind = "none"
    BY <1>2, <2>1, BatchMoves
  <2>4. PICK seen : /\ known' = [known EXCEPT ![r] = seen]
                    /\ seen \subseteq ToSet(parked["send"])
    <3>1. CASE known' = known
      <4>1. known' = [known EXCEPT ![r] = known[r]]
        BY <2>1, <3>1 DEF Typed, Types
      <4>2. r \in Tasks /\ Other(r) = "send"
        BY ChannelAssumption DEF Tasks, Other
      <4>3. known[r] \subseteq ToSet(parked["send"])
        BY <2>1, <4>2 DEF EntryInv
      <4>4. QED
        BY <4>1, <4>3
    <3>2. CASE \E seen : /\ known' = [known EXCEPT ![r] = seen]
                         /\ seen = {} \/ seen = Parked("send")
      BY <3>2 DEF Parked
    <3>3. QED
      BY <1>2, <2>1, <3>1, <3>2, BatchMoves
  <2>5. pc[r] \in {"idle"} \cup BatchPCs
    BY <1>2 DEF BatchStep, StartMany, TakeBatch, SampleBatch, EndOfBatch, Unwind,
                Resume, Go, GoAs, BatchPCs
  <2>6. /\ items' \in Seq(Senders \cup {Ready}) /\ undrained' \in 0..Len(items')
        /\ \A q \in Receivers : ahead[q] \in 0..Len(items')
    <3>1. CASE TakeBatch(r)
      BY <2>1, <3>1, BatchTaken
    <3>2. CASE ~TakeBatch(r)
      BY <2>1, <2>2, <3>2 DEF Typed, Types
    <3>3. QED
      BY <3>1, <3>2
  <2>7. QED
    BY <2>2, <2>3, <2>4, <2>5, <2>6, BatchGoesOn
<1>3. QED
  BY <1>1, <1>2

----------------------------------------------------------------------------
(* How far a batch receive has come.                                        *)

\* No sender enters a batch, or touches the receiver.
LEMMA SendersKeepBatch ==
    ASSUME WakeupInv, BatchInv, NEW s \in Senders, SharedStep(s), UNCHANGED manyVars
    PROVE  BatchInv'
<1> s \in Tasks /\ s \notin Receivers /\ \A r \in Receivers : r \in Tasks /\ r # s
  BY ChannelAssumption DEF Tasks
<1> DOMAIN pc = Tasks /\ DOMAIN op = Tasks /\ DOMAIN back = Tasks
  BY DEF WakeupInv, Typed, Types
<1> pc[s] \notin BatchPCs /\ op[s] # "many" /\ back[s] # "batch"
  BY DEF BatchInv
<1> USE DEF Go, GoAs, queueVars, flagVars, sampleVars
<1>1. /\ UNCHANGED <<moving, ahead>> /\ OthersStay(s)
      /\ \A u \in Tasks \ {s} : back'[u] = back[u]
      /\ pc'[s] \notin BatchPCs /\ op'[s] # "many" /\ back'[s] # "batch"
  <2>1. CASE Begin(s)
    <3>1. UNCHANGED <<moving, ahead, back>>
      BY <2>1 DEF Begin, StartTry, StartFuture, Poll, Cancel, StartClose, Clone,
                  DropHandle, beginFrame
    <3>2. PICK to \in {"idle", "gone", "pending", "swap", "unregister", "check"},
               kind \in {"none", "try", "first", "cancel", "close", "drop", op[s]} :
            pc' = [pc EXCEPT ![s] = to] /\ op' = [op EXCEPT ![s] = kind]
      BY <2>1 DEF Begin, StartTry, StartFuture, Poll, Cancel, StartClose, Clone,
                  DropHandle, Attempt
    <3>3. QED
      BY <3>1, <3>2 DEF OthersStay, BatchPCs
  <2>2. CASE SendStep(s)
    <3>1. UNCHANGED <<moving, ahead, back>>
      BY <2>2 DEF SendStep, CheckClosed, ReportFull, Claim, SampleReceivers,
                  Publish, ParkSender, sendFrame
    <3>2. PICK to \in {"idle", "pending", "discard", "claim", "register", "sample",
                       "publish", "notify", "unregister", "check"},
               kind \in {"none", op[s]} :
            pc' = [pc EXCEPT ![s] = to] /\ op' = [op EXCEPT ![s] = kind]
      BY <2>2 DEF SendStep, CheckClosed, ReportFull, Claim, SampleReceivers,
                  Publish, ParkSender, AfterClosed, AfterSuccess
    <3>3. QED
      BY <3>1, <3>2 DEF OthersStay, BatchPCs
  <2>3. CASE ListStep(s)
    <3>1. UNCHANGED <<moving, ahead>>
      BY <2>3 DEF ListStep, Register, Discard, Unregister, Notify, Forward, NotifyOne,
                  NotifyAll, TakeOut, Wake, SwapClosed, WakeReceivers, WakeSenders,
                  listFrame
    <3>2. PICK to \in {"idle", "gone", "parking", "forward", "wake", "wake_receivers",
                       "wake_senders", "unregister", back[s]},
               kind \in {"none", "retry", op[s]} :
            pc' = [pc EXCEPT ![s] = to] /\ op' = [op EXCEPT ![s] = kind]
      <4>1. CASE Wake(s)
        BY <4>1 DEF Wake
      <4>2. CASE ~Wake(s)
        BY <2>3, <4>2 DEF ListStep, Register, Discard, Unregister, Notify, Forward,
              NotifyOne, NotifyAll, TakeOut, SwapClosed, WakeReceivers, WakeSenders,
              AfterSuccess, AfterClose
      <4>3. QED
        BY <4>1, <4>2
    <3>3. PICK then \in {"idle", "gone", "unregister", "wake_senders", back[s]} :
            back' = [back EXCEPT ![s] = then]
      <4>1. back = [back EXCEPT ![s] = back[s]]
        BY DEF WakeupInv, Typed, Types
      <4>2. CASE Wake(s)
        BY <4>1, <4>2 DEF Wake
      <4>3. CASE ~Wake(s)
        BY <2>3, <4>1, <4>3 DEF ListStep, Register, Discard, Unregister, Notify,
              Forward, NotifyOne, NotifyAll, TakeOut, SwapClosed, WakeReceivers,
              WakeSenders, AfterSuccess, AfterClose
      <4>4. QED
        BY <4>2, <4>3
    <3>4. back[s] \notin BatchPCs
      BY DEF WakeupInv, Typed, Types, BatchPCs
    <3>5. QED
      BY <3>1, <3>2, <3>3, <3>4 DEF OthersStay, BatchPCs
  <2>4. QED
    BY <2>1, <2>2, <2>3 DEF SharedStep
<1>2. /\ UNCHANGED <<left, got, burst, moving, ahead>>
      /\ \A r \in Receivers : pc'[r] = pc[r] /\ op'[r] = op[r] /\ back'[r] = back[r]
  BY <1>1 DEF manyVars, OthersStay
<1>3. \A b \in Senders \ {s} : pc'[b] = pc[b] /\ op'[b] = op[b] /\ back'[b] = back[b]
  BY <1>1 DEF OthersStay, Tasks
<1>4. \A b \in Senders : pc'[b] \notin BatchPCs /\ op'[b] # "many" /\ back'[b] # "batch"
  BY <1>1, <1>3 DEF BatchInv
<1>5. QED
  BY <1>2, <1>4 DEF BatchInv

LEMMA MoreThan ==
    ASSUME NEW more, NEW i, NEW j, more = (i > j)
    PROVE  more \in BOOLEAN /\ (more => i > j)
<1>1. more \in BOOLEAN
  OBVIOUS
<1>2. more => i > j
  OBVIOUS
<1>3. QED
  BY <1>1, <1>2, Zenon

\* What a step of the receiver has to show.
LEMMA ReceiverMoves ==
    ASSUME Typed, BatchInv, NEW r \in Receivers, OthersStay(r),
           \A u \in Tasks \ {r} : back'[u] = back[u],
           moving' = NoTask,
           left' \in Nat, left' <= MaxBatch, got' \in BOOLEAN,
           burst' \in Nat, burst' <= MaxBatch, got' => left' > 0,
           pc'[r] \in BatchPCs => op'[r] = "many",
           op'[r] = "many" => \/ pc'[r] \in BatchPCs
                              \/ pc'[r] = "wake" /\ back'[r] \in {"idle", "batch"},
           back'[r] = "batch" => pc'[r] = "wake" /\ op'[r] = "many",
           left' > 0 => op'[r] \notin {"close", "drop"},
           got' => pc'[r] \in FullHandedPCs,
           pc'[r] \in {"freed", "notify_many"} => Bounded /\ burst' > 0,
           ahead'[r] # 0 => /\ pc'[r] \in {"pop", "state", "indices", "claims", "busy"}
                            /\ op'[r] = "retry"
    PROVE  BatchInv'
<1>1. \A s \in Senders : s \in Tasks \ {r}
  BY ChannelAssumption DEF Tasks
<1>2. \A s \in Senders : pc'[s] = pc[s] /\ op'[s] = op[s] /\ back'[s] = back[s]
  BY <1>1 DEF OthersStay
<1>3. \A s \in Senders : pc'[s] \notin BatchPCs /\ op'[s] # "many" /\ back'[s] # "batch"
  BY <1>2 DEF BatchInv
<1>4. ASSUME NEW q \in Receivers PROVE q = r
  BY OneReceiver
<1>5. Bounded' <=> Bounded
  BY DEF Bounded
<1>6. QED
  BY <1>3, <1>4, <1>5 DEF BatchInv

\* What the receiver's steps outside a batch do to what BatchInv speaks of.
LEMMA SinglesKeepBatch ==
    ASSUME WakeupInv, BatchInv, NEW r \in Receivers, SingleStep(r)
    PROVE  BatchInv'
<1> r \in Tasks /\ r \notin Senders
  BY ChannelAssumption DEF Tasks
<1> Typed /\ OperationInv
  BY DEF WakeupInv
<1> /\ DOMAIN pc = Tasks /\ DOMAIN op = Tasks /\ DOMAIN back = Tasks
    /\ DOMAIN ahead = Receivers
  BY DEF Typed, Types
<1> UNCHANGED <<left, got, burst>>
  BY DEF SingleStep, manyVars
<1> USE DEF Go, GoAs
<1> DEFINE Kept == /\ OthersStay(r) /\ moving' = NoTask
                   /\ \A u \in Tasks \ {r} : back'[u] = back[u]
<1>1. CASE left = 0 /\ (StartTry(r) \/ StartFuture(r) \/ StartClose(r) \/ DropHandle(r))
  <2>1. Kept /\ ahead' = ahead /\ back' = back /\ pc[r] = "idle"
    BY <1>1 DEF StartTry, StartFuture, StartClose, DropHandle, beginFrame, OthersStay,
                queueVars, BatchInv
  <2>2. pc'[r] \in {"pop", "pending", "swap", "gone"} /\ op'[r] # "many"
    BY <1>1 DEF StartTry, StartFuture, StartClose, DropHandle, Attempt
  <2>3. QED
    BY <1>1, <2>1, <2>2, ReceiverMoves DEF BatchInv, BatchPCs
<1>2. CASE Poll(r)
  <2>1. /\ Kept /\ ahead' = ahead /\ back' = back /\ pc[r] = "pending"
        /\ pc'[r] = "pop" /\ op'[r] = "first"
    BY <1>2 DEF Poll, beginFrame, OthersStay, queueVars, BatchInv, Attempt
  <2>2. QED
    BY <2>1, ReceiverMoves DEF BatchInv, BatchPCs, FullHandedPCs
<1>3. CASE SampleSenders(r) \/ FinishPop(r) \/ PopNone(r) \/ LoadClosed(r)
           \/ CheckIndices(r) \/ FindBusy(r) \/ TakeSnapshot(r) \/ CheckClaims(r)
           \/ FindClaims(r) \/ Snooze(r) \/ Yield(r)
  <2>1. Kept /\ back' = back
    <3>1. OthersStay(r) /\ back' = back
      BY <1>3 DEF SampleSenders, FinishPop, PopNone, LoadClosed, CheckIndices, FindBusy,
            TakeSnapshot, CheckClaims, FindClaims, Snooze, Yield, recvFrame, OthersStay
    <3>2. moving' = NoTask
      BY <1>3 DEF SampleSenders, FinishPop, PopNone, LoadClosed, CheckIndices, FindBusy,
            TakeSnapshot, CheckClaims, FindClaims, Snooze, Yield, queueVars, BatchInv
    <3>3. QED
      BY <3>1, <3>2
  <2>2. \/ /\ pc[r] \in {"sample", "finish"} /\ ahead' = ahead
           /\ pc'[r] \in {"finish", "notify", "idle", "unregister"}
        \/ /\ pc[r] \in {"pop", "state", "indices", "busy", "parking", "claims"}
           /\ pc'[r] \in {"idle", "discard", "register", "pop", "state", "indices",
                          "claims", "busy", "pending"}
           /\ ahead'[r] # 0 =>
                /\ ahead'[r] = ahead[r] \/ pc[r] = "parking"
                /\ \/ pc'[r] \in {"pop", "state", "indices", "claims", "busy"}
                   \/ op[r] # "retry"
    BY <1>3 DEF SampleSenders, FinishPop, PopNone, LoadClosed, CheckIndices, FindBusy,
            TakeSnapshot, CheckClaims, FindClaims, Snooze, Yield, ForgetSnapshot,
            AfterSuccess, AfterClosed
  <2>3. /\ op'[r] \in {op[r], "none"}
        /\ op'[r] = "none" => op[r] = "none" \/ pc'[r] \in {"idle", "pending"}
    <3>1. \E to : /\ pc' = [pc EXCEPT ![r] = to]
                  /\ op' = [op EXCEPT ![r] = IF to \in {"idle", "gone", "pending"}
                                             THEN "none" ELSE op[r]]
      BY <1>3 DEF SampleSenders, FinishPop, PopNone, LoadClosed, CheckIndices, FindBusy,
            TakeSnapshot, CheckClaims, FindClaims, Snooze, Yield
    <3>2. pc'[r] # "gone"
      BY <2>2
    <3>3. QED
      BY <3>1, <3>2
  <2>4. op[r] \in {"try", "first", "retry"} /\ back[r] # "batch"
    <3>1. pc[r] \in AttemptPCs \cup {"parking", "claims", "busy"}
      BY <2>2 DEF AttemptPCs
    <3>2. QED
      BY <3>1 DEF OperationInv, BatchInv, AttemptPCs
  <2>5. got => pc'[r] \in FullHandedPCs
    BY <2>2 DEF BatchInv, FullHandedPCs, BatchPCs
  <2>6. ahead'[r] # 0 => /\ pc'[r] \in {"pop", "state", "indices", "claims", "busy"}
                         /\ op'[r] = "retry"
    BY <2>2, <2>3, <2>4 DEF BatchInv, OperationInv
  <2>7. pc'[r] \notin BatchPCs
    BY <2>2 DEF BatchPCs
  <2>8. QED
    BY <2>1, <2>3, <2>4, <2>5, <2>6, <2>7, ReceiverMoves DEF BatchInv, BatchPCs
<1>4. CASE ListStep(r) /\ ~Wake(r)
  <2>1. /\ Kept /\ ahead' = ahead
        /\ pc[r] \in {"register", "discard", "unregister", "notify", "forward", "swap",
                      "wake_receivers", "wake_senders"}
    BY <1>4 DEF ListStep, Register, Discard, Unregister, Notify, Forward, NotifyOne,
                NotifyAll, TakeOut, SwapClosed, WakeReceivers, WakeSenders, listFrame,
                queueVars, OthersStay, BatchInv
  <2>2. /\ pc'[r] \in {"parking", "idle", "gone", "forward", "unregister", "wake",
                       "wake_receivers", "wake_senders"}
        /\ op'[r] \in {op[r], "none", "retry"}
        /\ pc'[r] \in {"parking", "gone", "wake_receivers", "wake_senders"} =>
             pc[r] \in {"register"} \cup ClosePCs
    BY <1>4 DEF ListStep, Register, Discard, Unregister, Notify, Forward, NotifyOne,
                NotifyAll, TakeOut, SwapClosed, WakeReceivers, WakeSenders,
                AfterSuccess, AfterClose, ClosePCs
  <2>3. back'[r] # "batch"
    <3>1. back[r] # "batch"
      BY <2>1 DEF BatchInv
    <3>2. back' = back \/ \E then \in {"idle", "gone", "unregister", "wake_senders"} :
                            back' = [back EXCEPT ![r] = then]
      BY <1>4 DEF ListStep, Register, Discard, Unregister, Notify, Forward, NotifyOne,
                NotifyAll, TakeOut, SwapClosed, WakeReceivers, WakeSenders,
                AfterSuccess, AfterClose
    <3>3. QED
      BY <3>1, <3>2
  <2>4. op[r] # "many"
    BY <2>1 DEF BatchInv, BatchPCs
  <2>5. got => pc'[r] \in FullHandedPCs
    <3>1. got => pc[r] \notin {"register"} \cup ClosePCs
      BY <2>1 DEF BatchInv, FullHandedPCs, BatchPCs, ClosePCs
    <3>2. QED
      BY <2>2, <3>1 DEF FullHandedPCs
  <2>6. QED
    BY <2>1, <2>2, <2>3, <2>4, <2>5, ReceiverMoves DEF BatchInv, BatchPCs
<1>5. CASE Wake(r)
  <2>1. /\ Kept /\ ahead' = ahead /\ pc[r] = "wake"
    BY <1>5 DEF Wake, listFrame, queueVars, OthersStay, BatchInv
  <2>2. \/ pc'[r] = "wake" /\ op'[r] = op[r] /\ back'[r] = back[r]
        \/ /\ pc'[r] = back[r] /\ back'[r] = "idle"
           /\ op'[r] = IF back[r] \in {"idle", "gone", "pending"} THEN "none" ELSE op[r]
    BY <1>5 DEF Wake
  <2>3. back[r] \in {"idle", "gone", "unregister", "wake_senders", "batch"}
    BY DEF Typed, Types
  <2>4. /\ op'[r] \in {op[r], "none"}
        /\ pc'[r] \in BatchPCs => op'[r] = "many"
        /\ op'[r] = "many" => \/ pc'[r] \in BatchPCs
                              \/ pc'[r] = "wake" /\ back'[r] \in {"idle", "batch"}
        /\ back'[r] = "batch" => pc'[r] = "wake" /\ op'[r] = "many"
        /\ pc'[r] \notin {"freed", "notify_many"}
    BY <2>1, <2>2, <2>3 DEF BatchInv, BatchPCs
  <2>5. got => pc'[r] \in FullHandedPCs
    <3>1. got => op[r] \notin {"close", "drop"}
      BY DEF BatchInv
    <3>2. got => back[r] \notin {"gone", "wake_senders"}
      BY <2>1, <3>1 DEF OperationInv
    <3>3. QED
      BY <2>2, <2>3, <3>2 DEF FullHandedPCs, BatchPCs
  <2>6. QED
    BY <2>1, <2>4, <2>5, ReceiverMoves DEF BatchInv, BatchPCs
<1>6. QED
  BY <1>1, <1>2, <1>3, <1>4, <1>5 DEF SingleStep

LEMMA BatchesKeepBatch ==
    ASSUME WakeupInv, BatchInv, NEW r \in Receivers, BatchStep(r)
    PROVE  BatchInv'
<1> r \in Tasks /\ r \notin Senders
  BY ChannelAssumption DEF Tasks
<1> Typed /\ OperationInv /\ EntryInv
  BY DEF WakeupInv
<1> /\ DOMAIN pc = Tasks /\ DOMAIN op = Tasks /\ DOMAIN back = Tasks
    /\ DOMAIN ahead = Receivers /\ MaxBatch \in Nat
  BY MpscAssumption DEF Typed, Types
<1> USE DEF Go, GoAs, BatchPCs, FullHandedPCs
<1>1. pc[r] \in {"idle"} \cup BatchPCs /\ ahead[r] = 0 /\ back[r] # "batch"
      /\ (pc[r] = "idle" \/ op[r] = "many")
  BY DEF BatchStep, StartMany, TakeBatch, SampleBatch, NotifyMany, TakeOut, EndOfBatch,
         Unwind, Resume, BatchInv
<1>2. CASE NotifyMany(r)
  <2>1. /\ OthersStay(r) /\ burst' = 0 /\ moving' = moving /\ ahead' = ahead
        /\ \A u \in Tasks \ {r} : back'[u] = back[u]
        /\ \/ pc'[r] = "wake" /\ op'[r] = "many" /\ back'[r] \in {"idle", "batch"}
           \/ pc'[r] = "batch" /\ op'[r] = "many" /\ back'[r] = "idle"
           \/ pc'[r] = "idle" /\ op'[r] = "none" /\ back'[r] = "idle"
    BY <1>2, ManyTaken
  <2>2. left' = left /\ got' = got
    BY <1>2 DEF NotifyMany
  <2>3. QED
    BY <1>1, <2>1, <2>2, ReceiverMoves DEF BatchInv
<1>3. ASSUME pc[r] # "notify_many"
      PROVE  /\ OthersStay(r) /\ moving' = NoTask /\ ahead' = ahead
             /\ back' = back
  <2>1. ~NotifyMany(r)
    BY <1>3 DEF NotifyMany, TakeOut
  <2>2. UNCHANGED <<moving, ahead, back>>
    BY <2>1, BatchMoves
  <2>3. PICK to, kind : /\ pc' = [pc EXCEPT ![r] = to] /\ op' = [op EXCEPT ![r] = kind]
    BY <2>1, BatchMoves
  <2>4. QED
    BY <2>2, <2>3 DEF BatchInv, OthersStay
<1>4. CASE StartMany(r)
  <2>1. /\ pc'[r] = "batch" /\ op'[r] = "many" /\ left' \in 1..MaxBatch
        /\ got' = FALSE /\ burst' = burst /\ pc[r] = "idle"
    BY <1>4 DEF StartMany
  <2>2. left' \in Nat /\ left' <= MaxBatch /\ burst \in Nat /\ burst <= MaxBatch
    BY <2>1 DEF BatchInv
  <2>3. QED
    BY <1>1, <1>3, <2>1, <2>2, ReceiverMoves
<1>5. CASE TakeBatch(r)
  <2>1. PICK n \in 1..Len(items) : /\ left' = left - n /\ n <= left
                                   /\ burst' = IF Bounded THEN n ELSE 0
    BY <1>5, BatchTaken
  <2>2. /\ pc[r] = "batch" /\ got' = (left' > 0)
        /\ pc'[r] = IF Bounded THEN "freed" ELSE AfterBatch
        /\ op'[r] = IF pc'[r] = "idle" THEN "none" ELSE op[r]
    BY <1>5 DEF TakeBatch, Bounded, AfterBatch
  <2>3. left \in Nat /\ left <= MaxBatch /\ n \in Nat /\ n > 0 /\ op[r] = "many"
    BY <1>1, <2>2 DEF BatchInv
  <2>4. left' \in Nat /\ left' <= MaxBatch /\ burst' \in Nat /\ burst' <= MaxBatch
        /\ (Bounded => burst' > 0)
    BY <2>1, <2>3
  <2>5. left' > 0 => AfterBatch = "batch"
    BY <2>4 DEF AfterBatch
  <2>6. AfterBatch \in {"batch", "idle"}
    BY DEF AfterBatch
  <2>7. got' \in BOOLEAN /\ (got' => left' > 0)
    <3>1. got' = (left' > 0)
      BY <1>5 DEF TakeBatch
    <3>2. QED
      BY <3>1, MoreThan
  <2>8. QED
    BY <1>1, <1>3, <2>2, <2>3, <2>4, <2>5, <2>6, <2>7, ReceiverMoves
<1>6. CASE SampleBatch(r)
  <2>1. PICK wakes \in 0..burst :
          /\ left' = left /\ burst' = wakes /\ got' = got
          /\ pc[r] = "freed"
          /\ pc'[r] = IF wakes > 0 THEN "notify_many" ELSE AfterBatch
          /\ op'[r] = IF pc'[r] = "idle" THEN "none" ELSE op[r]
    BY <1>6 DEF SampleBatch, AfterBatch
  <2>2. AfterBatch \in {"batch", "idle"}
    BY DEF AfterBatch
  <2>3. op[r] = "many" /\ Bounded
    BY <1>1, <2>1 DEF BatchInv
  <2>4. QED
    BY <1>1, <1>3, <2>1, <2>2, <2>3, ReceiverMoves DEF BatchInv
<1>7. CASE EndOfBatch(r)
  <2>1. /\ pc[r] = "batch" /\ got' = FALSE /\ burst' = burst
        /\ \/ got /\ pc'[r] = "idle" /\ op'[r] = "none" /\ left' = 0
           \/ ~got /\ pc'[r] = "pop" /\ op'[r] = "first" /\ left' = left
    BY <1>7 DEF EndOfBatch
  <2>2. /\ left \in Nat /\ left <= MaxBatch
        /\ burst \in Nat /\ burst <= MaxBatch
    BY DEF BatchInv
  <2>3. got' \in BOOLEAN /\ ~got'
    BY <2>1
  <2>4. QED
    BY <1>1, <1>3, <2>1, <2>2, <2>3, ReceiverMoves
<1>8. CASE Unwind(r)
  <2>1. /\ pc[r] = "batch" /\ got' = FALSE /\ burst' = burst /\ left' = 0
        /\ pc'[r] = "idle" /\ op'[r] = "none"
    BY <1>8 DEF Unwind
  <2>2. burst \in Nat /\ burst <= MaxBatch
    BY DEF BatchInv
  <2>3. left' \in Nat /\ left' <= MaxBatch
    BY <2>1
  <2>4. QED
    BY <1>1, <1>3, <2>1, <2>2, <2>3, ReceiverMoves
<1>9. CASE Resume(r)
  <2>1. /\ pc[r] = "idle" /\ got' = got /\ burst' = burst
        /\ \/ got /\ pc'[r] = "batch" /\ op'[r] = "many" /\ left' = left
           \/ ~got /\ pc'[r] = "idle" /\ op'[r] = "none" /\ left' = 0
    BY <1>9 DEF Resume
  <2>2. QED
    BY <1>1, <1>3, <2>1, ReceiverMoves DEF BatchInv
<1>10. QED
  BY <1>2, <1>4, <1>5, <1>6, <1>7, <1>8, <1>9 DEF BatchStep

LEMMA ReceiverKeepsBatch ==
    ASSUME WakeupInv, BatchInv, NEW r \in Receivers, ReceiverStep(r)
    PROVE  BatchInv'
<1> r \in Tasks
  BY DEF Tasks
<1> Typed /\ OperationInv
  BY DEF WakeupInv
<1> /\ DOMAIN pc = Tasks /\ DOMAIN op = Tasks /\ DOMAIN back = Tasks
    /\ DOMAIN ahead = Receivers /\ MaxBatch \in Nat
  BY MpscAssumption DEF Typed, Types
<1> USE DEF Go, GoAs
<1>1. CASE TakeOne(r)
  <2>1. /\ pc[r] = "pop" /\ pc'[r] \in {"finish", "sample"} /\ op'[r] = op[r]
        /\ OthersStay(r) /\ back' = back /\ moving' = NoTask /\ ahead'[r] = 0
        /\ left' = (IF left > 0 THEN left - 1 ELSE 0) /\ got' = (left > 1)
        /\ burst' = burst
    BY <1>1 DEF TakeOne, Take, recvFrame, OthersStay
  <2>2. op[r] \in {"try", "first", "retry"} /\ back[r] # "batch"
    BY <2>1 DEF OperationInv, AttemptPCs, BatchInv
  <2>3. left \in Nat /\ left <= MaxBatch /\ burst \in Nat /\ burst <= MaxBatch
    BY DEF BatchInv
  <2>4. got' \in BOOLEAN /\ (got' => left > 1)
    <3>1. got' = (left > 1)
      BY <1>1 DEF TakeOne
    <3>2. QED
      BY <3>1, MoreThan
  <2>5. left' \in Nat /\ left' <= MaxBatch /\ (left > 1 => left' > 0)
    BY <2>1, <2>3
  <2>6. QED
    BY <2>1, <2>2, <2>3, <2>4, <2>5, ReceiverMoves DEF BatchPCs, FullHandedPCs
<1>2. CASE CancelMany(r)
  <2>1. /\ pc[r] = "pending" /\ pc'[r] \in {"unregister", "idle"}
        /\ op'[r] \in {"none", "cancel"} /\ OthersStay(r) /\ back' = back
        /\ moving' = moving /\ ahead' = ahead /\ left' = 0
        /\ got' = got /\ burst' = burst
    BY <1>2 DEF CancelMany, Cancel, beginFrame, queueVars, OthersStay
  <2>2. ~got /\ ahead[r] = 0 /\ back[r] # "batch"
    BY <2>1 DEF BatchInv, FullHandedPCs, BatchPCs
  <2>3. QED
    BY <2>1, <2>2, ReceiverMoves DEF BatchInv, BatchPCs
<1>3. QED
  BY <1>1, <1>2, SinglesKeepBatch, BatchesKeepBatch DEF ReceiverStep, BatchStep

\* A batch changes nothing that WaitInv speaks of.
LEMMA BatchKeepsWaits ==
    ASSUME WakeupInv, BatchInv, WaitInv, NEW r \in Receivers, BatchStep(r)
    PROVE  WaitInv'
<1>1. Typed /\ OperationInv /\ EntryInv
  BY DEF WakeupInv
<1>2. \A s \in Senders : s \in Tasks /\ s # r
  BY ChannelAssumption DEF Tasks
<1>3. closed' = closed /\ id' = id /\ OthersStay(r)
  <2>1. CASE NotifyMany(r)
    BY <1>1, <2>1, ManyTaken
  <2>2. CASE ~NotifyMany(r)
    <3>1. closed' = closed /\ id' = id
      BY <1>1, <2>2, BatchMoves
    <3>2. PICK to, kind : /\ pc' = [pc EXCEPT ![r] = to]
                          /\ op' = [op EXCEPT ![r] = kind]
      BY <1>1, <2>2, BatchMoves
    <3>3. QED
      BY <1>1, <3>1, <3>2 DEF OthersStay, Typed, Types
  <2>3. QED
    BY <2>1, <2>2
<1>4. \A s \in Senders : pc'[s] = pc[s]
  BY <1>2, <1>3 DEF OthersStay
<1>5. Bounded' <=> Bounded
  BY DEF Bounded
<1>6. QED
  BY <1>3, <1>4, <1>5 DEF WaitInv

----------------------------------------------------------------------------
(* Free slots: what a step of Channel does to who sleeps and who watches.   *)

\* A list changes by a step of its own task, or shrinks.
LEMMA ListsShrink ==
    ASSUME WakeupInv, NEW t \in Tasks, SharedStep(t)
    PROVE  /\ \A s \in Senders \ {t} : (Listed(s)' => Listed(s)) /\ id'[s] = id[s]
           /\ t \in Senders /\ pc[t] # "register" => (Listed(t)' => Listed(t))
           /\ \A q \in Receivers \ {t} :
                known[q] \cap ToSet(parked'["send"]) \subseteq known'[q]
<1> /\ Typed /\ EntryInv
  BY DEF WakeupInv
<1> /\ DOMAIN id = Tasks /\ DOMAIN known = Tasks /\ DOMAIN parked = Sides
    /\ parked \in [Sides -> Seq(Tasks)]
  BY DEF Typed, Types
<1>1. /\ \A s \in Senders : s \in Tasks /\ Own(s) = "send" /\ Other(s) = "recv"
      /\ \A r \in Receivers : r \in Tasks /\ Own(r) = "recv" /\ Other(r) = "send"
      /\ t \in Senders \/ t \in Receivers
  BY ChannelAssumption DEF Tasks, Own, Other
<1>2. ASSUME NEW side \in Sides, NEW list, SetParked(side, list)
      PROVE  /\ \A q \in Receivers :
                  known[q] \cap ToSet(parked'["send"]) \subseteq known'[q]
             /\ parked'[side] = list
             /\ \A other \in Sides \ {side} : parked'[other] = parked[other]
  <2>1. /\ parked'[side] = list
        /\ \A other \in Sides \ {side} : parked'[other] = parked[other]
    BY <1>2 DEF SetParked
  <2>2. ASSUME NEW q \in Receivers
        PROVE  known[q] \cap ToSet(parked'["send"]) \subseteq known'[q]
    <3>1. known'[q] = IF side = "send" THEN known[q] \cap ToSet(list) ELSE known[q]
      BY <1>1, <1>2 DEF SetParked
    <3>2. QED
      BY <2>1, <3>1
  <2>3. QED
    BY <2>1, <2>2
<1>3. CASE UNCHANGED <<parked, id>> /\ \E seen : known' = [known EXCEPT ![t] = seen]
  BY <1>1, <1>3 DEF Listed
<1>4. CASE /\ SetParked(Own(t), RemoveFirst(parked[Own(t)], t))
           /\ id' = [id EXCEPT ![t] = FALSE]
  <2>1. ~Listed(t)' /\ \A u \in Tasks \ {t} : Listed(u)' <=> Listed(u)
    BY <1>4, OwnEntryRemoved
  <2>2. Own(t) \in Sides
    BY <1>1 DEF Sides
  <2>3. QED
    BY <1>1, <1>2, <1>4, <2>1, <2>2
<1>5. CASE Register(t)
  <2>1. /\ SetParked(Own(t), Append(parked[Own(t)], t)) /\ pc[t] = "register"
        /\ id' = [id EXCEPT ![t] = TRUE]
    BY <1>5 DEF Register, GoAs
  <2>2. Own(t) \in Sides
    BY <1>1 DEF Sides
  <2>3. ~id[t] /\ t \notin ToSet(parked[Own(t)])
    BY <2>1 DEF WakeupInv, OperationInv, EntryInv, Listed
  <2>4. ToSet(parked'[Own(t)]) = ToSet(parked[Own(t)]) \cup {t}
    <3>1. parked[Own(t)] \in Seq(Tasks) /\ IsInjective(parked[Own(t)])
      BY <2>2 DEF EntryInv
    <3>2. parked'[Own(t)] = Append(parked[Own(t)], t)
      BY <1>2, <2>1, <2>2
    <3>3. QED
      BY <2>3, <3>1, <3>2, AddedEntry
  <2>5. \A other \in Sides \ {Own(t)} : parked'[other] = parked[other]
    BY <1>2, <2>1, <2>2
  <2>6. ASSUME NEW s \in Senders \ {t}, Listed(s)' PROVE Listed(s)
    <3>1. s \in ToSet(parked'["send"]) /\ "send" \in Sides
      BY <1>1, <2>6 DEF Listed, Sides
    <3>2. s \in ToSet(parked["send"])
      BY <2>4, <2>5, <3>1
    <3>3. QED
      BY <1>1, <3>2 DEF Listed
  <2>7. QED
    BY <1>1, <1>2, <2>1, <2>2, <2>6
<1>6. ASSUME NEW side \in Sides, NEW from, NEW then,
             NotifyOne(t, from, side, then) \/ NotifyAll(t, from, side, then)
      PROVE  /\ \A s \in Senders : (Listed(s)' => Listed(s)) /\ id'[s] = id[s]
             /\ \A q \in Receivers :
                  known[q] \cap ToSet(parked'["send"]) \subseteq known'[q]
  <2>1. NotifyOne(t, from, side, then) \/ NotifyAll(t, from, side, then)
    BY <1>6
  <2>2. /\ ToSet(parked'[side]) \subseteq ToSet(parked[side]) /\ id' = id
        /\ \A other \in Sides \ {side} : parked'[other] = parked[other]
    <3>1. ToSet(parked'[side]) = ToSet(parked[side]) \ targets'[t] /\ id' = id
      BY <2>1, EntriesTaken
    <3>2. \A other \in Sides \ {side} : parked'[other] = parked[other]
      BY <2>1, OtherListStays
    <3>3. QED
      BY <3>1, <3>2
  <2>3. \A s \in Senders : Listed(s)' => Listed(s)
    BY <1>1, <2>2 DEF Listed, Sides
  <2>4. \A q \in Receivers : known[q] \cap ToSet(parked'["send"]) \subseteq known'[q]
    BY <1>2, <2>1 DEF NotifyOne, NotifyAll
  <2>5. QED
    BY <2>2, <2>3, <2>4
<1>7. CASE Begin(t) /\ ~Poll(t)
  <2>1. known = [known EXCEPT ![t] = known[t]]
    BY DEF Typed, Types
  <2>2. UNCHANGED <<parked, id, known>>
    BY <1>7 DEF Begin, StartTry, StartFuture, Cancel, StartClose, Clone, DropHandle
  <2>3. QED
    BY <1>3, <2>1, <2>2
<1>8. CASE t \in Senders /\ SendStep(t)
  <2>1. known = [known EXCEPT ![t] = known[t]]
    BY DEF Typed, Types
  <2>2. /\ UNCHANGED <<parked, id>>
        /\ known' = known \/ \E seen : known' = [known EXCEPT ![t] = seen]
    BY <1>8 DEF SendStep, CheckClosed, ReportFull, Claim, SampleReceivers, Publish,
                ParkSender, sendFrame, sampleVars
  <2>3. QED
    BY <1>3, <2>1, <2>2
<1>9. CASE t \in Receivers /\ RecvStep(t)
  <2>1. known = [known EXCEPT ![t] = known[t]]
    BY DEF Typed, Types
  <2>2. /\ UNCHANGED <<parked, id>>
        /\ known' = known \/ \E seen : known' = [known EXCEPT ![t] = seen]
    BY <1>9 DEF RecvStep, Take, SampleSenders, FinishPop, PopNone, LoadClosed,
                CheckIndices, FindBusy, TakeSnapshot, CheckClaims, FindClaims,
                Snooze, Yield, recvFrame, sampleVars
  <2>3. QED
    BY <1>3, <2>1, <2>2
<1>10. CASE Wake(t) \/ SwapClosed(t)
  <2>1. known = [known EXCEPT ![t] = known[t]]
    BY DEF Typed, Types
  <2>2. UNCHANGED <<parked, id, known>>
    BY <1>10 DEF Wake, SwapClosed, sampleVars
  <2>3. QED
    BY <1>3, <2>1, <2>2
<1>11. CASE Poll(t) \/ Discard(t) \/ Unregister(t)
  BY <1>4, <1>11 DEF Poll, Discard, Unregister
<1>12. CASE Notify(t) \/ Forward(t) \/ WakeReceivers(t) \/ WakeSenders(t)
  BY <1>1, <1>6, <1>12 DEF Notify, Forward, WakeReceivers, WakeSenders, Sides
<1>13. QED
  BY <1>5, <1>7, <1>8, <1>9, <1>10, <1>11, <1>12 DEF SharedStep, ListStep

\* One task moves, and nothing opens the channel again.
LEMMA OneTaskMoves ==
    ASSUME Typed, NEW t \in Tasks, SharedStep(t)
    PROVE  OthersStay(t) /\ (closed => closed')
<1> DOMAIN pc = Tasks /\ DOMAIN op = Tasks
  BY DEF Typed, Types
<1> USE DEF Go, GoAs, OthersStay
<1>1. CASE Begin(t)
  BY <1>1 DEF Begin, StartTry, StartFuture, Poll, Cancel, StartClose, Clone, DropHandle,
              beginFrame
<1>2. CASE t \in Senders /\ SendStep(t)
  BY <1>2 DEF SendStep, CheckClosed, ReportFull, Claim, SampleReceivers, Publish,
              ParkSender, sendFrame, flagVars
<1>3. CASE t \in Receivers /\ RecvStep(t)
  BY <1>3 DEF RecvStep, Take, SampleSenders, FinishPop, PopNone, LoadClosed,
              CheckIndices, FindBusy, TakeSnapshot, CheckClaims, FindClaims,
              Snooze, Yield, recvFrame, flagVars
<1>4. CASE ListStep(t)
  BY <1>4 DEF ListStep, Register, Discard, Unregister, Notify, Forward, NotifyOne,
              NotifyAll, TakeOut, Wake, SwapClosed, WakeReceivers, WakeSenders,
              listFrame, flagVars
<1>5. QED
  BY <1>1, <1>2, <1>3, <1>4 DEF SharedStep

\* What a sender's own step does to its future's place among those that sleep, and
\* those that pass a wake-up on.
LEMMA OwnFuture ==
    ASSUME WakeupInv, WaitInv, HasRoom, ~closed, NEW s \in Senders, SharedStep(s)
    PROVE  /\ pc'[s] = "pending" => ~id'[s]
           /\ id[s] /\ pc[s] # "pending" =>
                \/ id'[s] /\ pc'[s] # "pending"
                \/ pc[s] = "unregister" /\ (Listed(s) \/ pc'[s] = "forward")
           /\ pc[s] = "forward" => Forward(s)
<1> s \in Tasks /\ s \notin Receivers
  BY ChannelAssumption DEF Tasks
<1> Typed /\ OperationInv
  BY DEF WakeupInv
<1> /\ DOMAIN pc = Tasks /\ DOMAIN op = Tasks /\ DOMAIN id = Tasks
    /\ parked \in [Sides -> Seq(Tasks)]
    /\ back[s] \in {"idle", "gone", "unregister", "wake_senders", "batch"}
  BY DEF Typed, Types
<1> USE DEF Go, GoAs
<1>1. CASE Begin(s)
  BY <1>1 DEF Begin, StartTry, StartFuture, Poll, Cancel, StartClose, Clone, DropHandle,
              Attempt, OperationInv
<1>2. CASE SendStep(s)
  <2>1. id' = id /\ pc[s] # "pending" /\ pc'[s] # "pending" /\ pc[s] # "forward"
    BY <1>2 DEF SendStep, CheckClosed, ReportFull, Claim, SampleReceivers, Publish,
                ParkSender, sendFrame, AfterClosed, AfterSuccess
  <2>2. QED
    BY <2>1
<1>3. CASE Unregister(s)
  <2>1. Contains(parked[Own(s)], s) => Listed(s)
    BY SidesOf DEF Contains, Listed, ToSet
  <2>2. QED
    BY <1>3, <2>1 DEF Unregister
<1>4. CASE ListStep(s) /\ ~Unregister(s)
  <2>1. CASE Register(s)
    BY <2>1 DEF Register
  <2>2. CASE Discard(s)
    BY <2>2 DEF Discard, WaitInv
  <2>3. CASE Notify(s)
    BY <2>3 DEF Notify, NotifyOne, TakeOut, AfterSuccess
  <2>4. CASE Forward(s)
    BY <2>4 DEF Forward, NotifyOne, TakeOut
  <2>5. CASE Wake(s)
    BY <2>5 DEF Wake
  <2>6. CASE SwapClosed(s)
    BY <2>6 DEF SwapClosed, AfterClose
  <2>7. CASE WakeReceivers(s)
    BY <2>7 DEF WakeReceivers, NotifyAll, TakeOut
  <2>8. CASE WakeSenders(s)
    BY <2>8 DEF WakeSenders, NotifyAll, TakeOut, AfterClose
  <2>9. QED
    BY <1>4, <2>1, <2>2, <2>3, <2>4, <2>5, <2>6, <2>7, <2>8 DEF ListStep
<1>5. QED
  BY <1>1, <1>2, <1>3, <1>4 DEF SharedStep

\* While there is room nobody goes to sleep, and only a notification ends the duty to
\* pass a wake-up on.
LEMMA SleepersShrink ==
    ASSUME WakeupInv, WakeupInv', WaitInv, HasRoom, ~closed, NEW t \in Tasks,
           SharedStep(t)
    PROVE  /\ Sleepers' \subseteq Sleepers
           /\ \A s \in Forwarders : s \in Forwarders' \/ (s = t /\ Forward(s))
<1> Typed /\ EntryInv /\ EntryInv' /\ OperationInv
  BY DEF WakeupInv
<1>1. OthersStay(t)
  BY OneTaskMoves
<1>2. /\ \A s \in Senders \ {t} : (Listed(s)' => Listed(s)) /\ id'[s] = id[s]
      /\ t \in Senders /\ pc[t] # "register" => (Listed(t)' => Listed(t))
  BY ListsShrink
<1>3. \A s \in Senders : s \in Tasks
  BY DEF Tasks
<1>4. \A s \in Senders : s # t => pc'[s] = pc[s]
  BY <1>1, <1>3 DEF OthersStay
<1>5. t \in Senders =>
        /\ pc'[t] = "pending" => ~id'[t]
        /\ id[t] /\ pc[t] # "pending" =>
             \/ id'[t] /\ pc'[t] # "pending"
             \/ pc[t] = "unregister" /\ (Listed(t) \/ pc'[t] = "forward")
        /\ pc[t] = "forward" => Forward(t)
  BY OwnFuture
<1>6. \A s \in Tasks : /\ (Listed(s) => id[s]) /\ (Listed(s)' => id'[s])
                       /\ pc[s] = "register" => ~id[s]
  BY DEF EntryInv, OperationInv
<1>7. ASSUME NEW s \in Senders, SleepsListed(s)' PROVE SleepsListed(s)
  BY <1>2, <1>3, <1>4, <1>5, <1>6, <1>7 DEF SleepsListed
<1>8. ASSUME NEW s \in Forwarders PROVE s \in Forwarders' \/ (s = t /\ Forward(s))
  <2>1. /\ s \in Senders /\ pc[s] # "pending"
        /\ (id[s] /\ ~Listed(s)) \/ pc[s] = "forward"
    BY DEF Forwarders, Absorbed
  <2>2. CASE s # t
    BY <1>2, <1>4, <2>1, <2>2 DEF Forwarders, Absorbed
  <2>3. CASE s = t
    BY <1>2, <1>3, <1>5, <1>6, <2>1, <2>3 DEF Forwarders, Absorbed
  <2>4. QED
    BY <2>2, <2>3
<1>9. QED
  BY <1>7, <1>8 DEF Sleepers

\* Who sleeps and who forwards can be counted.
LEMMA CountedSleepers ==
    ASSUME WakeupInv, WakeupInv'
    PROVE  /\ IsFiniteSet(Sleepers) /\ Cardinality(Sleepers) \in Nat
           /\ IsFiniteSet(Sleepers') /\ Cardinality(Sleepers') \in Nat
           /\ IsFiniteSet(Forwarders) /\ Cardinality(Forwarders) \in Nat
           /\ IsFiniteSet(Forwarders') /\ Cardinality(Forwarders') \in Nat
<1>1. /\ IsFiniteSet(ToSet(parked["send"])) /\ IsFiniteSet(ToSet(parked'["send"]))
  BY FiniteEntries DEF WakeupInv, Typed, Types, Sides
<1>2. /\ Sleepers \subseteq ToSet(parked["send"])
      /\ Sleepers' \subseteq ToSet(parked'["send"])
  BY DEF Sleepers, SleepsListed, Listed, Own
<1>3. IsFiniteSet(Absorbed) /\ IsFiniteSet(Absorbed')
  BY FinitelyMany
<1>4. Forwarders \subseteq Absorbed /\ Forwarders' \subseteq Absorbed'
  BY DEF Forwarders
<1>5. QED
  BY <1>1, <1>2, <1>3, <1>4, FS_Subset, FS_CardinalityType

\* Nobody is left out who was not left out before.
LEMMA StillCovered ==
    ASSUME WakeupInv, WakeupInv', BatchInv, Covered,
           Sleepers' \subseteq Sleepers, Forwarders \subseteq Forwarders',
           Pledged' = Pledged
    PROVE  Covered'
<1>1. /\ Cardinality(Sleepers') <= Cardinality(Sleepers)
      /\ Cardinality(Forwarders) <= Cardinality(Forwarders')
  BY CountedSleepers, FS_Subset
<1>2. Pledged \in Nat
  BY DEF Pledged, BatchInv
<1>3. QED
  BY <1>1, <1>2, CountedSleepers DEF Covered

\* A wake-up that is passed on reaches a sleeper, or a sender that will pass it on.
LEMMA ForwardCovers ==
    ASSUME WakeupInv, WakeupInv', BatchInv, Covered, NEW t \in Senders, Forward(t),
           Sleepers' \subseteq Sleepers,
           \A s \in Forwarders : s \in Forwarders' \/ s = t,
           Pledged' = Pledged
    PROVE  Covered'
<1> Typed /\ EntryInv /\ OperationInv
  BY DEF WakeupInv
<1>1. /\ \A s \in Senders : s \in Tasks /\ Own(s) = "send" /\ s \notin Receivers
      /\ \A r \in Receivers : r \in Tasks /\ Other(r) = "send"
  BY ChannelAssumption DEF Tasks, Own, Other
<1>2. /\ pc[t] = "forward" /\ OthersStay(t)
      /\ NotifyOne(t, "forward", "send", "idle")
  BY <1>1 DEF Forward, NotifyOne, TakeOut, Go, GoAs, OthersStay, Typed, Types
<1>3. /\ ToSet(parked'["send"]) = ToSet(parked["send"]) \ targets'[t]
      /\ targets'[t] \subseteq ToSet(parked["send"])
      /\ parked["send"] # <<>> => targets'[t] # {}
      /\ id' = id
  BY <1>1, <1>2, EntriesTaken DEF Sides
<1>4. Pledged \in Nat
  BY DEF Pledged, BatchInv
<1>5. CASE parked["send"] = <<>>
  <2>1. Sleepers' = {}
    BY <1>1, <1>3, <1>5, EmptyList DEF Sleepers, SleepsListed, Listed
  <2>2. Cardinality(Sleepers') = 0
    BY <2>1, FS_EmptySet
  <2>3. QED
    BY <1>4, <2>2, CountedSleepers DEF Covered
<1>6. CASE parked["send"] # <<>>
  <2>1. PICK h \in targets'[t] : h \in ToSet(parked["send"])
    BY <1>3, <1>6
  <2>2. h \in Senders
    <3>1. h \in Tasks
      BY <2>1, SomeEntry DEF Typed, Types, Sides
    <3>2. h \notin Receivers
      BY <2>1, <1>1 DEF EntryInv
    <3>3. QED
      BY <3>1, <3>2 DEF Tasks
  <2>3. id[h] /\ Listed(h) /\ ~Listed(h)'
    BY <1>1, <1>3, <2>1, <2>2 DEF EntryInv, Listed
  <2>4. h # t /\ pc'[h] = pc[h] /\ pc[h] # "forward"
    BY <1>1, <1>2, <2>2, <2>3 DEF OperationInv, OthersStay
  <2>5. h \notin Forwarders
    BY <2>3, <2>4 DEF Forwarders, Absorbed
  <2>6. Forwarders \ {t} \subseteq Forwarders'
    OBVIOUS
  <2>7. /\ IsFiniteSet(Forwarders \ {t})
        /\ Cardinality(Forwarders \ {t}) >= Cardinality(Forwarders) - 1
        /\ Cardinality(Forwarders \ {t}) \in Nat
    <3>1. /\ IsFiniteSet(Forwarders \ {t})
          /\ Cardinality(Forwarders \ {t}) = IF t \in Forwarders
                                            THEN Cardinality(Forwarders) - 1
                                            ELSE Cardinality(Forwarders)
      BY CountedSleepers, FS_RemoveElement
    <3>2. Cardinality(Forwarders \ {t}) \in Nat
      BY <3>1, FS_CardinalityType
    <3>3. QED
      BY <3>1, <3>2, CountedSleepers
  <2>8. CASE pc[h] = "pending"
    <3>1. h \in Sleepers /\ h \notin Sleepers'
      BY <2>2, <2>3, <2>8 DEF Sleepers, SleepsListed
    <3>2. Sleepers' \subseteq Sleepers \ {h}
      BY <3>1
    <3>3. /\ Cardinality(Sleepers') <= Cardinality(Sleepers \ {h})
          /\ Cardinality(Sleepers \ {h}) = Cardinality(Sleepers) - 1
      BY <3>1, <3>2, CountedSleepers, FS_Subset, FS_RemoveElement
    <3>4. Cardinality(Forwarders \ {t}) <= Cardinality(Forwarders')
      BY <2>6, CountedSleepers, FS_Subset
    <3>5. QED
      BY <1>4, <2>7, <3>3, <3>4, CountedSleepers DEF Covered
  <2>9. CASE pc[h] # "pending"
    <3>1. h \in Forwarders'
      BY <1>3, <2>2, <2>3, <2>4, <2>9 DEF Forwarders, Absorbed
    <3>2. (Forwarders \ {t}) \cup {h} \subseteq Forwarders'
      BY <2>6, <3>1
    <3>3. Cardinality((Forwarders \ {t}) \cup {h}) = Cardinality(Forwarders \ {t}) + 1
      <4>1. h \notin Forwarders \ {t}
        BY <2>5
      <4>2. QED
        BY <2>7, <4>1, FS_AddElement
    <3>4. Cardinality((Forwarders \ {t}) \cup {h}) <= Cardinality(Forwarders')
      BY <3>2, CountedSleepers, FS_Subset
    <3>5. Cardinality(Sleepers') <= Cardinality(Sleepers)
      BY CountedSleepers, FS_Subset
    <3>6. QED
      BY <1>4, <2>7, <3>3, <3>4, <3>5, CountedSleepers DEF Covered
  <2>10. QED
    BY <2>8, <2>9
<1>7. QED
  BY <1>5, <1>6

\* A step of Channel that does not touch what the receiver has pledged.
LEMMA SharedKeepsCover ==
    ASSUME WakeupInv, WakeupInv', WaitInv, BatchInv, HasRoom, ~closed,
           NEW t \in Tasks, SharedStep(t), Covered, Pledged' = Pledged
    PROVE  Covered'
<1>1. /\ Sleepers' \subseteq Sleepers
      /\ \A s \in Forwarders : s \in Forwarders' \/ (s = t /\ Forward(s))
  BY SleepersShrink
<1>2. CASE t \in Senders /\ Forward(t)
  <2>1. \A s \in Forwarders : s \in Forwarders' \/ s = t
    BY <1>1
  <2>2. QED
    BY <1>1, <1>2, <2>1, ForwardCovers
<1>3. CASE ~(t \in Senders /\ Forward(t))
  <2>1. \A s \in Forwarders : s \in Senders
    BY DEF Forwarders, Absorbed
  <2>2. Forwarders \subseteq Forwarders'
    BY <1>1, <1>3, <2>1
  <2>3. QED
    BY <1>1, <2>2, StillCovered
<1>4. QED
  BY <1>2, <1>3

\* The watchers of a sleeper can be counted.
LEMMA CountedWatchers ==
    ASSUME WakeupInv, WakeupInv', BatchInv, NEW b
    PROVE  /\ Watchers(b) \in Nat /\ Watchers(b)' \in Nat
           /\ Owed(b) \in Nat /\ Pledged \in Nat
<1>1. /\ Cardinality(Attempting) \in Nat /\ Cardinality(Attempting') \in Nat
      /\ Cardinality(Absorbed) \in Nat /\ Cardinality(Absorbed') \in Nat
      /\ Cardinality(Owing(b)) \in Nat /\ Cardinality(Owing(b)') \in Nat
  BY FinitelyMany, FS_CardinalityType
<1>2. \A i, j, k \in Nat : i + j + k \in Nat
  OBVIOUS
<1>3. QED
  BY <1>1, <1>2 DEF Watchers, Owed, Pledged, BatchInv

\* A sender's step: who may still be woken for the last batch stays so.
LEMMA SenderKeepsBatchSlots ==
    ASSUME WakeupInv, WakeupInv', WaitInv, BatchInv, BatchSlotInv,
           NEW s \in Senders, SharedStep(s), UNCHANGED manyVars
    PROVE  BatchSlotInv'
<1> SUFFICES ASSUME Bounded, ~closed', Len(items') < Capacity
             PROVE  /\ \/ Covered'
                       \/ \A b \in Sleepers' :
                            Capacity - Len(items') <= Watchers(b)' + Owed(b)'
                    /\ \A r \in Receivers : pc'[r] = "freed" => Sleepers' \subseteq known'[r]
  BY DEF BatchSlotInv, Bounded
<1> s \in Tasks /\ s \notin Receivers /\ Typed
  BY ChannelAssumption DEF Tasks, WakeupInv
<1>1. OthersStay(s) /\ ~closed
  BY OneTaskMoves
<1>2. \A r \in Receivers : r # s /\ pc'[r] = pc[r]
  BY <1>1 DEF OthersStay, Tasks
<1>3. Len(items) < Capacity /\ HasRoom
  <2>1. Len(items') >= Len(items) /\ Len(items) \in Nat /\ Len(items') \in Nat
    <3>1. Len(items) \in Nat /\ Len(items') \in Nat
      BY DEF WakeupInv, Typed, Types
    <3>2. CASE Claim(s)
      BY <3>2 DEF Claim, Typed, Types
    <3>3. CASE Publish(s)
      BY <3>3, PublishKeepsLength DEF Publish, Typed, Types
    <3>4. CASE ~Claim(s) /\ ~Publish(s)
      <4>1. items' = items
        BY <3>4 DEF SharedStep, Begin, StartTry, StartFuture, Poll, Cancel, StartClose,
              Clone, DropHandle, beginFrame, SendStep, CheckClosed, ReportFull,
              SampleReceivers, ParkSender, sendFrame, ListStep, Register, Discard,
              Unregister, Notify, Forward, NotifyOne, NotifyAll, TakeOut, Wake,
              SwapClosed, WakeReceivers, WakeSenders, listFrame, queueVars
      <4>2. QED
        BY <3>1, <4>1
    <3>5. QED
      BY <3>1, <3>2, <3>3, <3>4
  <2>2. Capacity \in Int
    BY ChannelAssumption DEF UNBOUNDED
  <2>3. QED
    BY <2>1, <2>2 DEF HasRoom
<1>4. Sleepers' \subseteq Sleepers
  BY <1>1, <1>3, SleepersShrink
<1>5. Pledged' = Pledged /\ burst' = burst
  BY <1>2 DEF Pledged, manyVars
<1>6. ASSUME NEW r \in Receivers, NEW b \in Sleepers', b \in known[r]
      PROVE  b \in known'[r]
  <2>1. b \in ToSet(parked'["send"])
    BY DEF Sleepers, SleepsListed, Listed, Own
  <2>2. known[r] \cap ToSet(parked'["send"]) \subseteq known'[r]
    BY <1>2, ListsShrink
  <2>3. QED
    BY <1>6, <2>1, <2>2
<1>7. ASSUME NEW r \in Receivers, pc'[r] = "freed" PROVE Sleepers' \subseteq known'[r]
  BY <1>1, <1>2, <1>3, <1>4, <1>6, <1>7 DEF BatchSlotInv
<1>8. CASE Covered
  BY <1>1, <1>3, <1>5, <1>7, <1>8, SharedKeepsCover
<1>9. CASE \A b \in Sleepers : Capacity - Len(items) <= Watchers(b) + Owed(b)
  <2>1. [b \in Senders |-> Owed(b)] \in [Senders -> Nat]
    BY CountedWatchers
  <2>2. \E f \in [Senders -> Nat] : \A b \in Senders : f[b] = Owed(b)
    BY <2>1
  <2>3. PICK spare \in [Senders -> Nat] : \A b \in Senders : spare[b] = Owed(b)
    BY <2>2
  <2>4. SlotsWatched(spare)
    BY <1>9, <2>3 DEF SlotsWatched, Sleepers
  <2>5. SlotsWatched(spare)'
    BY <2>4, BeginKeepsSlots, SendKeepsSlots, ListKeepsSlots DEF SharedStep
  <2>6. ASSUME NEW b \in Sleepers' PROVE Owed(b)' = spare[b]
    <3>1. b \in Sleepers /\ b \in Senders
      BY <1>4 DEF Sleepers
    <3>2. \A r \in Receivers : pc[r] = "freed" => b \in known[r] /\ b \in known'[r]
      BY <1>1, <1>2, <1>3, <1>6, <3>1 DEF BatchSlotInv
    <3>3. Owed(b)' = Owed(b)
      BY <1>2, <1>5, <3>2 DEF Owed
    <3>4. QED
      BY <2>3, <3>1, <3>3
  <2>7. ASSUME NEW b \in Sleepers'
        PROVE  Capacity - Len(items') <= Watchers(b)' + Owed(b)'
    <3>1. b \in Senders /\ SleepsListed(b)'
      BY DEF Sleepers
    <3>2. Capacity - Len(items') <= Watchers(b)' + spare[b]
      BY <2>5, <3>1 DEF SlotsWatched, Bounded
    <3>3. QED
      BY <2>6, <3>2
  <2>8. QED
    BY <1>7, <2>7
<1>10. QED
  BY <1>1, <1>3, <1>7, <1>8, <1>9 DEF BatchSlotInv

\* A step of the receiver outside its batches.
LEMMA ReceiverKeepsBatchSlots ==
    ASSUME WakeupInv, WakeupInv', WaitInv, BatchInv, BatchInv', BatchSlotInv,
           NEW r \in Receivers, SharedStep(r), pc[r] \notin BatchPCs,
           pc'[r] \notin {"freed", "notify_many"}
    PROVE  BatchSlotInv'
<1> r \in Tasks /\ r \notin Senders /\ Typed
  BY ChannelAssumption DEF Tasks, WakeupInv
<1>1. /\ Pledged = 0 /\ Pledged' = 0
      /\ \A b : Owed(b) = 0 /\ Owed(b)' = 0
  BY OneReceiver DEF Pledged, Owed, BatchPCs
<1>2. \A q \in Receivers : pc'[q] # "freed"
  BY OneReceiver
<1>3. CASE SlotsWatched([b \in Senders |-> 0])
  <2>1. SlotsWatched([b \in Senders |-> 0])'
    BY <1>3, NoneSpared, BeginKeepsSlots, RecvKeepsSlots, ListKeepsSlots DEF SharedStep
  <2>2. QED
    BY <1>1, <1>2, <2>1 DEF BatchSlotInv, SlotsWatched, Sleepers, Bounded
<1>4. CASE ~SlotsWatched([b \in Senders |-> 0])
  <2>1. PICK b \in Senders : /\ Bounded /\ ~closed /\ SleepsListed(b)
                             /\ ~(Capacity - Len(items) <= Watchers(b) + 0)
    BY <1>4 DEF SlotsWatched
  <2>2. Len(items) < Capacity /\ HasRoom
    <3>1. Len(items) \in Nat /\ Capacity \in Int
      BY ChannelAssumption DEF Typed, Types, UNBOUNDED
    <3>2. QED
      BY <2>1, <3>1, CountedWatchers DEF HasRoom
  <2>3. Covered
    BY <1>1, <2>1, <2>2 DEF BatchSlotInv, Sleepers
  <2>4. Covered'
    BY <1>1, <2>1, <2>2, <2>3, SharedKeepsCover
  <2>5. QED
    BY <1>2, <2>4 DEF BatchSlotInv
<1>5. QED
  BY <1>3, <1>4

\* A batch step that leaves the list of senders alone.
LEMMA BatchLeavesSenders ==
    ASSUME WakeupInv, WakeupInv', BatchInv, NEW r \in Receivers, BatchStep(r),
           ~NotifyMany(r)
    PROVE  /\ Sleepers' = Sleepers /\ Forwarders' = Forwarders
           /\ \A b \in Senders : Watchers(b)' = Watchers(b)
           /\ closed' = closed
           /\ pc[r] \in {"idle"} \cup BatchPCs
<1>1. Typed /\ OperationInv /\ EntryInv
  BY DEF WakeupInv
<1>2. UNCHANGED <<closed, parked, id>>
  BY <1>1, BatchMoves
<1>3. PICK to, kind :
        /\ pc' = [pc EXCEPT ![r] = to]
        /\ \/ to \in BatchPCs /\ kind = "many"
           \/ to = "pop" /\ kind = "first"
           \/ to = "idle" /\ kind = "none"
  BY <1>1, BatchMoves
<1>4. \A s \in Senders : pc'[s] = pc[s] /\ (Listed(s)' <=> Listed(s)) /\ id'[s] = id[s]
  <2>1. \A s \in Senders : s \in Tasks /\ s # r
    BY ChannelAssumption DEF Tasks
  <2>2. QED
    BY <1>1, <1>2, <1>3, <2>1 DEF Typed, Types, Listed, Own
<1>5. pc[r] \in {"idle"} \cup BatchPCs
  BY DEF BatchStep, StartMany, TakeBatch, SampleBatch, NotifyMany, TakeOut, EndOfBatch,
         Unwind, Resume, Go, GoAs, BatchPCs
<1>6. Sleepers' = Sleepers
  BY <1>4 DEF Sleepers, SleepsListed
<1>7. Absorbed' = Absorbed /\ Attempting' = Attempting
  BY <1>4 DEF Absorbed, Attempting
<1>8. Forwarders' = Forwarders
  <2>1. Absorbed \subseteq Senders
    BY DEF Absorbed
  <2>2. QED
    BY <1>4, <1>7, <2>1 DEF Forwarders
<1>9. ASSUME NEW b \in Senders PROVE Owing(b)' = Owing(b)
  <2>1. pc'[r] \in {"idle", "pop"} \cup BatchPCs
    BY <1>1, <1>3 DEF Typed, Types, Tasks
  <2>2. \A q \in Receivers : ~Owes(q, b) /\ ~Owes(q, b)'
    BY <1>5, <2>1, OneReceiver DEF Owes, BatchPCs
  <2>3. QED
    BY <2>2 DEF Owing
<1>10. QED
  BY <1>2, <1>5, <1>6, <1>7, <1>8, <1>9 DEF Watchers

\* What the receiver knows and has pledged in a batch.
LEMMA OwedByReceiver ==
    ASSUME NEW r \in Receivers
    PROVE  /\ Pledged = IF pc[r] = "notify_many" THEN burst ELSE 0
           /\ \A b : Owed(b) = IF \/ pc[r] = "freed" /\ b \in known[r]
                                 \/ pc[r] = "notify_many"
                              THEN burst ELSE 0
BY OneReceiver DEF Pledged, Owed

\* The slots a batch has freed are looked after: by the load of the count, then by
\* notify_many, and then by those it woke.
LEMMA TakingKeepsBatchSlots ==
    ASSUME WakeupInv, WakeupInv', BatchInv, BatchSlotInv,
           NEW r \in Receivers, TakeBatch(r)
    PROVE  BatchSlotInv'
<1> r \in Tasks /\ Typed /\ Typed'
  BY DEF Tasks, WakeupInv
<1> SUFFICES ASSUME Bounded, ~closed', Len(items') < Capacity
             PROVE  /\ \/ Covered'
                       \/ \A b \in Sleepers' :
                            Capacity - Len(items') <= Watchers(b)' + Owed(b)'
                    /\ \A q \in Receivers : pc'[q] = "freed" => Sleepers' \subseteq known'[q]
  BY DEF BatchSlotInv, Bounded
<1>1. /\ pc[r] = "batch" /\ pc'[r] = "freed" /\ known'[r] = Parked("send")
  BY DEF TakeBatch, Go, GoAs, Bounded, Typed, Types
<1>2. /\ Sleepers' = Sleepers /\ Forwarders' = Forwarders
      /\ \A b \in Senders : Watchers(b)' = Watchers(b)
      /\ closed' = closed
  <2>1. BatchStep(r) /\ ~NotifyMany(r)
    BY <1>1 DEF BatchStep, NotifyMany, TakeOut, Go, GoAs
  <2>2. QED
    BY <2>1, BatchLeavesSenders
<1>3. PICK n \in 1..Len(items) : Len(items') = Len(items) - n /\ burst' = n
  BY BatchTaken
<1>4. Sleepers' \subseteq known'[r]
  BY <1>1, <1>2 DEF Parked, Sleepers, SleepsListed, Listed, Own
<1>5. \A q \in Receivers : pc'[q] = "freed" => Sleepers' \subseteq known'[q]
  BY <1>4, OneReceiver
<1>6. /\ Pledged = 0 /\ Pledged' = 0 /\ \A b : Owed(b) = 0
      /\ \A b \in Sleepers' : Owed(b)' = n
  BY <1>1, <1>3, <1>4, OneReceiver DEF Pledged, Owed
<1>7. CASE Len(items) < Capacity /\ Covered
  BY <1>2, <1>5, <1>6, <1>7 DEF Covered
<1>8. CASE ~(Len(items) < Capacity /\ Covered)
  <2>1. ASSUME NEW b \in Sleepers' PROVE Capacity - Len(items') <= Watchers(b)' + Owed(b)'
    <3>1. b \in Senders /\ b \in Sleepers /\ Owed(b)' = n /\ Owed(b) = 0
      BY <1>2, <1>6 DEF Sleepers
    <3>2. Len(items) \in Nat /\ Capacity \in Int /\ n \in Nat
      BY ChannelAssumption DEF Typed, Types, UNBOUNDED
    <3>3. Capacity - Len(items) <= Watchers(b)
      <4>1. CASE Len(items) < Capacity
        <5>1. Capacity - Len(items) <= Watchers(b) + Owed(b)
          BY <1>2, <1>8, <3>1, <4>1 DEF BatchSlotInv
        <5>2. QED
          BY <3>1, <5>1, CountedWatchers
      <4>2. CASE ~(Len(items) < Capacity)
        BY <3>2, <4>2, CountedWatchers
      <4>3. QED
        BY <4>1, <4>2
    <3>4. Watchers(b)' = Watchers(b) /\ Watchers(b) \in Nat
      BY <1>2, <3>1, CountedWatchers
    <3>5. Capacity - (Len(items) - n) <= Watchers(b) + n
      BY <3>2, <3>3, <3>4
    <3>6. QED
      BY <1>3, <3>1, <3>4, <3>5
  <2>2. QED
    BY <1>5, <2>1
<1>9. QED
  BY <1>7, <1>8

LEMMA SamplingKeepsBatchSlots ==
    ASSUME WakeupInv, WakeupInv', BatchInv, BatchSlotInv,
           NEW r \in Receivers, SampleBatch(r)
    PROVE  BatchSlotInv'
<1> r \in Tasks /\ Typed /\ Typed' /\ EntryInv
  BY DEF Tasks, WakeupInv
<1> SUFFICES ASSUME Bounded, ~closed', Len(items') < Capacity
             PROVE  /\ \/ Covered'
                       \/ \A b \in Sleepers' :
                            Capacity - Len(items') <= Watchers(b)' + Owed(b)'
                    /\ \A q \in Receivers : pc'[q] = "freed" => Sleepers' \subseteq known'[q]
  BY DEF BatchSlotInv, Bounded
<1>1. PICK wakes \in 0..burst :
        /\ wakes = burst \/ wakes >= Cardinality(known[r])
        /\ burst' = wakes /\ items' = items /\ pc[r] = "freed"
        /\ pc'[r] = IF wakes > 0 THEN "notify_many" ELSE AfterBatch
  BY DEF SampleBatch, Go, GoAs, Typed, Types
<1>2. AfterBatch \in {"idle", "batch"}
  BY DEF AfterBatch
<1>3. /\ Sleepers' = Sleepers /\ Forwarders' = Forwarders
      /\ \A b \in Senders : Watchers(b)' = Watchers(b)
      /\ closed' = closed
  <2>1. BatchStep(r) /\ ~NotifyMany(r)
    BY <1>1 DEF BatchStep, NotifyMany, TakeOut, Go, GoAs
  <2>2. QED
    BY <2>1, BatchLeavesSenders
<1>4. \A q \in Receivers : pc'[q] # "freed"
  BY <1>1, <1>2, OneReceiver
<1>5. Sleepers \subseteq known[r]
  BY <1>1, <1>3 DEF BatchSlotInv
<1>6. /\ Pledged = 0 /\ Pledged' = wakes
      /\ \A b \in Sleepers : Owed(b) = burst
      /\ wakes > 0 => \A b : Owed(b)' = wakes
  <2>1. wakes > 0 \/ wakes = 0
    BY <1>1
  <2>2. QED
    BY <1>1, <1>2, <1>5, <2>1, OneReceiver DEF Pledged, Owed
<1>7. burst \in Nat /\ burst > 0
  BY <1>1 DEF BatchInv
<1>8. CASE wakes = burst
  <2>1. \/ Covered
        \/ \A b \in Sleepers : Capacity - Len(items) <= Watchers(b) + Owed(b)
    BY <1>1, <1>3 DEF BatchSlotInv
  <2>2. CASE Covered
    <3>1. Cardinality(Sleepers') <= Cardinality(Forwarders') + Pledged'
      BY <1>3, <1>6, <1>7, <1>8, <2>2, CountedSleepers DEF Covered
    <3>2. QED
      BY <1>4, <3>1 DEF Covered
  <2>3. CASE \A b \in Sleepers : Capacity - Len(items) <= Watchers(b) + Owed(b)
    <3>1. ASSUME NEW b \in Sleepers'
          PROVE  Capacity - Len(items') <= Watchers(b)' + Owed(b)'
      <4>1. b \in Sleepers /\ b \in Senders
        BY <1>3 DEF Sleepers
      <4>2. Watchers(b)' = Watchers(b) /\ Owed(b)' = Owed(b)
        BY <1>3, <1>6, <1>7, <1>8, <4>1
      <4>3. QED
        BY <1>1, <2>3, <4>1, <4>2
    <3>2. QED
      BY <1>4, <3>1
  <2>4. QED
    BY <2>1, <2>2, <2>3
<1>9. CASE wakes >= Cardinality(known[r])
  <2>1. IsFiniteSet(known[r])
    <3>1. IsFiniteSet(ToSet(parked["send"]))
      BY FiniteEntries DEF Typed, Types, Sides
    <3>2. known[r] \subseteq ToSet(parked["send"])
      BY ChannelAssumption DEF EntryInv, Other
    <3>3. QED
      BY <3>1, <3>2, FS_Subset
  <2>2. Cardinality(Sleepers) <= Cardinality(known[r]) /\ Cardinality(known[r]) \in Nat
    BY <1>5, <2>1, FS_Subset, FS_CardinalityType
  <2>3. Covered'
    BY <1>1, <1>3, <1>6, <1>9, <2>2, CountedSleepers DEF Covered
  <2>4. QED
    BY <1>4, <2>3
<1>10. QED
  BY <1>1, <1>8, <1>9

LEMMA NotifyingKeepsBatchSlots ==
    ASSUME WakeupInv, WakeupInv', BatchInv, BatchSlotInv,
           NEW r \in Receivers, NotifyMany(r)
    PROVE  BatchSlotInv'
<1> r \in Tasks /\ Typed /\ Typed' /\ EntryInv /\ OperationInv
  BY DEF Tasks, WakeupInv
<1> SUFFICES ASSUME Bounded, ~closed', Len(items') < Capacity
             PROVE  /\ \/ Covered'
                       \/ \A b \in Sleepers' :
                            Capacity - Len(items') <= Watchers(b)' + Owed(b)'
                    /\ \A q \in Receivers : pc'[q] = "freed" => Sleepers' \subseteq known'[q]
  BY DEF BatchSlotInv, Bounded
<1> DEFINE T == targets'[r]
<1>1. /\ pc[r] = "notify_many" /\ OthersStay(r)
      /\ UNCHANGED <<items, closed, id>>
      /\ T \subseteq ToSet(parked["send"])
      /\ ToSet(parked'["send"]) = ToSet(parked["send"]) \ T
      /\ Cardinality(T) = burst \/ parked'["send"] = <<>>
      /\ pc'[r] \in {"wake", "batch", "idle"}
  BY ManyTaken
<1>2. /\ \A s \in Senders : s \in Tasks /\ s # r /\ Own(s) = "send" /\ s \notin Receivers
      /\ \A q \in Receivers : q \in Tasks /\ Other(q) = "send"
  BY ChannelAssumption DEF Tasks, Own, Other
<1>3. \A s \in Senders : pc'[s] = pc[s] /\ id'[s] = id[s]
  BY <1>1, <1>2 DEF OthersStay
<1>4. \A s \in Senders : /\ Listed(s) <=> s \in ToSet(parked["send"])
                         /\ Listed(s)' <=> Listed(s) /\ s \notin T
  BY <1>1, <1>2 DEF Listed
<1>5. /\ Pledged = burst /\ Pledged' = 0
      /\ \A b : Owed(b) = burst /\ Owed(b)' = 0
  BY <1>1, OneReceiver DEF Pledged, Owed
<1>6. \A q \in Receivers : pc'[q] # "freed"
  BY <1>1, OneReceiver
<1>7. burst \in Nat
  BY DEF BatchInv
<1>8. CASE parked'["send"] = <<>>
  <2>1. Sleepers' = {}
    BY <1>1, <1>4, <1>8, EmptyList DEF Sleepers, SleepsListed
  <2>2. Cardinality(Sleepers') = 0
    BY <2>1, FS_EmptySet
  <2>3. QED
    BY <1>5, <1>6, <2>2, CountedSleepers DEF Covered
<1>9. CASE Cardinality(T) = burst
  <2>1. T \subseteq Senders
    <3>1. T \subseteq Tasks
      BY <1>1, SomeEntry DEF Typed, Types, Sides
    <3>2. T \cap Receivers = {}
      BY <1>1, <1>2 DEF EntryInv
    <3>3. QED
      BY <3>1, <3>2 DEF Tasks
  <2>2. IsFiniteSet(T)
    <3>1. IsFiniteSet(ToSet(parked["send"]))
      BY FiniteEntries DEF Typed, Types, Sides
    <3>2. QED
      BY <1>1, <3>1, FS_Subset
  <2>3. \A s \in T : id[s] /\ Listed(s) /\ pc[s] # "forward" /\ s \notin Absorbed
    BY <1>1, <1>2, <1>4, <2>1 DEF EntryInv, OperationInv, Absorbed
  <2> HIDE DEF T
  <2>4. Absorbed \cup T \subseteq Absorbed' /\ Absorbed \cap T = {}
    BY <1>3, <1>4, <2>1, <2>3 DEF Absorbed
  <2>5. CASE Covered
    <3>1. Sleepers' = Sleepers \ T
      BY <1>3, <1>4 DEF Sleepers, SleepsListed
    <3>2. Forwarders \cup (T \ Sleepers) \subseteq Forwarders'
      BY <1>3, <1>4, <2>1, <2>3, <2>4 DEF Forwarders, Absorbed, Sleepers, SleepsListed
    <3>3. Forwarders \cap (T \ Sleepers) = {}
      BY <2>4 DEF Forwarders
    <3>4. /\ Cardinality(Sleepers \ T) = Cardinality(Sleepers) - Cardinality(Sleepers \cap T)
          /\ Cardinality(T \ Sleepers) = Cardinality(T) - Cardinality(T \cap Sleepers)
          /\ IsFiniteSet(T \ Sleepers)
      BY <2>2, CountedSleepers, FS_Difference
    <3>5. T \cap Sleepers = Sleepers \cap T
      OBVIOUS
    <3>6. Cardinality(Sleepers \cap T) \in Nat
      BY CountedSleepers, FS_Intersection, FS_CardinalityType
    <3>7. Cardinality(Forwarders \cup (T \ Sleepers))
            = Cardinality(Forwarders) + Cardinality(T \ Sleepers)
      <4>1. Cardinality(Forwarders \cup (T \ Sleepers))
              = Cardinality(Forwarders) + Cardinality(T \ Sleepers)
                  - Cardinality(Forwarders \cap (T \ Sleepers))
        BY <3>4, CountedSleepers, FS_Union
      <4>2. Cardinality(Forwarders \cap (T \ Sleepers)) = 0
        BY <3>3, FS_EmptySet
      <4>3. Cardinality(T \ Sleepers) \in Nat
        BY <3>4, FS_CardinalityType
      <4>4. QED
        BY <4>1, <4>2, <4>3, CountedSleepers
    <3>8. Cardinality(Forwarders \cup (T \ Sleepers)) <= Cardinality(Forwarders')
      BY <3>2, CountedSleepers, FS_Subset
    <3>9. Cardinality(Sleepers) <= Cardinality(Forwarders) + burst
      BY <1>5, <2>5 DEF Covered
    <3>10. Cardinality(Sleepers') <= Cardinality(Forwarders') + 0
      <4>1. Cardinality(Sleepers')
              = Cardinality(Sleepers) - Cardinality(Sleepers \cap T)
        BY <3>1, <3>4
      <4>2. Cardinality(Forwarders) + (burst - Cardinality(Sleepers \cap T))
              <= Cardinality(Forwarders')
        BY <1>9, <3>4, <3>5, <3>7, <3>8
      <4>3. QED
        BY <1>7, <3>6, <3>9, <4>1, <4>2, CountedSleepers
    <3>11. QED
      BY <1>5, <1>6, <3>10 DEF Covered
  <2>6. CASE \A b \in Sleepers : Capacity - Len(items) <= Watchers(b) + Owed(b)
    <3>1. ASSUME NEW b \in Sleepers'
          PROVE  Capacity - Len(items') <= Watchers(b)' + Owed(b)'
      <4>1. b \in Sleepers /\ b \in Senders
        BY <1>3, <1>4 DEF Sleepers, SleepsListed
      <4>2. Attempting' = Attempting
        BY <1>3 DEF Attempting
      <4>3. Owing(b) = {}
        BY <1>1, OneReceiver DEF Owing, Owes
      <4>4. /\ Cardinality(Absorbed \cup T) = Cardinality(Absorbed) + burst
            /\ Cardinality(Absorbed \cup T) <= Cardinality(Absorbed')
        <5>1. Cardinality(Absorbed \cup T) = Cardinality(Absorbed) + Cardinality(T)
                                              - Cardinality(Absorbed \cap T)
          BY <2>2, FinitelyMany, FS_Union
        <5>2. Cardinality(Absorbed \cap T) = 0
          BY <2>4, FS_EmptySet
        <5>3. Cardinality(Absorbed) \in Nat
          BY FinitelyMany, FS_CardinalityType
        <5>4. Cardinality(Absorbed \cup T) <= Cardinality(Absorbed')
          BY <2>4, FinitelyMany, FS_Subset
        <5>5. QED
          BY <1>7, <1>9, <5>1, <5>2, <5>3, <5>4
      <4>5. /\ Cardinality(Attempting) \in Nat /\ Cardinality(Absorbed) \in Nat
            /\ Cardinality(Absorbed') \in Nat /\ Cardinality(Owing(b)') \in Nat
            /\ Cardinality(Owing(b)) = 0
        BY <4>3, FinitelyMany, FS_CardinalityType, FS_EmptySet
      <4>6. Watchers(b) + burst <= Watchers(b)'
        BY <1>7, <4>2, <4>4, <4>5 DEF Watchers
      <4>7. Capacity - Len(items) <= Watchers(b) + burst
        BY <1>5, <2>6, <4>1
      <4>8. Len(items) \in Nat /\ Capacity \in Int
        BY ChannelAssumption DEF Typed, Types, UNBOUNDED
      <4>9. Capacity - Len(items) <= Watchers(b)' + 0
        BY <1>7, <4>6, <4>7, <4>8, CountedWatchers
      <4>10. QED
        BY <1>1, <1>5, <4>9
    <3>2. QED
      BY <1>6, <3>1
  <2>7. QED
    BY <1>1, <2>5, <2>6 DEF BatchSlotInv
<1>10. QED
  BY <1>1, <1>8, <1>9

LEMMA BatchKeepsSlots ==
    ASSUME WakeupInv, WakeupInv', BatchInv, BatchSlotInv,
           NEW r \in Receivers, BatchStep(r)
    PROVE  BatchSlotInv'
<1>1. CASE TakeBatch(r) \/ SampleBatch(r) \/ NotifyMany(r)
  BY <1>1, TakingKeepsBatchSlots, SamplingKeepsBatchSlots, NotifyingKeepsBatchSlots
<1>2. CASE ~(TakeBatch(r) \/ SampleBatch(r) \/ NotifyMany(r))
  <2>1. /\ Sleepers' = Sleepers /\ Forwarders' = Forwarders
        /\ \A b \in Senders : Watchers(b)' = Watchers(b)
        /\ closed' = closed
    BY <1>2, BatchLeavesSenders
  <2>2. pc[r] \in {"idle", "batch"} /\ pc'[r] \in {"idle", "batch", "pop"}
    BY <1>2 DEF BatchStep, StartMany, EndOfBatch, Unwind, Resume, Go, GoAs, Tasks,
                WakeupInv, Typed, Types
  <2>3. items' = items
    BY <1>2 DEF BatchStep, StartMany, EndOfBatch, Unwind, Resume
  <2>4. /\ Pledged = 0 /\ Pledged' = 0
        /\ \A b : Owed(b) = 0 /\ Owed(b)' = 0
    BY <2>2, OneReceiver DEF Pledged, Owed
  <2>5. \A q \in Receivers : pc'[q] # "freed"
    BY <2>2, OneReceiver
  <2>6. \A b \in Sleepers : b \in Senders
    BY DEF Sleepers
  <2>7. QED
    BY <2>1, <2>3, <2>4, <2>5, <2>6 DEF BatchSlotInv, Covered, Bounded
<1>3. QED
  BY <1>1, <1>2

----------------------------------------------------------------------------
(* The invariant.                                                           *)

\* What the receiver does outside its batches neither begins nor ends in one, except
\* that a wake-up by notify_many may have more batches to come.
LEMMA OutsideBatches ==
    ASSUME WakeupInv, NEW r \in Receivers, SharedStep(r)
    PROVE  pc[r] \notin BatchPCs /\ pc'[r] \notin {"freed", "notify_many"}
<1> r \in Tasks /\ r \notin Senders
  BY ChannelAssumption DEF Tasks
<1> /\ DOMAIN pc = Tasks
    /\ back[r] \in {"idle", "gone", "unregister", "wake_senders", "batch"}
  BY DEF WakeupInv, Typed, Types
<1> USE DEF Go, GoAs, BatchPCs
<1>1. CASE Begin(r)
  BY <1>1 DEF Begin, StartTry, StartFuture, Poll, Cancel, StartClose, Clone, DropHandle,
              Attempt
<1>2. CASE RecvStep(r)
  BY <1>2 DEF RecvStep, Take, SampleSenders, FinishPop, PopNone, LoadClosed,
              CheckIndices, FindBusy, TakeSnapshot, CheckClaims, FindClaims, Snooze,
              Yield, AfterSuccess, AfterClosed
<1>3. CASE ListStep(r)
  BY <1>3 DEF ListStep, Register, Discard, Unregister, Notify, Forward, NotifyOne,
              NotifyAll, TakeOut, Wake, SwapClosed, WakeReceivers, WakeSenders,
              AfterSuccess, AfterClose
<1>4. QED
  BY <1>1, <1>2, <1>3 DEF SharedStep

LEMMA SharedKeepsWaits ==
    ASSUME WakeupInv, WaitInv, NEW t \in Tasks, SharedStep(t)
    PROVE  WaitInv'
BY StepKeepsWaits DEF SharedStep, Step, WakeupInv

LEMMA ReceiverKeepsInv ==
    ASSUME MpscInv, NEW r \in Receivers, ReceiverStep(r)
    PROVE  MpscInv'
<1> r \in Tasks
  BY DEF Tasks
<1> WakeupInv /\ WaitInv /\ BatchInv /\ BatchSlotInv
  BY DEF MpscInv
<1>1. BatchInv'
  BY ReceiverKeepsBatch
<1>2. CASE SharedStep(r)
  <2>1. WakeupInv' /\ WaitInv'
    BY <1>2, SharedKeepsWakeups, SharedKeepsWaits
  <2>2. BatchSlotInv'
    BY <1>1, <1>2, <2>1, OutsideBatches, ReceiverKeepsBatchSlots
  <2>3. QED
    BY <1>1, <2>1, <2>2 DEF MpscInv
<1>3. CASE BatchStep(r)
  <2>1. WakeupInv' /\ WaitInv'
    BY <1>3, BatchKeepsWakeups, BatchKeepsWaits
  <2>2. BatchSlotInv'
    BY <1>3, <2>1, BatchKeepsSlots
  <2>3. QED
    BY <1>1, <2>1, <2>2 DEF MpscInv
<1>4. QED
  BY <1>2, <1>3, StepsOfReceiver

LEMMA SenderKeepsInv ==
    ASSUME MpscInv, NEW s \in Senders, Begin(s) \/ Step(s), UNCHANGED manyVars
    PROVE  MpscInv'
<1> s \in Tasks
  BY DEF Tasks
<1> WakeupInv /\ WaitInv /\ BatchInv /\ BatchSlotInv
  BY DEF MpscInv
<1>1. SharedStep(s)
  BY DEF SharedStep, Step
<1>2. WakeupInv' /\ WaitInv' /\ BatchInv'
  BY <1>1, SharedKeepsWakeups, SharedKeepsWaits, SendersKeepBatch
<1>3. BatchSlotInv'
  BY <1>1, <1>2, SenderKeepsBatchSlots
<1>4. QED
  BY <1>2, <1>3 DEF MpscInv

LEMMA StutterKeepsInv ==
    ASSUME MpscInv, UNCHANGED mpscVars
    PROVE  MpscInv'
<1> WakeupInv /\ WaitInv /\ BatchInv /\ BatchSlotInv
  BY DEF MpscInv
<1> USE DEF mpscVars, manyVars, vars, queueVars, flagVars, taskVars, sampleVars
<1>1. WakeupInv'
  BY StutterKeepsWakeups
<1>2. WaitInv' /\ BatchInv'
  BY DEF WaitInv, BatchInv, Bounded
<1>3. /\ Attempting' = Attempting /\ Absorbed' = Absorbed
      /\ Sleepers' = Sleepers
      /\ \A b : Owing(b)' = Owing(b) /\ Owed(b)' = Owed(b)
      /\ Pledged' = Pledged
  BY DEF Attempting, Absorbed, Owing, Owes, Listed, Own, Sleepers, SleepsListed,
         Owed, Pledged
<1>4. Forwarders' = Forwarders /\ \A b : Watchers(b)' = Watchers(b)
  BY <1>3 DEF Forwarders, Watchers
<1>5. BatchSlotInv'
  BY <1>3, <1>4 DEF BatchSlotInv, Covered, Bounded
<1>6. QED
  BY <1>1, <1>2, <1>5 DEF MpscInv

LEMMA StartsWell == MpscInit => MpscInv
<1> SUFFICES ASSUME NEW s \in Senders, NEW r \in Receivers, New({s, r}),
                    left = 0, got = FALSE, burst = 0
             PROVE  MpscInv
  BY DEF MpscInit, Init
<1>1. WakeupInv
  BY NewIsWellFormed
<1>2. \A t \in Tasks : /\ pc[t] \in {"idle", "gone"} /\ ~id[t]
                       /\ op[t] = "none" /\ back[t] = "idle"
  BY DEF New
<1>3. \A t \in Senders \cup Receivers : t \in Tasks
  BY DEF Tasks
<1>4. WaitInv
  BY <1>2, <1>3 DEF WaitInv
<1>5. BatchInv
  <2>1. moving = NoTask /\ \A q \in Receivers : ahead[q] = 0
    BY DEF New
  <2>2. MaxBatch \in Nat
    BY MpscAssumption
  <2>3. got \in BOOLEAN
    OBVIOUS
  <2>4. ~got
    OBVIOUS
  <2>5. left \in Nat /\ left <= MaxBatch /\ burst \in Nat /\ burst <= MaxBatch
    BY <2>2
  <2>6. \A t \in Tasks : pc[t] \notin BatchPCs
    BY <1>2 DEF BatchPCs
  <2>7. QED
    BY <1>2, <1>3, <2>1, <2>3, <2>4, <2>5, <2>6 DEF BatchInv
<1>6. BatchSlotInv
  BY <1>2, <1>3 DEF BatchSlotInv, Sleepers, SleepsListed
<1>7. QED
  BY <1>1, <1>4, <1>5, <1>6 DEF MpscInv

\* The inductive invariant of the channel with one exclusive receiver, for any number
\* of senders, any capacity and any limit of recv_many.
THEOREM MpscInvariant == MpscSpec => []MpscInv
<1>1. MpscInv /\ [MpscNext]_mpscVars => MpscInv'
  BY ReceiverKeepsInv, SenderKeepsInv, StutterKeepsInv DEF MpscNext
<1>2. QED
  BY <1>1, StartsWell, PTL DEF MpscSpec

----------------------------------------------------------------------------
(* What follows.                                                            *)

\* Every word and local of the channel has its type, the batch receive's included: its
\* counters stay within its limit, and the head is never seen half-moved (recv_many,
\* mpsc.rs:108-147, and pop_single_batch, queue.rs:914-960).
THEOREM MpscTypesHold == MpscSpec => []MpscTypeOK
<1>1. MpscInv => MpscTypeOK
  <2> SUFFICES ASSUME MpscInv PROVE MpscTypeOK
    OBVIOUS
  <2>1. left \in 0..MaxBatch /\ burst \in 0..MaxBatch
    BY MpscAssumption DEF MpscInv, BatchInv
  <2>2. QED
    BY <2>1 DEF MpscInv, WakeupInv, Typed, BatchInv, MpscTypeOK, BatchPCs
<1>2. QED
  BY <1>1, MpscInvariant, PTL

\* A recv_many that waits has taken nothing, so dropping it loses nothing
\* (recv_many, mpsc.rs:108-129).
THEOREM OnlyFirstIsAwaited == MpscSpec => []AwaitsOnlyFirst
<1>1. MpscInv => AwaitsOnlyFirst
  BY DEF MpscInv, BatchInv, AwaitsOnlyFirst, FullHandedPCs, BatchPCs
<1>2. QED
  BY <1>1, MpscInvariant, PTL

\* The exclusive receiver is never left asleep beside a value: with one receiver
\* nobody else can have been woken for it (Recv::poll, mpsc.rs:206-250).
THEOREM ReceiverServed == MpscSpec => []ReceiversServed
<1>1. MpscInv => ReceiversServed
  <2> SUFFICES ASSUME MpscInv, EveryoneRests, NEW r \in Receivers, Asleep(r)
               PROVE  items = <<>>
    BY DEF ReceiversServed
  <2>1. \A q \in Receivers : Asleep(q)
    BY OneReceiver
  <2>2. QED
    BY <2>1, SomebodyServed DEF MpscInv, SomeReceiverServed
<1>2. QED
  BY <1>1, MpscInvariant, PTL

\* No send is left asleep beside free room, though a batch frees several slots with
\* one update of the head and loads the waiting count once: notify_many wakes as many
\* as the batch freed, or everyone it counted (mpsc.rs:131-147, lib.rs:318-339).
THEOREM SendersServedAfterBatches == MpscSpec => []SendersServed
<1>1. MpscInv => SendersServed
  <2> SUFFICES ASSUME MpscInv, EveryoneRests, HasRoom, NEW b \in Senders, Asleep(b)
               PROVE  FALSE
    BY DEF SendersServed
  <2> WakeupInv /\ WaitInv /\ BatchInv /\ BatchSlotInv
    BY DEF MpscInv
  <2>1. /\ SleepsListed(b) /\ ~closed /\ Bounded /\ Len(items) < Capacity
        /\ Absorbed = {} /\ Watchers(b) = 0 /\ Capacity - Len(items) > 0
    BY SleepsBesideRoom
  <2>2. \A r \in Receivers : pc[r] \notin {"freed", "notify_many"}
    BY DEF EveryoneRests, Asleep, Tasks
  <2>3. Pledged = 0 /\ Owed(b) = 0
    BY <2>2 DEF Pledged, Owed
  <2>4. b \in Sleepers
    BY <2>1 DEF Sleepers
  <2>5. CASE Covered
    <3>1. Forwarders = {}
      BY <2>1 DEF Forwarders
    <3>2. Cardinality(Forwarders) = 0
      BY <3>1, FS_EmptySet
    <3>3. Cardinality(Sleepers) <= 0
      BY <2>3, <2>5, <3>2 DEF Covered
    <3>4. IsFiniteSet(Sleepers)
      <4>1. IsFiniteSet(ToSet(parked["send"]))
        BY FiniteEntries DEF WakeupInv, Typed, Types, Sides
      <4>2. Sleepers \subseteq ToSet(parked["send"])
        BY DEF Sleepers, SleepsListed, Listed, Own
      <4>3. QED
        BY <4>1, <4>2, FS_Subset
    <3>5. Cardinality(Sleepers) = 0
      BY <3>3, <3>4, FS_CardinalityType
    <3>6. QED
      BY <2>4, <3>4, <3>5, FS_EmptySet
  <2>6. CASE \A s \in Sleepers : Capacity - Len(items) <= Watchers(s) + Owed(s)
    <3>1. Capacity - Len(items) <= 0 + 0
      BY <2>1, <2>3, <2>4, <2>6
    <3>2. Len(items) \in Nat /\ Capacity \in Int
      BY ChannelAssumption DEF WakeupInv, Typed, Types, UNBOUNDED
    <3>3. QED
      BY <2>1, <3>1, <3>2
  <2>7. QED
    BY <2>1, <2>5, <2>6 DEF BatchSlotInv
<1>2. QED
  BY <1>1, MpscInvariant, PTL

\* With an exclusive receiver too, nobody sleeps through a close (Inner::close,
\* lib.rs:371-381).
THEOREM MpscCloseIsHeard == MpscSpec => []CloseWakesAll
<1>1. MpscInv => CloseWakesAll
  BY NobodyDeaf DEF MpscInv
<1>2. QED
  BY <1>1, MpscInvariant, PTL

\* Nor does a future leave an entry behind that could absorb a wake-up
\* (WaiterList::register and unregister, lib.rs:236-285).
THEOREM MpscEntryOwnership == MpscSpec => []EntriesAreOwned
<1>1. MpscInv => EntriesAreOwned
  BY EntriesOwned DEF MpscInv
<1>2. QED
  BY <1>1, MpscInvariant, PTL

\* A receive of the exclusive receiver reports Closed only when every value claimed
\* before the close has been taken, in batches or one by one (recv_state_when_empty,
\* lib.rs:434-447).
THEOREM MpscClosedVerdict == MpscSpec => ClosedMeansDrained
<1>1. MpscInv /\ [MpscNext]_mpscVars
        => [\A r \in Receivers :
              (pc[r] = "indices" /\ pc'[r] \in {"idle", "discard"})
                => undrained = 0]_vars
  <2> SUFFICES ASSUME MpscInv, MpscNext, NEW r \in Receivers,
                      pc[r] = "indices", pc'[r] \in {"idle", "discard"}
               PROVE  undrained = 0
    BY DEF mpscVars
  <2> r \in Tasks /\ Typed /\ WakeupInv
    BY DEF Tasks, MpscInv, WakeupInv
  <2>1. SharedStep(r)
    <3>1. ASSUME NEW s \in Senders, Begin(s) \/ Step(s) PROVE FALSE
      <4>1. s \in Tasks /\ r # s /\ SharedStep(s)
        BY <3>1, ChannelAssumption DEF Tasks, SharedStep, Step
      <4>2. pc'[r] = pc[r]
        BY <4>1, OneTaskMoves DEF OthersStay
      <4>3. QED
        BY <4>2
    <3>2. ReceiverStep(r)
      BY <3>1, OneReceiver DEF MpscNext
    <3>3. ~BatchStep(r)
      BY DEF BatchStep, StartMany, TakeBatch, SampleBatch, NotifyMany, TakeOut,
             EndOfBatch, Unwind, Resume, Go, GoAs
    <3>4. QED
      BY <3>2, <3>3, StepsOfReceiver
  <2>2. CheckIndices(r) \/ FindBusy(r)
    <3>1. ~Begin(r) /\ ~ListStep(r)
      BY DEF Begin, StartTry, StartFuture, Poll, Cancel, StartClose, Clone, DropHandle,
             ListStep, Register, Discard, Unregister, Notify, Forward, Wake, SwapClosed,
             WakeReceivers, WakeSenders, NotifyOne, NotifyAll, TakeOut, Go, GoAs
    <3>2. RecvStep(r)
      BY <2>1, <3>1, ChannelAssumption DEF SharedStep
    <3>3. QED
      BY <3>2 DEF RecvStep, Take, SampleSenders, PopNone, FinishPop, LoadClosed,
                  TakeSnapshot, CheckClaims, FindClaims, Snooze, Yield, Go, GoAs
  <2>3. ~FindBusy(r)
    BY DEF FindBusy, Go, GoAs, Typed, Types
  <2>4. items = <<>>
    BY <2>2, <2>3 DEF CheckIndices
  <2>5. QED
    BY <2>4 DEF Typed, Types
<1>2. QED
  BY <1>1, MpscInvariant, PTL DEF MpscSpec, ClosedMeansDrained

\* The channel is closed, or being closed, once its receiver or its last sender is gone
\* (Drop for Sender and Receiver, lib.rs:498-514).
THEOREM MpscLastHandle == MpscSpec => []LastHandleCloses
<1>1. MpscInit => HandlesInv
  BY NewHasHandles DEF MpscInit, Init
<1>2. HandlesInv /\ MpscInv /\ [MpscNext]_mpscVars => HandlesInv'
  <2> SUFFICES ASSUME HandlesInv, MpscInv, [MpscNext]_mpscVars PROVE HandlesInv'
    OBVIOUS
  <2>1. ASSUME NEW t \in Tasks, SharedStep(t) PROVE HandlesInv'
    BY <2>1, BeginKeepsHandles, SendKeepsHandles, RecvKeepsHandles, ListKeepsHandles
       DEF SharedStep
  <2>2. ASSUME NEW r \in Receivers, BatchStep(r) PROVE HandlesInv'
    <3>1. r \in Tasks /\ pc[r] # "swap"
      BY <2>2 DEF BatchStep, StartMany, TakeBatch, SampleBatch, NotifyMany, TakeOut,
                  EndOfBatch, Unwind, Resume, Go, GoAs, Tasks
    <3>2. UNCHANGED flagVars
      BY <2>2 DEF BatchStep, StartMany, TakeBatch, SampleBatch, NotifyMany, TakeOut,
                  EndOfBatch, Unwind, Resume, manyFrame, listFrame, flagVars
    <3>3. PICK to : pc' = [pc EXCEPT ![r] = to]
      BY <2>2 DEF BatchStep, StartMany, TakeBatch, SampleBatch, NotifyMany, TakeOut,
                  EndOfBatch, Unwind, Resume, Go, GoAs
    <3>4. QED
      BY <3>1, <3>2, <3>3, OtherSteps
  <2>3. CASE UNCHANGED mpscVars
    BY <2>3 DEF mpscVars, vars, flagVars, taskVars, HandlesInv, LastHandleCloses
  <2>4. ASSUME NEW s \in Senders, Begin(s) \/ Step(s) PROVE s \in Tasks /\ SharedStep(s)
    BY <2>4 DEF SharedStep, Step, Tasks
  <2>5. \A r \in Receivers : r \in Tasks
    BY DEF Tasks
  <2>6. QED
    BY <2>1, <2>2, <2>3, <2>4, <2>5, StepsOfReceiver DEF MpscNext
<1>3. HandlesInv => LastHandleCloses
  BY DEF HandlesInv
<1>4. QED
  BY <1>1, <1>2, <1>3, MpscInvariant, PTL DEF MpscSpec

===============================================================================
