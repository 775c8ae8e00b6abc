----------------------------- MODULE MpscTheorems -----------------------------
(***************************************************************************)
(* What the exclusive-consumer queue (MpscQueue) guarantees, for any       *)
(* number of producers, any capacity, any number of blocks and both block  *)
(* sizes.                                                                  *)
(*                                                                         *)
(* The queue is seen twice as the shared-consumer queue, whose invariants  *)
(* and lemmas (MpmcTheorems) are used through INSTANCE:                    *)
(*   M  with the head at the first value that has not been moved out and   *)
(*      the consumer of MpscBlocks: its blocks are this queue's blocks;    *)
(*   I  with the head itself and idle consumers: its claims are this       *)
(*      queue's claims, which go by the head itself.                       *)
(* A step of the consumer is then a step of M, or none, except for two: it *)
(* takes a value at once, and resets a block without looking for readers.  *)
(***************************************************************************)
EXTENDS MpscBlocks, PositionsTheorems, SequenceTheorems, FiniteSetTheorems

M == INSTANCE MpmcTheorems WITH
       head <- UnreadFrom, cpc <- SharedCpc, cpos <- SharedCpos, cblk <- SharedCblk,
       cval <- SharedCval, ccount <- SharedCcount, SNOOZE_LIMIT <- 0
I == INSTANCE MpmcTheorems WITH
       cpc <- IdleCpc, cpos <- IdleCpos, cblk <- IdleCblk,
       cval <- SharedCval, ccount <- SharedCcount, SNOOZE_LIMIT <- 0

USE DEF PStep, SetPos, SetBlock, SetNew, CStep, ForgetLocals, vars, indexVars,
        headVars, linkVars, slotVars, poolVars, blockVars, claimLocals, prodVars,
        consVars, searchFrame, takeFrame, installFrame, readFrame, batchVars, singleVars
USE DEF M!PStep, M!SetPos, M!SetBlock, M!SetNew, M!CStep, M!ForgetLocals, M!vars,
        M!indexVars, M!headVars, M!linkVars, M!slotVars, M!poolVars, M!blockVars,
        M!claimLocals, M!prodVars, M!consVars, M!searchFrame, M!takeFrame,
        M!installFrame
USE DEF I!PStep, I!SetPos, I!SetBlock, I!SetNew, I!CStep, I!ForgetLocals, I!vars,
        I!indexVars, I!headVars, I!linkVars, I!slotVars, I!poolVars, I!blockVars,
        I!claimLocals, I!prodVars, I!consVars, I!searchFrame, I!takeFrame,
        I!installFrame

\* The invariant.
SingleInv ==
    BatchInv /\ ReceivedInv /\ I!IndexInv /\ M!BlockInv /\ M!KeepInv

----------------------------------------------------------------------------
(* The two views.                                                           *)

\* What the shared queue assumes of its parameters.
LEMMA Assumptions ==
    /\ LAP \in {4, 64}
    /\ Capacity \in (Nat \ {0}) \cup {M!UNBOUNDED}
    /\ Capacity \in (Nat \ {0}) \cup {I!UNBOUNDED}
    /\ CONTENTION_WINDOW \in Nat \ {0}
    /\ MaxBlocks \in Nat \ {0} /\ PushLimit \in Nat
    /\ 0 \in Nat
BY LapAssumption, CapacityAssumption, WindowAssumption, BoundsAssumption
   DEF UNBOUNDED, M!UNBOUNDED, I!UNBOUNDED

\* There is one consumer.
LEMMA OneConsumer == Receiver \in Consumers /\ \A c \in Consumers : c = Receiver
<1>1. \E c : Consumers = {c}
  BY ExclusiveAssumption, FS_Singleton
<1>2. QED
  BY <1>1 DEF Receiver

\* Nothing of the consumer's moves: neither does its image.
LEMMA ConsumerStays ==
    ASSUME UNCHANGED <<head, cpc, cpos, cblk, cval, ccount>>
    PROVE  UNCHANGED <<UnreadFrom, SharedCpc, SharedCpos, SharedCblk, SharedCval, SharedCcount,
                       IdleCpc, IdleCpos, IdleCblk>>
BY DEF UnreadFrom, SharedCpc, SharedPC, SharedCpos, SharedCblk, SharedCval, SharedCcount,
       IdleCpc, IdleCpos, IdleCblk, Receiver, BatchPCs, LeavingPCs

\* Where the batch is.
LEMMA UnreadPosition ==
    ASSUME BatchInv
    PROVE  /\ UnreadFrom \in Nat /\ head \in Nat /\ head <= UnreadFrom
           /\ \A c \in Consumers :
                /\ cpos[c] \in Nat /\ ccount[c] \in Nat
                /\ cpc[c] \in BatchPCs => UnreadFrom = cpos[c] + ccount[c] /\ cpos[c] = head
                /\ cpc[c] \notin BatchPCs => UnreadFrom = head
BY OneConsumer DEF BatchInv, UnreadFrom

\* The image of the consumer.
LEMMA ConsumerImage ==
    ASSUME BatchInv, NEW c \in Consumers
    PROVE  /\ SharedCpc = [d \in Consumers |-> SharedPC(d)]
           /\ SharedCpc[c] = SharedPC(c)
           /\ SharedPC(c) \in {"idle", "next", "advance", "readers", "recycle", "recycle_slow"}
           /\ SharedCpc[c] # "idle" <=> cpc[c] \in LeavingPCs
           /\ cpc[c] \in LeavingPCs =>
                /\ SharedCpos[c] = cpos[c] + ccount[c] - 1 /\ SharedCpos[c] \in Nat
                /\ IsLastSlot(SharedCpos[c])
                /\ SharedCblk[c] = cblk[c]
           /\ cpc[c] \notin LeavingPCs => SharedCpos[c] = 0 /\ SharedCblk[c] = Null
           /\ SharedCval[c] = NoValue /\ SharedCcount[c] = 0
BY DEF BatchInv, SharedCpc, SharedPC, SharedCpos, SharedCblk, SharedCval, SharedCcount,
       LeavingPCs

\* The claims go by the head itself, which is not ahead of the values moved out.
LEMMA SharedIndices == BatchInv /\ I!IndexInv => M!IndexInv
<1> SUFFICES ASSUME BatchInv, I!IndexInv PROVE M!IndexInv
  OBVIOUS
<1>1. /\ UnreadFrom \in Nat /\ head \in Nat /\ head <= UnreadFrom
      /\ Capacity # UNBOUNDED => Capacity \in Nat
  BY UnreadPosition, CapacityAssumption
<1>2. M!IndexTypeOK
  <2>1. SharedCpc \in [Consumers -> M!ConsumerPCs]
    BY ConsumerImage DEF SharedCpc, M!ConsumerPCs, M!TakenPCs
  <2>2. SharedCpos \in [Consumers -> Nat]
    BY ConsumerImage DEF SharedCpos
  <2>3. SharedCcount \in [Consumers -> 0..0]
    BY DEF SharedCcount
  <2>4. QED
    BY <1>1, <2>1, <2>2, <2>3 DEF I!IndexInv, I!IndexTypeOK, M!IndexTypeOK,
       I!ProducerPCs, M!ProducerPCs, I!ClaimedPCs, M!ClaimedPCs, I!FoundPCs, M!FoundPCs
<1>3. M!ModeInv /\ M!ClaimInv
  BY DEF I!IndexInv, I!ModeInv, M!ModeInv, I!ClaimInv, M!ClaimInv, I!UnboundedPCs,
     M!UnboundedPCs, I!BoundedPCs, M!BoundedPCs, I!UNBOUNDED, M!UNBOUNDED, I!ClaimedPCs,
     M!ClaimedPCs, I!FoundPCs, M!FoundPCs, I!IsSentinel, M!IsSentinel, I!Offset, M!Offset,
     I!BLOCK_CAP, M!BLOCK_CAP
<1>4. M!TakeInv
  <2>1. ASSUME NEW c \in Consumers
        PROVE  /\ SharedCpos[c] <= UnreadFrom
               /\ SharedCpc[c] \notin {"slot", "cas", "recheck", "read"}
               /\ cpc[c] \in LeavingPCs => SharedCpos[c] < UnreadFrom
               /\ SharedCpc[c] \in {"next", "advance"} =>
                    IsLastSlot(SharedCpos[c]) /\ UnreadFrom = SharedCpos[c] + 1
    <3>1. CASE cpc[c] \in {"next", "advance"}
      BY <3>1, ConsumerImage, UnreadPosition DEF BatchPCs, LeavingPCs, SharedPC
    <3>2. CASE cpc[c] \in LeavingPCs \ {"next", "advance"}
      BY <3>2, ConsumerImage, UnreadPosition DEF BatchInv, BatchPCs, LeavingPCs, SharedPC
    <3>3. CASE cpc[c] \notin LeavingPCs
      BY <1>1, <3>3, ConsumerImage
    <3>4. QED
      BY <3>1, <3>2, <3>3
  <2>2. QED
    BY <2>1, OneConsumer, ConsumerImage DEF M!TakeInv, M!Moving, M!TakenPCs, M!IsLastSlot,
       IsLastSlot, M!Offset, Offset, M!BLOCK_CAP, BLOCK_CAP
<1>5. M!CapInv
  <2>1. /\ cached \in Nat /\ phead \in [Producers -> Nat] /\ ppos \in [Producers -> Nat]
        /\ tail \in Nat /\ cached <= head /\ \A p \in Producers : phead[p] <= head
        /\ \A p \in Producers : ppc[p] \in {"cap_store", "cap_cas"} =>
             ItemsBetween(head, ppos[p]) < Capacity
        /\ CapacityHeld
    BY DEF I!IndexInv, I!IndexTypeOK, I!CapInv, I!CapacityHeld, CapacityHeld, I!ItemsBetween,
       ItemsBetween, I!Lap, Lap, I!UNBOUNDED, UNBOUNDED
  <2>2. \A t \in Nat : /\ ItemsBetween(UnreadFrom, t) <= ItemsBetween(head, t)
                       /\ ItemsBetween(UnreadFrom, t) \in Nat
                       /\ ItemsBetween(head, t) \in Nat
    BY <1>1, OlderHeadCountsMore, ItemsBetweenIsNat
  <2>3. /\ cached <= UnreadFrom /\ \A p \in Producers : phead[p] <= UnreadFrom
    BY <1>1, <2>1
  <2>4. \A p \in Producers : ppc[p] \in {"cap_store", "cap_cas"} =>
          ItemsBetween(UnreadFrom, ppos[p]) < Capacity
    <3>1. SUFFICES ASSUME NEW p \in Producers, ppc[p] \in {"cap_store", "cap_cas"}
                   PROVE  ItemsBetween(UnreadFrom, ppos[p]) < Capacity
      OBVIOUS
    <3>2. ItemsBetween(head, ppos[p]) < Capacity /\ ppos[p] \in Nat
      BY <2>1, <3>1
    <3>3. Capacity \in Nat \cup {UNBOUNDED}
      BY CapacityAssumption
    <3>4. QED
      BY <2>2, <3>2, <3>3 DEF UNBOUNDED
  <2>5. Capacity # UNBOUNDED => ItemsBetween(UnreadFrom, tail) <= Capacity
    BY <1>1, <2>1, <2>2 DEF CapacityHeld
  <2>6. QED
    BY <2>3, <2>4, <2>5 DEF M!CapInv, M!CapacityHeld, M!ItemsBetween, ItemsBetween, M!Lap,
       Lap, M!UNBOUNDED, UNBOUNDED
<1>6. QED
  BY <1>2, <1>3, <1>4, <1>5 DEF M!IndexInv

LEMMA SharedInv == SingleInv => M!IndexInv /\ M!MpmcInv /\ M!BlockInv /\ M!KeepInv
BY SharedIndices DEF SingleInv, M!MpmcInv

----------------------------------------------------------------------------
(* The producers: their claims are those of I, their blocks those of M.     *)

ClaimLoop(p) ==
    \/ StartPush(p) \/ LoadTail(p) \/ FetchAdd(p) \/ CasClaim(p) \/ CasFail(p)
    \/ SkipSentinel(p) \/ SkipSentinelFail(p) \/ CheckCached(p)
    \/ ReturnFull(p) \/ ReadHead(p) \/ StoreCached(p)
    \/ CapClaim(p) \/ CapFail(p)

OwnsPosition(p) ==
    \/ LoadTailBlock(p) \/ FastCheck(p) \/ WalkCheck(p) \/ FollowPrev(p)
    \/ TakeSpare(p) \/ TakeReady(p) \/ TakeRetired(p) \/ Allocate(p)
    \/ ResetTaken(p) \/ Link(p) \/ SetStart(p) \/ SetNext(p)
    \/ SetTailBlock(p) \/ WriteValue(p) \/ Publish(p)

\* No producer touches the consumer.
LEMMA ProducersLeaveConsumer ==
    ASSUME NEW p \in Producers, Producer(p)
    PROVE  UNCHANGED <<headVars, cpc, cpos, cblk, cval, ccount>>
<1>1. CASE ClaimLoop(p)
  BY <1>1 DEF ClaimLoop, StartPush, LoadTail, FetchAdd, CasClaim, CasFail, SkipSentinel,
     SkipSentinelFail, CheckCached, ReturnFull, ReadHead, StoreCached, CapClaim, CapFail
<1>2. CASE OwnsPosition(p)
  BY <1>2 DEF OwnsPosition, LoadTailBlock, FastCheck, WalkCheck, FollowPrev, TakeSpare,
     TakeReady, TakeRetired, Allocate, ResetTaken, Link, SetStart, SetNext, SetTailBlock,
     WriteValue, Publish
<1>3. QED
  BY <1>1, <1>2 DEF Producer, ClaimLoop, OwnsPosition

\* The claim loops are those of I.
LEMMA LoopsAreShared ==
    ASSUME NEW p \in Producers, ClaimLoop(p)
    PROVE  I!Loops(p) /\ I!Producer(p)
<1>1. Producer(p)
  BY DEF ClaimLoop, Producer
<1>2. /\ \A i : I!IsSentinel(i) = IsSentinel(i)
      /\ \A i, j : I!ItemsBetween(i, j) = ItemsBetween(i, j)
      /\ I!UNBOUNDED = UNBOUNDED
  BY DEF IsSentinel, I!IsSentinel, Offset, I!Offset, BLOCK_CAP, I!BLOCK_CAP, ItemsBetween,
     I!ItemsBetween, Lap, I!Lap, UNBOUNDED, I!UNBOUNDED
<1>3. /\ UNCHANGED <<IdleCpc, IdleCpos, IdleCblk, SharedCval, SharedCcount>>
      /\ UNCHANGED <<head, headBlock>>
  BY <1>1, ProducersLeaveConsumer, ConsumerStays
<1>4. StartPush(p) => I!StartPush(p)
  BY <1>2, <1>3 DEF StartPush, I!StartPush
<1>5. LoadTail(p) => I!LoadTail(p)
  BY <1>3 DEF LoadTail, I!LoadTail
<1>6. /\ FetchAdd(p) => I!FetchAdd(p)
      /\ CasClaim(p) => I!CasClaim(p)
      /\ CasFail(p) => I!CasFail(p)
  BY <1>2, <1>3 DEF FetchAdd, I!FetchAdd, CasClaim, I!CasClaim, CasFail, I!CasFail
<1>7. /\ SkipSentinel(p) => I!SkipSentinel(p)
      /\ SkipSentinelFail(p) => I!SkipSentinelFail(p)
      /\ CheckCached(p) => I!CheckCached(p)
  BY <1>2, <1>3 DEF SkipSentinel, I!SkipSentinel, SkipSentinelFail, I!SkipSentinelFail,
     CheckCached, I!CheckCached
<1>8. /\ ReturnFull(p) => I!ReturnFull(p)
      /\ ReadHead(p) => I!ReadHead(p)
      /\ StoreCached(p) => I!StoreCached(p)
  BY <1>2, <1>3 DEF ReturnFull, I!ReturnFull, ReadHead, I!ReadHead, StoreCached,
     I!StoreCached
<1>9. /\ CapClaim(p) => I!CapClaim(p)
      /\ CapFail(p) => I!CapFail(p)
  BY <1>3 DEF CapClaim, I!CapClaim, CapFail, I!CapFail
<1>10. QED
  BY <1>4, <1>5, <1>6, <1>7, <1>8, <1>9 DEF ClaimLoop, I!Loops, I!Producer

\* What a producer does with its position is the same in either view.
LEMMA OwnersAreShared ==
    ASSUME NEW p \in Producers, OwnsPosition(p)
    PROVE  (M!Owner(p) \/ M!Publish(p)) /\ M!Producer(p) /\ I!Producer(p)
<1>1. UNCHANGED <<head, headBlock, cpc, cpos, cblk, cval, ccount>>
  BY ProducersLeaveConsumer DEF OwnsPosition, Producer
<1>2. UNCHANGED <<UnreadFrom, SharedCpc, SharedCpos, SharedCblk, SharedCval, SharedCcount,
                  IdleCpc, IdleCpos, IdleCblk>>
  BY <1>1, ConsumerStays
<1>3. /\ \A i : M!LapStart(i) = LapStart(i) /\ I!LapStart(i) = LapStart(i)
      /\ \A i : M!Lap(i) = Lap(i) /\ I!Lap(i) = Lap(i)
      /\ \A i : M!Offset(i) = Offset(i) /\ I!Offset(i) = Offset(i)
      /\ \A i : M!WrittenTag(i) = WrittenTag(i) /\ I!WrittenTag(i) = WrittenTag(i)
      /\ \A i : M!IsLastSlot(i) = IsLastSlot(i) /\ I!IsLastSlot(i) = IsLastSlot(i)
      /\ M!POOLED = POOLED /\ I!POOLED = POOLED /\ M!Null = Null /\ I!Null = Null
      /\ \A b : M!ReadersDone(b) = ReadersDone(b) /\ I!ReadersDone(b) = ReadersDone(b)
      /\ M!AfterFound(p) = AfterFound(p) /\ I!AfterFound(p) = AfterFound(p)
  BY DEF LapStart, M!LapStart, I!LapStart, Lap, M!Lap, I!Lap, Offset, M!Offset, I!Offset,
     WrittenTag, M!WrittenTag, I!WrittenTag, IsLastSlot, M!IsLastSlot, I!IsLastSlot,
     BLOCK_CAP, M!BLOCK_CAP, I!BLOCK_CAP, POOLED, M!POOLED, I!POOLED, Null, M!Null, I!Null,
     ReadersDone, M!ReadersDone, I!ReadersDone, Slots, M!Slots, I!Slots,
     AfterFound, M!AfterFound, I!AfterFound
<1>4. CASE LoadTailBlock(p) \/ FastCheck(p) \/ WalkCheck(p) \/ FollowPrev(p)
  BY <1>2, <1>3, <1>4 DEF LoadTailBlock, M!LoadTailBlock, I!LoadTailBlock, FastCheck,
     M!FastCheck, I!FastCheck, WalkCheck, M!WalkCheck, I!WalkCheck, FollowPrev,
     M!FollowPrev, I!FollowPrev, M!Owner, M!Producer, I!Producer
<1>5. CASE TakeSpare(p) \/ TakeReady(p)
  BY <1>2, <1>3, <1>5 DEF TakeSpare, M!TakeSpare, I!TakeSpare, TakeReady, M!TakeReady,
     I!TakeReady, M!Owner, M!Producer, I!Producer
<1>6. CASE TakeRetired(p) \/ Allocate(p) \/ ResetTaken(p)
  BY <1>2, <1>3, <1>6 DEF TakeRetired, M!TakeRetired, I!TakeRetired, Allocate, M!Allocate,
     I!Allocate, ResetTaken, M!ResetTaken, I!ResetTaken, M!Owner, M!Producer, I!Producer
<1>7. CASE Link(p) \/ SetStart(p) \/ SetNext(p) \/ SetTailBlock(p)
  BY <1>2, <1>3, <1>7 DEF Link, M!Link, I!Link, SetStart, M!SetStart, I!SetStart, SetNext,
     M!SetNext, I!SetNext, SetTailBlock, M!SetTailBlock, I!SetTailBlock, M!Owner,
     M!Producer, I!Producer
<1>8. CASE WriteValue(p) \/ Publish(p)
  BY <1>2, <1>3, <1>8 DEF WriteValue, M!WriteValue, I!WriteValue, Publish, M!Publish,
     I!Publish, M!Owner, M!Producer, I!Producer
<1>9. QED
  BY <1>4, <1>5, <1>6, <1>7, <1>8 DEF OwnsPosition

\* A claim loop, as M sees it: the claims of I, which go by the head itself.
LEMMA LoopsInM ==
    ASSUME SingleInv, NEW p \in Producers, ClaimLoop(p)
    PROVE  /\ M!LoopFrame(p)
           /\ ppc'[p] \in ClaimedPCs =>
                /\ ~IsSentinel(tail) /\ tail' = tail + 1 /\ ppos'[p] = tail
                /\ ppc' = [ppc EXCEPT ![p] = "find"] /\ ppos' = [ppos EXCEPT ![p] = tail]
                /\ Capacity # UNBOUNDED => ItemsBetween(head, tail) < Capacity
           /\ ppc'[p] \notin ClaimedPCs =>
                tail' = tail \/ (IsSentinel(tail) /\ tail' = tail + 1)
<1>1. I!IndexInv /\ I!Loops(p) /\ Producer(p) /\ ppos \in [Producers -> Nat]
  BY LoopsAreShared DEF SingleInv, I!IndexInv, I!IndexTypeOK, Producer, ClaimLoop
<1>2. I!LoopFrame(p)
  BY <1>1, Assumptions, I!LoopClaims
<1>3. UNCHANGED <<UnreadFrom, SharedCpc, SharedCpos, SharedCblk, SharedCval, SharedCcount>>
  BY <1>1, ProducersLeaveConsumer, ConsumerStays
<1>4. M!LoopFrame(p)
  BY <1>2, <1>3 DEF I!LoopFrame, M!LoopFrame, I!ClaimsKept, M!ClaimsKept, I!ClaimedPCs,
     M!ClaimedPCs, I!FoundPCs, M!FoundPCs, I!StartedPCs, M!StartedPCs, I!ProducerPCs,
     M!ProducerPCs, I!IsSentinel, M!IsSentinel, I!Offset, M!Offset, I!BLOCK_CAP, M!BLOCK_CAP
<1>5. /\ I!ClaimedPCs = ClaimedPCs /\ I!UNBOUNDED = UNBOUNDED
      /\ I!ItemsBetween(head, tail) = ItemsBetween(head, tail)
      /\ I!IsSentinel(tail) = IsSentinel(tail)
  BY DEF I!ClaimedPCs, ClaimedPCs, I!FoundPCs, FoundPCs, I!UNBOUNDED, UNBOUNDED,
     I!ItemsBetween, ItemsBetween, I!Lap, Lap, I!IsSentinel, IsSentinel, I!Offset, Offset,
     I!BLOCK_CAP, BLOCK_CAP
<1>6. /\ ppc'[p] \in I!ClaimedPCs =>
           /\ ~I!IsSentinel(tail) /\ tail' = tail + 1
           /\ ppc' = [ppc EXCEPT ![p] = "find"] /\ ppos' = [ppos EXCEPT ![p] = tail]
           /\ Capacity # I!UNBOUNDED => I!ItemsBetween(head, tail) < Capacity
      /\ ppc'[p] \notin I!ClaimedPCs =>
           tail' = tail \/ (I!IsSentinel(tail) /\ tail' = tail + 1)
  BY <1>1, Assumptions, I!LoopMovesTail
<1>7. QED
  BY <1>1, <1>4, <1>5, <1>6

\* The claims, blocks and places of the two views.
LEMMA ProducersKeepViews ==
    ASSUME SingleInv, NEW p \in Producers, Producer(p)
    PROVE  I!IndexInv' /\ M!BlockInv' /\ M!KeepInv'
<1>1. M!IndexInv /\ M!MpmcInv /\ M!BlockInv /\ M!KeepInv /\ I!IndexInv
  BY SharedInv DEF SingleInv
<1>2. I!IndexInv'
  <2>1. I!Producer(p)
    BY LoopsAreShared, OwnersAreShared DEF Producer, ClaimLoop, OwnsPosition
  <2>2. QED
    BY <1>1, <2>1, Assumptions, I!ProducerStep
<1>3. CASE ClaimLoop(p)
  <2>1. M!ClaimedPCs = ClaimedPCs /\ M!IsSentinel(tail) = IsSentinel(tail)
    BY DEF M!ClaimedPCs, ClaimedPCs, M!FoundPCs, FoundPCs, M!IsSentinel, IsSentinel,
       M!Offset, Offset, M!BLOCK_CAP, BLOCK_CAP
  <2>2. M!BlockInv'
    BY <1>1, <1>3, LoopsInM, Assumptions, M!LoopFrameKeeps DEF M!IndexInv
  <2>3. M!KeepInv'
    BY <1>1, <1>3, <2>1, LoopsInM, Assumptions, M!LoopFrameKeepsAll
  <2>4. QED
    BY <1>2, <2>2, <2>3
<1>4. CASE OwnsPosition(p)
  <2>1. [M!Next]_M!vars
    BY <1>4, OwnersAreShared DEF M!Next
  <2>2. M!BlockInv'
    BY <1>1, <2>1, Assumptions, M!NextKeepsBlocks
  <2>3. M!KeepInv'
    BY <1>1, <2>1, Assumptions, M!NextKeepsAll
  <2>4. QED
    BY <1>2, <2>2, <2>3
<1>5. QED
  BY <1>3, <1>4 DEF Producer, ClaimLoop, OwnsPosition

----------------------------------------------------------------------------
(* Where a batch reads.                                                     *)

\* The arithmetic and the names of the two views are the queue's own.
LEMMA SameWords ==
    /\ \A i : M!LapStart(i) = LapStart(i) /\ I!LapStart(i) = LapStart(i)
    /\ \A i : M!Lap(i) = Lap(i) /\ I!Lap(i) = Lap(i)
    /\ \A i : M!Offset(i) = Offset(i) /\ I!Offset(i) = Offset(i)
    /\ \A i : M!WrittenTag(i) = WrittenTag(i) /\ I!WrittenTag(i) = WrittenTag(i)
    /\ \A i : M!IsLastSlot(i) = IsLastSlot(i) /\ I!IsLastSlot(i) = IsLastSlot(i)
    /\ \A i : M!IsSentinel(i) = IsSentinel(i) /\ I!IsSentinel(i) = IsSentinel(i)
    /\ M!POOLED = POOLED /\ I!POOLED = POOLED /\ M!Null = Null /\ I!Null = Null
    /\ M!NoValue = NoValue /\ M!Slots = Slots /\ M!Blocks = Blocks
    /\ M!BLOCK_CAP = BLOCK_CAP
    /\ M!ClaimedPCs = ClaimedPCs /\ M!FoundPCs = FoundPCs
BY DEF LapStart, M!LapStart, I!LapStart, Lap, M!Lap, I!Lap, Offset, M!Offset, I!Offset,
   WrittenTag, M!WrittenTag, I!WrittenTag, IsLastSlot, M!IsLastSlot, I!IsLastSlot,
   IsSentinel, M!IsSentinel, I!IsSentinel, BLOCK_CAP, M!BLOCK_CAP, I!BLOCK_CAP, POOLED,
   M!POOLED, I!POOLED, Null, M!Null, I!Null, NoValue, M!NoValue, Slots, M!Slots, Blocks,
   M!Blocks, ClaimedPCs, M!ClaimedPCs, FoundPCs, M!FoundPCs

\* The position it has come to is in the lap it began in, and holds a value while
\* there may be more.
LEMMA BatchPlace ==
    ASSUME BatchInv, NEW c \in Consumers, cpc[c] \in BatchPCs
    PROVE  /\ UnreadFrom \in Nat /\ UnreadFrom = cpos[c] + ccount[c]
           /\ Offset(UnreadFrom) = Offset(cpos[c]) + ccount[c]
           /\ Lap(UnreadFrom) = Lap(cpos[c]) /\ LapStart(UnreadFrom) = LapStart(cpos[c])
           /\ cpc[c] \in {"read", "more"} =>
                ~IsSentinel(UnreadFrom) /\ Offset(UnreadFrom) \in Slots
<1>1. /\ cpos[c] \in Nat /\ ccount[c] \in Nat /\ cmax \in Nat
      /\ UnreadFrom = cpos[c] + ccount[c]
      /\ ccount[c] <= cmax /\ Offset(cpos[c]) + cmax <= BLOCK_CAP
      /\ cpc[c] \in {"read", "more"} => ccount[c] < cmax
  BY UnreadPosition DEF BatchInv
<1>2. /\ Offset(cpos[c]) \in 0..(LAP - 1) /\ BLOCK_CAP < LAP /\ BLOCK_CAP \in Nat
      /\ LAP \in Nat
  <2>1. Offset(cpos[c]) \in 0..(LAP - 1)
    BY <1>1, OffsetsAndLaps
  <2>2. BLOCK_CAP < LAP /\ BLOCK_CAP \in Nat /\ LAP \in Nat
    BY LapAssumption DEF BLOCK_CAP
  <2>3. QED
    BY <2>1, <2>2
<1>3. Offset(cpos[c]) + ccount[c] < LAP
  BY <1>1, <1>2
<1>4. /\ Offset(UnreadFrom) = Offset(cpos[c]) + ccount[c] /\ UnreadFrom \in Nat
      /\ Lap(UnreadFrom) = Lap(cpos[c]) /\ LapStart(UnreadFrom) = LapStart(cpos[c])
  BY <1>1, <1>3, StaysInLap
<1>5. cpc[c] \in {"read", "more"} => ~IsSentinel(UnreadFrom) /\ Offset(UnreadFrom) \in Slots
  BY <1>1, <1>2, <1>4 DEF IsSentinel, Slots
<1>6. QED
  BY <1>1, <1>4, <1>5

\* The head block serves the lap of the first value that is still there, but
\* for the moment between the two stores that move the head.
LEMMA UnreadBlock ==
    ASSUME SingleInv, NEW c \in Consumers
    PROVE  /\ headBlock \in Blocks /\ start[headBlock] \in Nat
           /\ cpc[c] # "advance" => start[headBlock] = LapStart(UnreadFrom)
           /\ cpc[c] = "advance" => start[headBlock] = UnreadFrom + 1
<1>1. M!IndexInv /\ M!BlockInv
  BY SharedInv
<1>2. headBlock \in Blocks /\ start[headBlock] \in Nat
  BY <1>1, Assumptions, M!HeadServes, SameWords
<1>3. start[headBlock] = IF \E d \in Consumers : SharedCpc[d] = "advance"
                         THEN UnreadFrom + 1 ELSE M!LapStart(UnreadFrom)
  BY <1>1 DEF M!BlockInv, M!HeadInv
<1>4. (\E d \in Consumers : SharedCpc[d] = "advance") <=> cpc[c] = "advance"
  BY OneConsumer DEF SharedCpc, SharedPC, LeavingPCs
<1>5. QED
  BY <1>2, <1>3, <1>4, SameWords

\* No producer touches what the batch goes by.
LEMMA ProducersKeepBatch ==
    ASSUME SingleInv, NEW p \in Producers, Producer(p), UNCHANGED batchVars
    PROVE  BatchInv' /\ ReceivedInv'
<1>1. /\ UNCHANGED <<head, headBlock, cpc, cpos, cblk, cval, ccount, cmax, received>>
      /\ UNCHANGED UnreadFrom
  BY ProducersLeaveConsumer, ConsumerStays
<1>2. BatchInv /\ ReceivedInv /\ retired = {} /\ ppc[p] # "reset"
      /\ \A q \in Producers : ppc[q] # "reset"
  BY DEF SingleInv, BatchInv
<1>3. ppc \in [Producers -> ProducerPCs]
  BY DEF SingleInv, I!IndexInv, I!IndexTypeOK, I!ProducerPCs, ProducerPCs, I!ClaimedPCs,
     ClaimedPCs, I!FoundPCs, FoundPCs
<1>4. /\ UNCHANGED <<marks, retired>> /\ ppc'[p] # "reset"
      /\ \A q \in Producers \ {p} : ppc'[q] = ppc[q]
      /\ UNCHANGED state \/ Publish(p)
  <2>1. CASE ClaimLoop(p)
    BY <1>3, <2>1 DEF ClaimLoop, StartPush, LoadTail, FetchAdd, CasClaim, CasFail,
       SkipSentinel, SkipSentinelFail, CheckCached, ReturnFull, ReadHead, StoreCached,
       CapClaim, CapFail
  <2>2. CASE LoadTailBlock(p) \/ FastCheck(p) \/ WalkCheck(p) \/ FollowPrev(p)
    BY <1>3, <2>2 DEF LoadTailBlock, FastCheck, WalkCheck, FollowPrev, AfterFound
  <2>3. CASE TakeSpare(p) \/ TakeReady(p) \/ TakeRetired(p) \/ Allocate(p)
    BY <1>2, <1>3, <2>3 DEF TakeSpare, TakeReady, TakeRetired, Allocate
  <2>4. CASE ResetTaken(p)
    BY <1>2, <2>4 DEF ResetTaken
  <2>5. CASE \/ Link(p) \/ SetStart(p) \/ SetNext(p) \/ SetTailBlock(p) \/ WriteValue(p)
             \/ Publish(p)
    BY <1>3, <2>5 DEF Link, SetStart, SetNext, SetTailBlock, WriteValue, Publish
  <2>6. QED
    BY <2>1, <2>2, <2>3, <2>4, <2>5 DEF Producer, ClaimLoop
<1>5. retired' = {} /\ (\A q \in Producers : ppc'[q] # "reset") /\ marks' = marks
  BY <1>2, <1>4
<1>6. ASSUME NEW c \in Consumers, cpc[c] = "read"
      PROVE  state'[cblk[c]][Offset(cpos[c] + ccount[c])] = WrittenTag(Lap(cpos[c]))
  <2>1. state[cblk[c]][Offset(UnreadFrom)] = WrittenTag(Lap(UnreadFrom))
        /\ cblk[c] = headBlock /\ UnreadFrom = cpos[c] + ccount[c]
        /\ Lap(UnreadFrom) = Lap(cpos[c]) /\ UnreadFrom \in Nat
    BY <1>2, <1>6, BatchPlace DEF BatchInv, BatchPCs
  <2>2. headBlock \in Blocks /\ start[headBlock] = LapStart(UnreadFrom)
    BY <1>6, UnreadBlock
  <2>3. CASE UNCHANGED state
    BY <2>1, <2>3
  <2>4. CASE Publish(p)
    <3>1. /\ state' = [state EXCEPT ![pblk[p]][Offset(ppos[p])] = WrittenTag(Lap(ppos[p]))]
          /\ ppc[p] = "publish"
      BY <2>4 DEF Publish
    <3>2. /\ state \in [Blocks -> [Slots -> Nat]] /\ pblk[p] \in Blocks
          /\ ppos[p] \in Nat /\ start[pblk[p]] = LapStart(ppos[p])
      <4>1. M!IndexInv /\ M!BlockInv
        BY SharedInv
      <4>2. state \in [Blocks -> [Slots -> Nat]]
        BY <4>1, SameWords DEF M!BlockInv, M!BlockTypeOK
      <4>3. QED
        BY <3>1, <4>1, <4>2, Assumptions, M!SlotIsOwn, SameWords
    <3>3. CASE pblk[p] = headBlock /\ Offset(ppos[p]) = Offset(UnreadFrom)
      BY <2>1, <2>2, <3>1, <3>2, <3>3, TagTellsLap
    <3>4. CASE ~(pblk[p] = headBlock /\ Offset(ppos[p]) = Offset(UnreadFrom))
      BY <2>1, <2>2, <3>1, <3>2, <3>4
    <3>5. QED
      BY <3>3, <3>4
  <2>5. QED
    BY <1>4, <2>3, <2>4
<1>7. BatchInv'
  BY <1>1, <1>2, <1>5, <1>6 DEF BatchInv
<1>8. ReceivedInv'
  BY <1>1, <1>2 DEF ReceivedInv
<1>9. QED
  BY <1>7, <1>8

----------------------------------------------------------------------------
(* The consumer, as M sees it.                                              *)

\* A consumer that only looks, or only releases, does nothing.
LEMMA LooksStutter ==
    ASSUME SingleInv, NEW c \in Consumers,
           Start(c) \/ ReturnNothing(c) \/ CheckMore(c) \/ Release(c)
    PROVE  UNCHANGED M!vars
<1>1. BatchInv /\ c = Receiver /\ \A d \in Consumers : d = c
  BY OneConsumer DEF SingleInv
<1>2. /\ cpc \in [Consumers -> BatchPCs \cup {"idle"} \cup FinishingPCs]
      /\ cpos \in [Consumers -> Nat] /\ ccount \in [Consumers -> Nat] /\ head \in Nat
      /\ cpc[c] \in BatchPCs => cpos[c] = head
      /\ cpc[c] = "idle" => ccount[c] = 0
  BY <1>1 DEF BatchInv
<1>3. UNCHANGED <<indexVars, tailBlock, headBlock, blockVars, poolVars, prodVars>>
  BY DEF Start, ReturnNothing, CheckMore, Release
<1>4. cpc[c] \notin LeavingPCs /\ cpc'[c] \notin LeavingPCs /\ UnreadFrom' = UnreadFrom
  <2>1. CASE Start(c)
    BY <1>1, <1>2, <2>1 DEF Start, UnreadFrom, BatchPCs, LeavingPCs
  <2>2. CASE ReturnNothing(c)
    BY <1>1, <1>2, <2>2 DEF ReturnNothing, UnreadFrom, BatchPCs, LeavingPCs
  <2>3. CASE CheckMore(c)
    BY <1>1, <1>2, <2>3 DEF CheckMore, UnreadFrom, BatchPCs, LeavingPCs
  <2>4. CASE Release(c)
    BY <1>1, <1>2, <2>4 DEF Release, UnreadFrom, BatchPCs, LeavingPCs
  <2>5. QED
    BY <2>1, <2>2, <2>3, <2>4
<1>5. UNCHANGED <<SharedCpc, SharedCpos, SharedCblk, SharedCval, SharedCcount>>
  BY <1>1, <1>4 DEF SharedCpc, SharedPC, SharedCpos, SharedCblk, SharedCval, SharedCcount,
     LeavingPCs
<1>6. QED
  BY <1>3, <1>4, <1>5

\* The value is read: M takes it at once.
LEMMA ReadTakesAtOnce ==
    ASSUME SingleInv, NEW c \in Consumers, ReadValue(c)
    PROVE  /\ M!TakesAtOnce(c) /\ UnreadFrom' = UnreadFrom + 1
           /\ ~IsSentinel(UnreadFrom)
           /\ cval'[c] = UnreadFrom /\ received' = Append(received, UnreadFrom)
           /\ cpc'[c] = "next" <=> IsLastSlot(UnreadFrom)
           /\ cpc'[c] \in {"more", "next", "release"}
           /\ cpc'[c] = "more" => ccount[c] + 1 < cmax
<1>1. BatchInv /\ c = Receiver /\ \A d \in Consumers : d = c
  BY OneConsumer DEF SingleInv
<1>2. /\ cpc \in [Consumers -> BatchPCs \cup {"idle"} \cup FinishingPCs]
      /\ cpos \in [Consumers -> Nat] /\ ccount \in [Consumers -> Nat] /\ cmax \in Nat
      /\ cpc[c] = "read" /\ cblk[c] = headBlock
      /\ cval \in [Consumers -> Nat \cup {NoValue}]
      /\ Offset(cpos[c]) + cmax <= BLOCK_CAP
      /\ state[cblk[c]][Offset(cpos[c] + ccount[c])] = WrittenTag(Lap(cpos[c]))
  BY <1>1 DEF BatchInv, ReadValue, BatchPCs
<1>3. /\ UnreadFrom \in Nat /\ UnreadFrom = cpos[c] + ccount[c]
      /\ Offset(UnreadFrom) = Offset(cpos[c]) + ccount[c]
      /\ Lap(UnreadFrom) = Lap(cpos[c]) /\ ~IsSentinel(UnreadFrom)
      /\ state[headBlock][Offset(UnreadFrom)] = WrittenTag(Lap(UnreadFrom))
  BY <1>1, <1>2, BatchPlace DEF BatchPCs
<1>4. /\ cpc' = [cpc EXCEPT ![c] = IF ccount[c] + 1 < cmax THEN "more"
                              ELSE IF IsLastSlot(UnreadFrom) THEN "next" ELSE "release"]
      /\ cval' = [cval EXCEPT ![c] = value[cblk[c]][Offset(UnreadFrom)]]
      /\ ccount' = [ccount EXCEPT ![c] = ccount[c] + 1]
      /\ received' = Append(received, cval'[c])
      /\ UNCHANGED <<cmax, cpos, cblk, readFrame>>
  BY <1>3 DEF ReadValue
<1>5. IsLastSlot(UnreadFrom) => ~(ccount[c] + 1 < cmax)
  <2>1. Offset(cpos[c]) \in 0..(LAP - 1) /\ BLOCK_CAP \in Nat /\ LAP \in Nat
    BY <1>2, OffsetsAndLaps, LapAssumption DEF BLOCK_CAP
  <2>2. QED
    BY <1>2, <1>3, <2>1 DEF IsLastSlot
<1>6. UnreadFrom' = UnreadFrom + 1
  BY <1>1, <1>2, <1>3, <1>4 DEF UnreadFrom, BatchPCs
<1>7. cval'[c] = UnreadFrom
  <2>1. headBlock \in Blocks /\ start[headBlock] = LapStart(UnreadFrom)
    BY <1>2, UnreadBlock
  <2>2. value[headBlock][Offset(UnreadFrom)] = UnreadFrom
    BY <1>3, <2>1, SharedInv, Assumptions, M!WrittenSlot, SameWords
  <2>3. QED
    BY <1>2, <1>4, <2>2
<1>8. M!TakesAtOnce(c)
  <2>1. /\ \A d \in Consumers : SharedCpc[d] = "idle"
        /\ SharedCpos[c] = 0 /\ SharedCblk[c] = Null
    BY <1>1, <1>2 DEF SharedCpc, SharedPC, SharedCpos, SharedCblk, LeavingPCs
  <2>2. /\ ~M!IsSentinel(UnreadFrom)
        /\ state[headBlock][M!Offset(UnreadFrom)] = M!WrittenTag(M!Lap(UnreadFrom))
    BY <1>3, SameWords
  <2>3. CASE IsLastSlot(UnreadFrom)
    <3>1. cpc'[c] = "next" /\ cpos'[c] + ccount'[c] - 1 = UnreadFrom /\ cblk'[c] = headBlock
      BY <1>2, <1>3, <1>4, <1>5, <2>3
    <3>2. /\ SharedCpc' = [SharedCpc EXCEPT ![c] = "next"]
          /\ SharedCpos' = [SharedCpos EXCEPT ![c] = UnreadFrom]
          /\ SharedCblk' = [SharedCblk EXCEPT ![c] = headBlock]
      BY <1>1, <3>1 DEF SharedCpc, SharedPC, SharedCpos, SharedCblk, LeavingPCs
    <3>3. QED
      BY <1>4, <1>6, <2>1, <2>2, <2>3, <3>2, SameWords DEF M!TakesAtOnce, SharedCval, SharedCcount
  <2>4. CASE ~IsLastSlot(UnreadFrom)
    <3>1. cpc'[c] \in {"more", "release"}
      BY <1>2, <1>4, <2>4
    <3>2. UNCHANGED <<SharedCpc, SharedCpos, SharedCblk>>
      BY <1>1, <1>2, <3>1 DEF SharedCpc, SharedPC, SharedCpos, SharedCblk, LeavingPCs
    <3>3. QED
      BY <1>4, <1>6, <2>1, <2>2, <2>4, <3>2, SameWords DEF M!TakesAtOnce, SharedCval, SharedCcount
  <2>5. QED
    BY <2>3, <2>4
<1>9. QED
  BY <1>2, <1>3, <1>4, <1>5, <1>6, <1>7, <1>8

\* It moves the head, and gives the block back, as M does.
LEMMA LeavingIsShared ==
    ASSUME SingleInv, NEW c \in Consumers,
           \/ MoveHeadBlock(c) \/ MoveHeadIndex(c)
           \/ (Recycle(c) \/ RecycleFail(c) \/ RecycleSlow(c)) /\ UNCHANGED batchVars
    PROVE  [M!Next]_M!vars
<1>1. BatchInv /\ c = Receiver /\ \A d \in Consumers : d = c
  BY OneConsumer DEF SingleInv
<1>2. /\ cpc \in [Consumers -> BatchPCs \cup {"idle"} \cup FinishingPCs]
      /\ cpos \in [Consumers -> Nat] /\ ccount \in [Consumers -> Nat] /\ head \in Nat
      /\ cblk \in [Consumers -> Blocks \cup {Null}]
      /\ cval \in [Consumers -> Nat \cup {NoValue}]
      /\ cpc[c] \in BatchPCs => cpos[c] = head
      /\ cpc[c] \in LeavingPCs => ccount[c] # 0
  BY <1>1 DEF BatchInv
<1>3. UNCHANGED <<SharedCval, SharedCcount>>
      /\ SharedCval = [SharedCval EXCEPT ![c] = M!NoValue]
      /\ SharedCcount = [SharedCcount EXCEPT ![c] = 0]
  BY <1>1, SameWords DEF SharedCval, SharedCcount
<1>4. CASE MoveHeadBlock(c)
  <2>1. /\ cpc[c] = "next" /\ cpc'[c] = "advance" /\ headBlock' = next[cblk[c]]
        /\ UNCHANGED <<indexVars, tailBlock, head, blockVars, poolVars, prodVars, cpos,
                       cblk, ccount>>
    BY <1>2, <1>4 DEF MoveHeadBlock
  <2>2. UnreadFrom' = UnreadFrom
    BY <1>1, <2>1 DEF UnreadFrom, BatchPCs
  <2>3. /\ SharedCpc[c] = "next" /\ SharedCpc' = [SharedCpc EXCEPT ![c] = "advance"]
        /\ SharedCblk[c] = cblk[c] /\ UNCHANGED <<SharedCpos, SharedCblk>>
    BY <1>1, <2>1 DEF SharedCpc, SharedPC, SharedCpos, SharedCblk, LeavingPCs
  <2>4. M!MoveHeadBlock(c)
    BY <1>3, <2>1, <2>2, <2>3 DEF M!MoveHeadBlock
  <2>5. QED
    BY <2>4 DEF M!Next, M!Consumer
<1>5. CASE MoveHeadIndex(c)
  <2>1. /\ cpc[c] = "advance" /\ cpc'[c] = "reset" /\ head' = cpos[c] + ccount[c] + 1
        /\ UNCHANGED <<indexVars, tailBlock, headBlock, blockVars, poolVars, prodVars, cpos,
                       cblk, ccount>>
    BY <1>2, <1>5 DEF MoveHeadIndex
  <2>2. UnreadFrom' = head' /\ SharedCpos[c] = cpos[c] + ccount[c] - 1
    BY <1>1, <2>1 DEF UnreadFrom, BatchPCs, SharedCpos, LeavingPCs
  <2>3. /\ SharedCpc[c] = "advance" /\ SharedCpc' = [SharedCpc EXCEPT ![c] = "readers"]
        /\ UNCHANGED <<SharedCpos, SharedCblk>>
    BY <1>1, <2>1 DEF SharedCpc, SharedPC, SharedCpos, SharedCblk, LeavingPCs
  <2>4. UnreadFrom' = SharedCpos[c] + 2
    BY <1>2, <2>1, <2>2
  <2>5. M!MoveHeadIndex(c)
    BY <1>3, <2>1, <2>3, <2>4 DEF M!MoveHeadIndex
  <2>6. QED
    BY <2>5 DEF M!Next, M!Consumer
<1>6. CASE RecycleFail(c)
  <2>1. /\ cpc[c] = "recycle" /\ cpc'[c] = "recycle_slow" /\ spare # Null
        /\ UNCHANGED <<indexVars, tailBlock, headVars, blockVars, poolVars, prodVars, cpos,
                       cblk, ccount>>
    BY <1>2, <1>6 DEF RecycleFail
  <2>2. UnreadFrom' = UnreadFrom
    BY <1>1, <2>1 DEF UnreadFrom, BatchPCs
  <2>3. /\ SharedCpc[c] = "recycle" /\ SharedCpc' = [SharedCpc EXCEPT ![c] = "recycle_slow"]
        /\ UNCHANGED <<SharedCpos, SharedCblk>>
    BY <1>1, <2>1 DEF SharedCpc, SharedPC, SharedCpos, SharedCblk, LeavingPCs
  <2>4. M!RecycleFail(c)
    BY <1>3, <2>1, <2>2, <2>3, SameWords DEF M!RecycleFail
  <2>5. QED
    BY <2>4 DEF M!Next, M!Consumer
<1>7. CASE Recycle(c) \/ RecycleSlow(c)
  <2>1. /\ cpc[c] \in {"recycle", "recycle_slow"} /\ cpc'[c] = "idle"
        /\ UNCHANGED <<indexVars, tailBlock, headVars, blockVars, prodVars>>
    BY <1>2, <1>7 DEF Recycle, RecycleSlow
  <2>2. UnreadFrom' = UnreadFrom
    BY <1>1, <2>1 DEF UnreadFrom, BatchPCs
  <2>3. /\ SharedCpc[c] = cpc[c] /\ SharedCpc' = [SharedCpc EXCEPT ![c] = "idle"]
        /\ SharedCblk[c] = cblk[c]
        /\ SharedCpos' = [SharedCpos EXCEPT ![c] = 0]
        /\ SharedCblk' = [SharedCblk EXCEPT ![c] = Null]
    BY <1>1, <2>1 DEF SharedCpc, SharedPC, SharedCpos, SharedCblk, LeavingPCs
  <2>4. CASE Recycle(c)
    <3>1. M!Recycle(c)
      BY <1>3, <2>1, <2>2, <2>3, <2>4, SameWords DEF Recycle, M!Recycle
    <3>2. QED
      BY <3>1 DEF M!Next, M!Consumer
  <2>5. CASE RecycleSlow(c)
    <3>1. M!RecycleSlow(c)
      BY <1>3, <2>1, <2>2, <2>3, <2>5, SameWords DEF RecycleSlow, M!RecycleSlow
    <3>2. QED
      BY <3>1 DEF M!Next, M!Consumer
  <2>6. QED
    BY <1>7, <2>4, <2>5
<1>8. QED
  BY <1>4, <1>5, <1>6, <1>7

\* It resets the block it has left: no reader can be in it.
LEMMA RecycleResets ==
    ASSUME SingleInv, NEW c \in Consumers, RecycleSingle(c)
    PROVE  M!ResetsBlock(c)
<1>1. BatchInv /\ c = Receiver /\ \A d \in Consumers : d = c
  BY OneConsumer DEF SingleInv
<1>2. /\ cpc \in [Consumers -> BatchPCs \cup {"idle"} \cup FinishingPCs]
      /\ cblk \in [Consumers -> Blocks \cup {Null}]
      /\ marks = [b \in Blocks |-> {}]
  BY <1>1 DEF BatchInv
<1>3. /\ cpc[c] = "reset" /\ cpc'[c] = "recycle"
      /\ start' = [start EXCEPT ![cblk[c]] = POOLED]
      /\ UNCHANGED <<indexVars, tailBlock, headVars, next, prev, marks, slotVars,
                     poolVars, prodVars, cpos, cblk, cval, ccount>>
  BY <1>2 DEF RecycleSingle
<1>4. /\ UnreadFrom' = UnreadFrom /\ SharedCpc[c] = "readers"
      /\ SharedCpc' = [SharedCpc EXCEPT ![c] = "recycle"] /\ SharedCblk[c] = cblk[c]
      /\ UNCHANGED <<SharedCpos, SharedCblk, SharedCval, SharedCcount>>
  BY <1>1, <1>3 DEF UnreadFrom, BatchPCs, SharedCpc, SharedPC, SharedCpos, SharedCblk,
     SharedCval, SharedCcount, LeavingPCs
<1>5. M!NoReaderIn(SharedCblk[c])
  BY <1>1, <1>4 DEF M!NoReaderIn
<1>6. marks' = [marks EXCEPT ![cblk[c]] = {}]
  BY <1>2, <1>3
<1>7. QED
  BY <1>3, <1>4, <1>5, <1>6, SameWords DEF M!ResetsBlock

\* The claims, blocks and places of the two views.
LEMMA ConsumerKeepsViews ==
    ASSUME SingleInv, NEW c \in Consumers, SingleConsumer(c)
    PROVE  I!IndexInv' /\ M!BlockInv' /\ M!KeepInv'
<1>1. M!IndexInv /\ M!MpmcInv /\ M!BlockInv /\ M!KeepInv /\ I!IndexInv /\ BatchInv
  BY SharedInv DEF SingleInv
<1>2. I!IndexInv'
  <2>1. UNCHANGED <<indexVars, prodVars>>
    BY DEF SingleConsumer, Start, ReturnNothing, ReadValue, CheckMore, Release,
       MoveHeadBlock, MoveHeadIndex, RecycleSingle, Recycle, RecycleFail, RecycleSlow
  <2>2. head' \in Nat /\ head <= head'
    <3>1. /\ head \in Nat /\ cpos[c] \in Nat /\ ccount[c] \in Nat
          /\ cpc[c] \in BatchPCs => cpos[c] = head
      BY <1>1, UnreadPosition
    <3>2. CASE Release(c) \/ MoveHeadIndex(c)
      BY <3>1, <3>2 DEF Release, MoveHeadIndex, BatchPCs
    <3>3. CASE ~(Release(c) \/ MoveHeadIndex(c))
      BY <3>1, <3>3 DEF SingleConsumer, Start, ReturnNothing, ReadValue, CheckMore,
         MoveHeadBlock, RecycleSingle, Recycle, RecycleFail, RecycleSlow
    <3>4. QED
      BY <3>2, <3>3
  <2>3. UNCHANGED <<IdleCpc, IdleCpos, SharedCcount>>
    BY DEF IdleCpc, IdleCpos, SharedCcount
  <2>4. I!IndexTypeOK'
    BY <1>1, <2>1, <2>2, <2>3 DEF I!IndexInv, I!IndexTypeOK
  <2>5. I!ModeInv' /\ I!ClaimInv'
    <3>1. UNCHANGED I!producerIndices
      BY <2>1 DEF I!producerIndices
    <3>2. QED
      BY <1>1, <3>1, Assumptions, I!ClaimInvFrame DEF I!IndexInv
  <2>6. I!TakeInv'
    BY <2>2 DEF I!TakeInv, I!Moving, I!TakenPCs, IdleCpc, IdleCpos
  <2>7. I!CapInv'
    BY <1>1, <2>1, <2>2, Assumptions, I!CapInvFrame DEF I!IndexInv
  <2>8. QED
    BY <2>4, <2>5, <2>6, <2>7 DEF I!IndexInv
<1>3. CASE Start(c) \/ ReturnNothing(c) \/ CheckMore(c) \/ Release(c)
  <2>1. [M!Next]_M!vars
    BY <1>3, LooksStutter
  <2>2. QED
    BY <1>1, <1>2, <2>1, Assumptions, M!NextKeepsBlocks, M!NextKeepsAll
<1>4. CASE ReadValue(c)
  BY <1>1, <1>2, <1>4, ReadTakesAtOnce, Assumptions, M!TakeAtOnceKeeps, M!TakeAtOnceKeepsAll
<1>5. CASE RecycleSingle(c)
  BY <1>1, <1>2, <1>5, RecycleResets, Assumptions, M!ResetFrameKeeps, M!ResetFrameKeepsAll
<1>6. CASE \/ MoveHeadBlock(c) \/ MoveHeadIndex(c)
           \/ (Recycle(c) \/ RecycleFail(c) \/ RecycleSlow(c)) /\ UNCHANGED batchVars
  <2>1. [M!Next]_M!vars
    BY <1>6, LeavingIsShared
  <2>2. QED
    BY <1>1, <1>2, <2>1, Assumptions, M!NextKeepsBlocks, M!NextKeepsAll
<1>7. QED
  BY <1>3, <1>4, <1>5, <1>6 DEF SingleConsumer

\* How far the batch has come.
LEMMA ConsumerKeepsBatch ==
    ASSUME SingleInv, NEW c \in Consumers, SingleConsumer(c)
    PROVE  BatchInv'
<1>1. BatchInv /\ c = Receiver /\ \A d \in Consumers : d = c
  BY OneConsumer DEF SingleInv
<1>2. /\ cpc \in [Consumers -> BatchPCs \cup {"idle"} \cup FinishingPCs]
      /\ cpos \in [Consumers -> Nat] /\ ccount \in [Consumers -> Nat] /\ head \in Nat
      /\ cmax \in Nat /\ cblk \in [Consumers -> Blocks \cup {Null}]
      /\ cval \in [Consumers -> Nat \cup {NoValue}]
  BY <1>1 DEF BatchInv
<1>3. headBlock \in Blocks /\ BLOCK_CAP \in Nat /\ BLOCK_CAP < LAP /\ LAP \in Nat
      /\ \A i \in Nat : Offset(i) \in 0..(LAP - 1)
  BY UnreadBlock, OffsetsAndLaps, LapAssumption DEF BLOCK_CAP
<1>4. UNCHANGED <<ppc, marks, state>> /\ retired' = retired
  BY DEF SingleConsumer, Start, ReturnNothing, ReadValue, CheckMore, Release,
     MoveHeadBlock, MoveHeadIndex, RecycleSingle, Recycle, RecycleFail, RecycleSlow
<1>5. retired' = {} /\ (\A p \in Producers : ppc'[p] # "reset")
      /\ marks' = [b \in Blocks |-> {}]
  BY <1>1, <1>4 DEF BatchInv
<1>6. CASE ReturnNothing(c)
  BY <1>1, <1>6 DEF BatchInv, ReturnNothing
<1>7. CASE Start(c)
  <2>1. PICK limit \in 1..BLOCK_CAP :
          /\ CStep(c, "idle", "read")
          /\ state[headBlock][Offset(head)] = WrittenTag(Lap(head))
          /\ limit <= BLOCK_CAP - Offset(head)
          /\ cmax' = limit
          /\ cpos' = [cpos EXCEPT ![c] = head]
          /\ cblk' = [cblk EXCEPT ![c] = headBlock]
          /\ UNCHANGED <<cval, ccount, received, readFrame>>
    BY <1>7 DEF Start
  <2>2. /\ cpc[c] = "idle" /\ cpc'[c] = "read" /\ cpos'[c] = head /\ cblk'[c] = headBlock
        /\ ccount'[c] = 0 /\ cmax' = limit /\ cmax' \in 1..BLOCK_CAP
        /\ Offset(head) + cmax' <= BLOCK_CAP
        /\ UNCHANGED <<head, headBlock, state, cval>>
    BY <1>1, <1>2, <1>3, <2>1 DEF BatchInv
  <2>3. cpos'[c] + ccount'[c] = head
    BY <1>2, <2>2
  <2>4. /\ cpc' \in [Consumers -> BatchPCs \cup {"idle"} \cup FinishingPCs]
        /\ cpos' \in [Consumers -> Nat] /\ ccount' \in [Consumers -> Nat]
        /\ cblk' \in [Consumers -> Blocks \cup {Null}]
    BY <1>2, <1>3, <2>1 DEF BatchPCs
  <2>5. QED
    BY <1>1, <1>2, <1>3, <1>5, <2>1, <2>2, <2>3, <2>4 DEF BatchInv, BatchPCs, LeavingPCs
<1>8. CASE CheckMore(c)
  <2>1. /\ cpc[c] = "more"
        /\ cpc' = [cpc EXCEPT ![c] =
             IF state[cblk[c]][Offset(cpos[c] + ccount[c])] = WrittenTag(Lap(cpos[c]))
             THEN "read" ELSE "release"]
        /\ UNCHANGED <<head, headBlock, cmax, cpos, cblk, cval, ccount>>
    BY <1>8 DEF CheckMore
  <2>2. ~IsSentinel(cpos[c] + ccount[c])
    BY <1>1, <2>1, BatchPlace DEF BatchPCs
  <2>3. QED
    BY <1>1, <1>2, <1>4, <1>5, <2>1, <2>2 DEF BatchInv, BatchPCs, LeavingPCs
<1>9. CASE ReadValue(c)
  <2>1. /\ cpc[c] = "read" /\ cpc'[c] \in {"more", "next", "release"}
        /\ cpc' = [cpc EXCEPT ![c] = cpc'[c]]
        /\ ccount' = [ccount EXCEPT ![c] = ccount[c] + 1]
        /\ cval' = [cval EXCEPT ![c] = UnreadFrom]
        /\ UNCHANGED <<head, headBlock, cmax, cpos, cblk>>
        /\ cpc'[c] = "next" <=> IsLastSlot(UnreadFrom)
        /\ cpc'[c] = "more" => ccount[c] + 1 < cmax
        /\ ~IsSentinel(UnreadFrom)
    <3>1. /\ cval'[c] = UnreadFrom /\ cpc'[c] \in {"more", "next", "release"}
          /\ cpc'[c] = "next" <=> IsLastSlot(UnreadFrom)
          /\ cpc'[c] = "more" => ccount[c] + 1 < cmax
          /\ ~IsSentinel(UnreadFrom)
      BY <1>9, ReadTakesAtOnce
    <3>2. QED
      BY <1>2, <1>9, <3>1 DEF ReadValue
  <2>2. /\ UnreadFrom \in Nat /\ UnreadFrom = cpos[c] + ccount[c] /\ ccount[c] < cmax
        /\ cpos[c] = head /\ cblk[c] = headBlock
        /\ Offset(cpos[c]) + cmax <= BLOCK_CAP /\ cmax <= BLOCK_CAP
    BY <1>1, <2>1, BatchPlace DEF BatchInv, BatchPCs
  <2>3. /\ cpos'[c] + ccount'[c] = UnreadFrom + 1
        /\ cpos'[c] + ccount'[c] - 1 = UnreadFrom
        /\ ccount'[c] \in Nat /\ ccount'[c] # 0 /\ ccount'[c] <= cmax
        /\ ccount'[c] <= BLOCK_CAP
        /\ cpc'[c] = "more" => ccount'[c] < cmax
        /\ cpos'[c] = cpos[c] /\ cblk'[c] = cblk[c]
    BY <1>2, <1>3, <2>1, <2>2
  <2>4. cpc'[c] # "next" => ~IsSentinel(UnreadFrom + 1)
    BY <2>1, <2>2, OffsetsAndLaps
  <2>5. /\ cpc' \in [Consumers -> BatchPCs \cup {"idle"} \cup FinishingPCs]
        /\ cpos' \in [Consumers -> Nat] /\ ccount' \in [Consumers -> Nat]
        /\ cblk' \in [Consumers -> Blocks \cup {Null}]
        /\ cval' \in [Consumers -> Nat \cup {NoValue}]
    BY <1>2, <2>1, <2>2 DEF BatchPCs
  <2>6. QED
    BY <1>1, <1>2, <1>5, <2>1, <2>2, <2>3, <2>4, <2>5 DEF BatchInv, BatchPCs, LeavingPCs
<1>10. CASE Release(c)
  <2>1. /\ cpc[c] = "release" /\ cpc' = [cpc EXCEPT ![c] = "idle"]
        /\ head' = cpos[c] + ccount[c] /\ cmax' = 0 /\ ForgetLocals(c)
        /\ UNCHANGED headBlock
    BY <1>10 DEF Release
  <2>2. ~IsSentinel(head') /\ head' \in Nat
    BY <1>1, <1>2, <2>1 DEF BatchInv
  <2>3. QED
    BY <1>1, <1>2, <1>3, <1>5, <2>1, <2>2 DEF BatchInv, BatchPCs, LeavingPCs
<1>11. CASE MoveHeadBlock(c)
  <2>1. /\ cpc[c] = "next" /\ cpc' = [cpc EXCEPT ![c] = "advance"]
        /\ UNCHANGED <<head, cpos, cblk, cval, ccount, batchVars>>
    BY <1>11 DEF MoveHeadBlock
  <2>2. QED
    BY <1>1, <1>2, <1>4, <1>5, <2>1 DEF BatchInv, BatchPCs, LeavingPCs
<1>12. CASE MoveHeadIndex(c)
  <2>1. /\ cpc[c] = "advance" /\ cpc' = [cpc EXCEPT ![c] = "reset"]
        /\ head' = cpos[c] + ccount[c] + 1 /\ cmax' = 0
        /\ UNCHANGED <<headBlock, cpos, cblk, cval, ccount>>
    BY <1>12 DEF MoveHeadIndex
  <2>2. /\ ccount[c] # 0 /\ IsLastSlot(cpos[c] + ccount[c] - 1)
        /\ cpos[c] + ccount[c] - 1 \in Nat
    BY <1>1, <1>2, <2>1 DEF BatchInv, BatchPCs, LeavingPCs
  <2>3. head' = (cpos[c] + ccount[c] - 1) + 2 /\ head' \in Nat
    BY <1>2, <2>1, <2>2
  <2>4. ~IsSentinel(head')
    BY <2>2, <2>3, SentinelFollowsLastSlot
  <2>5. QED
    BY <1>1, <1>2, <1>3, <1>5, <2>1, <2>2, <2>3, <2>4
       DEF BatchInv, BatchPCs, LeavingPCs, FinishingPCs
<1>13. CASE RecycleSingle(c) \/ (RecycleFail(c) /\ UNCHANGED batchVars)
  <2>1. /\ cpc[c] \in {"reset", "recycle"}
        /\ cpc' = [cpc EXCEPT ![c] = cpc'[c]] /\ cpc'[c] \in {"recycle", "recycle_slow"}
        /\ UNCHANGED <<head, headBlock, cpos, cblk, cval, ccount, cmax>>
    BY <1>2, <1>13 DEF RecycleSingle, RecycleFail
  <2>2. QED
    BY <1>1, <1>2, <1>4, <1>5, <2>1 DEF BatchInv, BatchPCs, LeavingPCs, FinishingPCs
<1>14. CASE (Recycle(c) \/ RecycleSlow(c)) /\ UNCHANGED batchVars
  <2>1. /\ cpc[c] \in {"recycle", "recycle_slow"} /\ cpc' = [cpc EXCEPT ![c] = "idle"]
        /\ UNCHANGED <<head, headBlock, cmax>> /\ ForgetLocals(c)
    BY <1>14 DEF Recycle, RecycleSlow
  <2>2. QED
    BY <1>1, <1>2, <1>3, <1>5, <2>1 DEF BatchInv, BatchPCs, LeavingPCs
<1>15. QED
  BY <1>6, <1>7, <1>8, <1>9, <1>10, <1>11, <1>12, <1>13, <1>14 DEF SingleConsumer

\* What lies before a position is a sequence, ...
LEMMA PrefixIsSeq ==
    ASSUME NEW pos \in Nat
    PROVE  /\ PositionsBetween(0, pos) \in Seq(Nat)
           /\ Len(PositionsBetween(0, pos)) = ValuesBelow(pos) /\ ValuesBelow(pos) \in Nat
           /\ \A i \in 1..ValuesBelow(pos) : PositionsBetween(0, pos)[i] = PositionOf(i - 1)
<1> DEFINE n == ValuesBelow(pos)
<1>1. ValuesBelow(0) = 0 /\ n \in Nat
  BY PlaceOfPosition, LapAssumption DEF ValuesBelow, Lap
<1>2. PositionsBetween(0, pos) = [i \in 1..n |-> PositionOf(i - 1)]
  BY <1>1 DEF PositionsBetween
<1>3. \A i \in 1..n : PositionOf(i - 1) \in Nat
  BY <1>1, PositionOfPlace
<1> HIDE DEF n
<1>4. PositionsBetween(0, pos) \in [1..n -> Nat]
  BY <1>2, <1>3
<1>5. PositionsBetween(0, pos) \in Seq(Nat) /\ Len(PositionsBetween(0, pos)) = n
  BY <1>1, <1>4
<1>6. QED
  BY <1>1, <1>2, <1>5 DEF n

\* ... and grows when a value position is passed.
LEMMA PrefixGrows ==
    ASSUME NEW pos \in Nat
    PROVE  /\ ~IsSentinel(pos) =>
                PositionsBetween(0, pos + 1) = Append(PositionsBetween(0, pos), pos)
           /\ IsSentinel(pos) => PositionsBetween(0, pos + 1) = PositionsBetween(0, pos)
<1> DEFINE n == ValuesBelow(pos)
           s == PositionsBetween(0, pos)
           t == PositionsBetween(0, pos + 1)
           m == ValuesBelow(pos + 1)
<1>1. /\ s \in Seq(Nat) /\ Len(s) = n /\ n \in Nat
      /\ \A i \in 1..n : s[i] = PositionOf(i - 1)
  BY PrefixIsSeq
<1>2. /\ t \in Seq(Nat) /\ Len(t) = m /\ m \in Nat
      /\ \A i \in 1..m : t[i] = PositionOf(i - 1)
  <2>1. pos + 1 \in Nat
    OBVIOUS
  <2>2. QED
    BY <2>1, PrefixIsSeq
<1>3. /\ ~IsSentinel(pos) => m = n + 1 /\ PositionOf(n) = pos
      /\ IsSentinel(pos) => m = n
  BY PlaceOfPosition
<1> HIDE DEF n, s, t, m
<1>4. ASSUME ~IsSentinel(pos) PROVE t = Append(s, pos)
  <2> DEFINE u == Append(s, pos)
  <2>1. /\ u \in Seq(Nat) /\ Len(u) = n + 1 /\ u[n + 1] = pos
        /\ \A i \in 1..n : u[i] = s[i]
    BY <1>1, AppendProperties
  <2> HIDE DEF u
  <2>2. ASSUME NEW i \in 1..(n + 1) PROVE t[i] = u[i]
    <3>1. CASE i = n + 1
      BY <1>1, <1>2, <1>3, <1>4, <2>1, <3>1
    <3>2. CASE i # n + 1
      BY <1>1, <1>2, <1>3, <1>4, <2>1, <3>2
    <3>3. QED
      BY <3>1, <3>2
  <2>3. t = u
    BY <1>2, <1>3, <1>4, <2>1, <2>2, SeqEqual
  <2>4. QED
    BY <2>3 DEF u
<1>5. ASSUME IsSentinel(pos) PROVE t = s
  BY <1>1, <1>2, <1>3, <1>5, SeqEqual
<1>6. QED
  BY <1>4, <1>5 DEF s, t

\* What has been moved out.
LEMMA ConsumerKeepsReceived ==
    ASSUME SingleInv, NEW c \in Consumers, SingleConsumer(c)
    PROVE  ReceivedInv'
<1>1. BatchInv /\ received = PositionsBetween(0, UnreadFrom) /\ UnreadFrom \in Nat
      /\ c = Receiver /\ \A d \in Consumers : d = c
  BY OneConsumer, UnreadPosition DEF SingleInv, ReceivedInv
<1>2. CASE ReadValue(c)
  <2>1. /\ UnreadFrom' = UnreadFrom + 1 /\ received' = Append(received, UnreadFrom)
        /\ ~IsSentinel(UnreadFrom)
    BY <1>2, ReadTakesAtOnce
  <2>2. received' = PositionsBetween(0, UnreadFrom + 1)
    BY <1>1, <2>1, PrefixGrows
  <2>3. QED
    BY <2>1, <2>2 DEF ReceivedInv
<1>3. CASE Start(c) \/ ReturnNothing(c) \/ CheckMore(c) \/ Release(c)
  <2>1. UnreadFrom' = UnreadFrom
    BY <1>3, LooksStutter
  <2>2. received' = received
    BY <1>3 DEF Start, ReturnNothing, CheckMore, Release
  <2>3. QED
    BY <1>1, <2>1, <2>2 DEF ReceivedInv
<1>4. CASE MoveHeadIndex(c)
  <2>1. /\ cpc \in [Consumers -> BatchPCs \cup {"idle"} \cup FinishingPCs]
        /\ cpos[c] \in Nat /\ ccount[c] \in Nat /\ cpc[c] = "advance"
        /\ cpc' = [cpc EXCEPT ![c] = "reset"] /\ head' = cpos[c] + ccount[c] + 1
        /\ received' = received
        /\ ccount[c] # 0 /\ IsLastSlot(cpos[c] + ccount[c] - 1)
    BY <1>1, <1>4 DEF MoveHeadIndex, BatchInv, LeavingPCs
  <2>2. UnreadFrom = cpos[c] + ccount[c] /\ UnreadFrom' = head'
    BY <1>1, <2>1 DEF UnreadFrom, BatchPCs
  <2>3. UnreadFrom' = UnreadFrom + 1 /\ UnreadFrom - 1 \in Nat /\ IsLastSlot(UnreadFrom - 1)
    BY <2>1, <2>2
  <2>4. IsSentinel((UnreadFrom - 1) + 1)
    BY <2>3, SentinelFollowsLastSlot
  <2>5. IsSentinel(UnreadFrom)
    BY <1>1, <2>4
  <2>6. received' = PositionsBetween(0, UnreadFrom + 1)
    BY <1>1, <2>1, <2>5, PrefixGrows
  <2>7. QED
    BY <2>3, <2>6 DEF ReceivedInv
<1>5. CASE \/ MoveHeadBlock(c) \/ RecycleSingle(c)
           \/ (Recycle(c) \/ RecycleFail(c) \/ RecycleSlow(c)) /\ UNCHANGED batchVars
  <2>1. /\ cpc \in [Consumers -> BatchPCs \cup {"idle"} \cup FinishingPCs]
        /\ cpos \in [Consumers -> Nat] /\ ccount \in [Consumers -> Nat]
    BY <1>1 DEF BatchInv
  <2>2. /\ head' = head /\ received' = received
        /\ cpc[c] \in BatchPCs <=> cpc'[c] \in BatchPCs
        /\ cpc[c] \in BatchPCs => cpos' = cpos /\ ccount' = ccount
    BY <1>5, <2>1 DEF MoveHeadBlock, RecycleSingle, Recycle, RecycleFail, RecycleSlow, BatchPCs
  <2>3. UnreadFrom' = UnreadFrom
    BY <1>1, <2>2 DEF UnreadFrom
  <2>4. QED
    BY <1>1, <2>2, <2>3 DEF ReceivedInv
<1>6. QED
  BY <1>2, <1>3, <1>4, <1>5 DEF SingleConsumer

----------------------------------------------------------------------------
(* The invariant holds.                                                     *)

LEMMA InitEstablishesSingle == SingleInit => SingleInv
<1> SUFFICES ASSUME SingleInit PROVE SingleInv
  OBVIOUS
<1>1. /\ Init /\ cmax = 0 /\ received = <<>>
      /\ cpc = [c \in Consumers |-> "idle"] /\ cpos = [c \in Consumers |-> 0]
      /\ ccount = [c \in Consumers |-> 0] /\ cblk = [c \in Consumers |-> Null]
      /\ cval = [c \in Consumers |-> NoValue] /\ head = 0 /\ retired = {}
      /\ marks = [b \in Blocks |-> {}] /\ ppc = [p \in Producers |-> "idle"]
  BY DEF SingleInit, Init
<1>2. ~IsSentinel(0) /\ ValuesBelow(0) = 0
  BY LapAssumption DEF IsSentinel, Offset, BLOCK_CAP, ValuesBelow, Lap
<1>3. BatchInv
  <2>1. BLOCK_CAP \in Nat
    BY LapAssumption DEF BLOCK_CAP
  <2>2. QED
    BY <1>1, <1>2, <2>1 DEF BatchInv, BatchPCs, LeavingPCs
<1>4. UnreadFrom = 0
  BY <1>1, OneConsumer DEF UnreadFrom, BatchPCs
<1>5. ReceivedInv
  <2>1. PositionsBetween(0, 0) \in Seq(Nat) /\ Len(PositionsBetween(0, 0)) = 0
    BY <1>2, PrefixIsSeq
  <2>2. PositionsBetween(0, 0) = <<>>
    BY <2>1, EmptySeq
  <2>3. QED
    BY <1>1, <1>4, <2>2 DEF ReceivedInv
<1>6. /\ SharedCpc = [c \in Consumers |-> "idle"] /\ SharedCpos = [c \in Consumers |-> 0]
      /\ SharedCblk = [c \in Consumers |-> Null]
      /\ SharedCval = [c \in Consumers |-> NoValue] /\ SharedCcount = [c \in Consumers |-> 0]
  BY <1>1 DEF SharedCpc, SharedPC, SharedCpos, SharedCblk, SharedCval, SharedCcount, LeavingPCs
<1>7. M!Init
  BY <1>1, <1>4, <1>6, SameWords DEF Init, M!Init
<1>8. I!Init
  BY <1>1, <1>6, SameWords DEF Init, I!Init, IdleCpc, IdleCpos, IdleCblk, I!NoValue, NoValue,
     I!Slots, Slots, I!BLOCK_CAP, BLOCK_CAP, I!Blocks, Blocks
<1>9. I!IndexInv /\ M!BlockInv /\ M!KeepInv
  BY <1>7, <1>8, Assumptions, I!InitEstablishes, M!InitEstablishesBlocks, M!InitEstablishesKeep
<1>10. QED
  BY <1>3, <1>5, <1>9 DEF SingleInv

LEMMA NextKeepsSingle == SingleInv /\ [Next]_singleVars => SingleInv'
<1> SUFFICES ASSUME SingleInv, [Next]_singleVars PROVE SingleInv'
  OBVIOUS
<1>1. ASSUME NEW p \in Producers, Producer(p), UNCHANGED batchVars PROVE SingleInv'
  BY <1>1, ProducersKeepViews, ProducersKeepBatch DEF SingleInv
<1>2. ASSUME NEW c \in Consumers, SingleConsumer(c) PROVE SingleInv'
  BY <1>2, ConsumerKeepsViews, ConsumerKeepsBatch, ConsumerKeepsReceived DEF SingleInv
<1>3. CASE UNCHANGED singleVars
  <2>1. /\ UNCHANGED <<head, cpc, cpos, cblk, cval, ccount, headBlock, cmax, received>>
        /\ UNCHANGED <<ppc, state, marks, retired>>
    BY <1>3
  <2>2. UNCHANGED <<UnreadFrom, SharedCpc, SharedCpos, SharedCblk, SharedCval, SharedCcount,
                    IdleCpc, IdleCpos, IdleCblk>>
    BY <2>1, ConsumerStays
  <2>3. [M!Next]_M!vars /\ [I!Next]_I!vars
    BY <1>3, <2>2
  <2>4. M!IndexInv /\ M!MpmcInv /\ M!BlockInv /\ M!KeepInv /\ I!IndexInv
    BY SharedInv DEF SingleInv
  <2>5. I!IndexInv' /\ M!BlockInv' /\ M!KeepInv'
    BY <2>3, <2>4, Assumptions, I!NextKeeps, M!NextKeepsBlocks, M!NextKeepsAll
  <2>6. BatchInv' /\ ReceivedInv'
    BY <2>1, <2>2 DEF SingleInv, BatchInv, ReceivedInv
  <2>7. QED
    BY <2>5, <2>6 DEF SingleInv
<1>4. QED
  BY <1>1, <1>2, <1>3 DEF Next

\* The blocks, the claims and the batch of the exclusive-consumer queue.
THEOREM SingleInvariant == Spec => []SingleInv
BY InitEstablishesSingle, NextKeepsSingle, PTL DEF Spec

----------------------------------------------------------------------------
(* What follows from it.                                                    *)

\* Types of every word and local, and a batch stays in its block (queue.rs:927).
THEOREM SingleTypes == Spec => []TypeOK
<1>1. ASSUME SingleInv PROVE TypeOK
  <2>1. BatchInv /\ I!IndexInv /\ M!BlockInv /\ received = PositionsBetween(0, UnreadFrom)
    BY <1>1 DEF SingleInv, ReceivedInv
  <2>2. /\ tail \in Nat /\ cached \in Nat /\ contended \in 0..CONTENTION_WINDOW
        /\ ppc \in [Producers -> ProducerPCs]
        /\ ppos \in [Producers -> Nat] /\ phead \in [Producers -> Nat]
        /\ pfailed \in [Producers -> BOOLEAN]
    BY <2>1 DEF I!IndexInv, I!IndexTypeOK, I!ProducerPCs, ProducerPCs, I!ClaimedPCs,
       ClaimedPCs, I!FoundPCs, FoundPCs
  <2>3. received \in Seq(Nat)
    BY <2>1, UnreadPosition, PrefixIsSeq
  <2>4. BlockTypeOK
    BY <2>1, SameWords DEF M!BlockInv, M!BlockTypeOK, BlockTypeOK, BatchInv
  <2>5. /\ head \in Nat /\ cpc \in [Consumers -> BatchPCs \cup {"idle"} \cup FinishingPCs]
        /\ \A c \in Consumers : cpc[c] \in BatchPCs =>
             ccount[c] <= cmax /\ Offset(cpos[c]) + cmax <= BLOCK_CAP
    BY <2>1 DEF BatchInv
  <2>6. /\ cpos \in [Consumers -> Nat] /\ ccount \in [Consumers -> 0..BLOCK_CAP]
        /\ cmax \in 0..BLOCK_CAP
    <3>1. BLOCK_CAP \in Nat
      BY LapAssumption DEF BLOCK_CAP
    <3>2. QED
      BY <2>1, <3>1 DEF BatchInv
  <2>7. QED
    BY <2>2, <2>3, <2>4, <2>5, <2>6 DEF TypeOK
<1>2. QED
  BY <1>1, SingleInvariant, PTL

\* Between two receives the head rests on a value position, and head.block
\* serves it (queue.rs:866, debug_assert).
THEOREM HeadServed == Spec => []HeadServesItsBlock
<1>1. ASSUME SingleInv, NEW c \in Consumers, cpc[c] \notin BatchPCs
      PROVE  ~IsSentinel(head) /\ start[headBlock] = LapStart(head)
  <2>1. ~IsSentinel(head) /\ UnreadFrom = head /\ cpc[c] # "advance"
    BY <1>1, UnreadPosition DEF SingleInv, BatchInv, BatchPCs
  <2>2. QED
    BY <1>1, <2>1, UnreadBlock
<1>2. SingleInv => HeadServesItsBlock
  BY <1>1 DEF HeadServesItsBlock
<1>3. QED
  BY <1>2, SingleInvariant, PTL

\* At rest the two walks of Drop, from the head and from the first value that
\* is still there, are one.
LEMMA SameDrop ==
    ASSUME SingleInv, Quiescent
    PROVE  /\ UnreadFrom = head /\ M!Quiescent
           /\ \A i \in Nat : M!DropBlock[i] = DropBlock[i]
<1>1. /\ UnreadFrom = head /\ head \in Nat
      /\ \A p \in Producers : ppc[p] = "idle"
      /\ \A c \in Consumers : cpc[c] = "idle"
  BY UnreadPosition, OneConsumer DEF SingleInv, Quiescent, BatchPCs
<1>2. M!Quiescent
  BY <1>1 DEF M!Quiescent, SharedCpc, SharedPC, LeavingPCs
<1>3. \A i \in Nat : M!DropBlock[i] = IF i <= head THEN headBlock
                                      ELSE IF IsSentinel(i - 1) THEN next[M!DropBlock[i - 1]]
                                      ELSE M!DropBlock[i - 1]
  BY <1>1, Assumptions, M!DropBlockDef, SameWords
<1>4. \A i \in Nat : DropBlock[i] = IF i <= head THEN headBlock
                                    ELSE IF IsSentinel(i - 1) THEN next[DropBlock[i - 1]]
                                    ELSE DropBlock[i - 1]
  <2>1. I!DropBlock = DropBlock
    BY DEF I!DropBlock, DropBlock, I!IsSentinel, IsSentinel, I!Offset, Offset, I!BLOCK_CAP,
       BLOCK_CAP
  <2>2. QED
    BY <1>1, <2>1, Assumptions, I!DropBlockDef, SameWords
<1> DEFINE Same == {i \in Nat : M!DropBlock[i] = DropBlock[i]}
<1>5. 0 \in Same
  BY <1>1, <1>3, <1>4
<1>6. ASSUME NEW n \in Nat, n \in Same PROVE n + 1 \in Same
  BY <1>1, <1>3, <1>4, <1>6
<1>7. Nat \subseteq Same
  <2> HIDE DEF Same
  <2>1. QED
    BY <1>5, <1>6, CountUp
<1>8. QED
  BY <1>1, <1>2, <1>7

\* Every value is received once and in order, or destroyed by Drop, never both; and
\* between two receives, whatever the producers are doing, nothing has been moved out
\* that the head still covers (queue.rs:931-933, 1051-1065).
THEOREM ValuesOnce == Spec => []EachValueOnce
<1>1. ASSUME SingleInv, Quiescent
      PROVE  DropValues = ValuePositions(head, tail)
  <2>1. UnreadFrom = head /\ M!Quiescent /\ \A i \in Nat : M!DropBlock[i] = DropBlock[i]
    BY <1>1, SameDrop
  <2>2. head \in Nat /\ tail \in Nat /\ ValuePositions(head, tail) \subseteq Nat
    BY <1>1 DEF SingleInv, BatchInv, I!IndexInv, I!IndexTypeOK, ValuePositions
  <2>3. M!ValuePositions(UnreadFrom, tail) = ValuePositions(head, tail)
    BY <2>1, SameWords DEF M!ValuePositions, ValuePositions
  <2>4. ASSUME NEW pos \in ValuePositions(head, tail)
        PROVE  /\ state[DropBlock[pos]][Offset(pos)] = WrittenTag(Lap(pos))
               /\ value[DropBlock[pos]][Offset(pos)] = pos
    BY <1>1, <2>1, <2>2, <2>3, SharedInv, Assumptions, M!DropReadsItsValue, SameWords
  <2>5. DropValues = ValuePositions(head, tail)
    BY <2>4 DEF DropValues
  <2>6. QED
    BY <2>5
<1>2. ASSUME SingleInv, \A c \in Consumers : cpc[c] \notin BatchPCs
      PROVE  received = PositionsBetween(0, head)
  <2>1. UnreadFrom = head
    BY <1>2, OneConsumer DEF UnreadFrom
  <2>2. QED
    BY <1>2, <2>1 DEF SingleInv, ReceivedInv
<1>3. SingleInv => EachValueOnce
  BY <1>1, <1>2 DEF EachValueOnce
<1>4. QED
  BY <1>3, SingleInvariant, PTL

\* Every allocated block has one owner (queue.rs:349-352, 1015-1025).
THEOREM SingleBlockOwnership == Spec => []EveryBlockHasOneOwner
<1>1. ASSUME SingleInv PROVE EveryBlockHasOneOwner
  <2>1. M!EveryBlockHasOneOwner
    BY <1>1, SharedInv, Assumptions, M!EveryBlockIsOwned
  <2>2. M!Holders = Holders
    BY DEF M!Holders, Holders
  <2>3. \A b : M!ChainFrom(b) = ChainFrom(b)
    BY DEF M!ChainFrom, ChainFrom, M!Null, Null
  <2>4. \A c \in Consumers : /\ SharedCpc[c] \in M!FinishingPCs <=> cpc[c] \in FinishingPCs
                             /\ cpc[c] \in FinishingPCs => SharedCblk[c] = cblk[c]
    BY <1>1 DEF SingleInv, BatchInv, M!FinishingPCs, FinishingPCs, SharedCpc, SharedPC,
       SharedCblk, LeavingPCs
  <2>5. \A h \in Holders : M!Held(h) = Held(h)
    BY <2>3, <2>4, SameWords DEF M!Held, Held, Holders, M!Chain, Chain
  <2> DEFINE held == [h \in Holders |-> Held(h)]
             shared == [h \in M!Holders |-> M!Held(h)]
  <2>6. held = shared
    BY <2>2, <2>5
  <2>7. \A b \in 1..(fresh - 1) : Cardinality({h \in M!Holders : b \in shared[h]}) = 1
    <3>1. \A S : M!Cardinality(S) = Cardinality(S)
      BY DEF M!Cardinality, Cardinality
    <3>2. \A b \in 1..(fresh - 1) : M!Cardinality({h \in M!Holders : b \in shared[h]}) = 1
      BY <2>1 DEF M!EveryBlockHasOneOwner
    <3>3. QED
      BY <3>1, <3>2, Zenon
  <2> HIDE DEF held, shared
  <2>8. \A b \in 1..(fresh - 1) : Cardinality({h \in Holders : b \in held[h]}) = 1
    BY <2>2, <2>6, <2>7, Zenon
  <2>9. QED
    BY <2>8 DEF EveryBlockHasOneOwner, held
<1>2. QED
  BY <1>1, SingleInvariant, PTL

\* A bounded queue holds no more than its capacity, though the slots of a batch
\* are released together (queue.rs:632-675).
THEOREM SingleCapacity == Spec => []CapacityHeld
<1>1. SingleInv => CapacityHeld
  BY SameWords DEF SingleInv, I!IndexInv, I!CapInv, I!CapacityHeld, CapacityHeld,
     I!ItemsBetween, ItemsBetween, I!UNBOUNDED, UNBOUNDED
<1>2. QED
  BY <1>1, SingleInvariant, PTL

\* A producer that has found its block is alone in its slot (queue.rs:556-567).
THEOREM SingleSlotOwnership == Spec => []WritesOwnSlot
<1>1. ASSUME SingleInv, NEW p \in Producers, ppc[p] \in FoundPCs
      PROVE  /\ start[pblk[p]] = LapStart(ppos[p])
             /\ ~IsSentinel(ppos[p]) /\ ~Published(ppos[p])
             /\ \A q \in Producers \ {p} : ppc[q] \in ClaimedPCs => ppos[q] # ppos[p]
  <2>1. M!IndexInv /\ M!BlockInv
    BY <1>1, SharedInv
  <2>2. /\ ppc[p] \in ClaimedPCs /\ ppos[p] \in Nat /\ ~IsSentinel(ppos[p])
        /\ \A q \in Producers \ {p} : ppc[q] \in ClaimedPCs => ppos[q] # ppos[p]
    BY <1>1, <2>1, SameWords DEF M!IndexInv, M!IndexTypeOK, M!ClaimInv, ClaimedPCs
  <2>3. ~Published(ppos[p])
    BY <1>1, <2>1, <2>2, Assumptions, M!WrittenSlot, SameWords DEF Published
  <2>4. start[pblk[p]] = LapStart(ppos[p])
    BY <1>1, <2>1, SameWords DEF M!BlockInv, M!FindInv
  <2>5. QED
    BY <2>2, <2>3, <2>4
<1>2. SingleInv => WritesOwnSlot
  BY <1>1 DEF WritesOwnSlot
<1>3. QED
  BY <1>2, SingleInvariant, PTL

\* A producer that walks back finds the predecessor, one lap earlier
\* (queue.rs:741-747, debug_assert).
THEOREM SingleWalk == Spec => []WalkStaysOnChain
<1>1. ASSUME SingleInv PROVE WalkStaysOnChain
  <2>1. M!WalkStaysOnChain
    BY <1>1, SharedInv, Assumptions, M!WalkFindsPrev
  <2>2. QED
    BY <2>1, SameWords DEF M!WalkStaysOnChain, WalkStaysOnChain
<1>2. QED
  BY <1>1, SingleInvariant, PTL

----------------------------------------------------------------------------
(* Refinement: the items are those of M, what is taken is the batch's.      *)

\* The places that have not been moved out are M's items.
LEMMA SameItems ==
    /\ UnreadItems = M!FifoItems /\ SingleSending = M!FifoSending
    /\ UnreadItems' = M!FifoItems' /\ SingleSending' = M!FifoSending'
    /\ \A pos : M!Published(pos) = Published(pos)
<1>1. \A i, j : M!PositionsBetween(i, j) = PositionsBetween(i, j)
  BY DEF M!PositionsBetween, PositionsBetween, M!PositionOf, PositionOf, M!ValuesBelow,
     ValuesBelow, M!Lap, Lap, M!BLOCK_CAP, BLOCK_CAP
<1>2. \A pos : M!Published(pos) = Published(pos)
  BY SameWords DEF M!Published, Published
<1>3. UnreadItems = M!FifoItems
  BY <1>1, <1>2 DEF UnreadItems, M!FifoItems
<1>4. UnreadItems' = M!FifoItems'
  BY <1>1 DEF UnreadItems, M!FifoItems, M!Published, Published, M!Blocks, Blocks, M!LapStart,
     LapStart, M!Lap, Lap, M!Offset, Offset, M!WrittenTag, WrittenTag
<1>5. SingleSending = M!FifoSending /\ SingleSending' = M!FifoSending'
  BY SameWords DEF SingleSending, M!FifoSending
<1>6. QED
  BY <1>2, <1>3, <1>4, <1>5

\* A producer's claim takes the last place, its tag makes the place receivable,
\* and nothing else it does is seen.
LEMMA ProducerRefines ==
    ASSUME SingleInv, NEW p \in Producers, Producer(p)
    PROVE  [Abstract!Next]_(Abstract!vars)
<1>1. M!IndexInv /\ M!MpmcInv /\ I!IndexInv
  BY SharedInv DEF SingleInv
<1>2. /\ UNCHANGED <<head, headBlock, cpc, cpos, cblk, cval, ccount>>
      /\ UNCHANGED <<UnreadFrom, SharedCpc, SharedCpos, SharedCblk, SharedCval, SharedCcount>>
  BY ProducersLeaveConsumer, ConsumerStays
<1>3. SingleTaken' = SingleTaken
  BY <1>2 DEF SingleTaken
<1>4. CASE ClaimLoop(p)
  <2>1. CASE ppc'[p] \in ClaimedPCs
    <3>1. /\ M!FifoSending[p] = NoValue /\ M!FifoSending'[p] = tail
          /\ M!FifoSending' = [M!FifoSending EXCEPT ![p] = tail]
          /\ M!FifoItems' = Append(M!FifoItems, [val |-> tail, ready |-> FALSE])
          /\ Len(M!FifoItems) = ItemsBetween(UnreadFrom, tail)
      <4>1. M!ItemsBetween(UnreadFrom, tail) = ItemsBetween(UnreadFrom, tail)
        BY DEF M!ItemsBetween, ItemsBetween, M!Lap, Lap
      <4>2. QED
        BY <1>1, <1>4, <2>1, <4>1, LoopsInM, Assumptions, M!ClaimAppends, SameWords
    <3>2. Capacity # UNBOUNDED => ItemsBetween(UnreadFrom, tail) < Capacity
      <4>1. /\ UnreadFrom \in Nat /\ head \in Nat /\ head <= UnreadFrom /\ tail \in Nat
            /\ Capacity # UNBOUNDED => Capacity \in Nat
        BY <1>1, UnreadPosition, CapacityAssumption DEF SingleInv, I!IndexInv, I!IndexTypeOK
      <4>2. /\ ItemsBetween(UnreadFrom, tail) <= ItemsBetween(head, tail)
            /\ ItemsBetween(UnreadFrom, tail) \in Nat /\ ItemsBetween(head, tail) \in Nat
        BY <4>1, OlderHeadCountsMore, ItemsBetweenIsNat
      <4>3. Capacity # UNBOUNDED => ItemsBetween(head, tail) < Capacity
        BY <1>4, <2>1, LoopsInM
      <4>4. QED
        BY <4>1, <4>2, <4>3
    <3>3. tail \in Nat
      BY <1>1 DEF I!IndexInv, I!IndexTypeOK
    <3>4. Abstract!Claim(p, SingleSending'[p])
      BY <1>3, <3>1, <3>2, <3>3, SameItems DEF Abstract!Claim
    <3>5. QED
      BY <3>4 DEF Abstract!Next
  <2>2. CASE ppc'[p] \notin ClaimedPCs
    <3>1. UNCHANGED <<M!FifoItems, M!FifoSending>>
      BY <1>1, <1>4, <2>2, LoopsInM, Assumptions, M!LoopFrameKeepsItems, SameWords
    <3>2. QED
      BY <1>3, <3>1, SameItems DEF Abstract!vars
  <2>3. QED
    BY <2>1, <2>2
<1>5. CASE OwnsPosition(p)
  <2>1. M!Owner(p) \/ M!Publish(p)
    BY <1>5, OwnersAreShared
  <2>2. CASE M!Owner(p)
    <3>1. UNCHANGED <<M!FifoItems, M!FifoSending>>
      BY <1>1, <2>2, Assumptions, M!OwnerStutters
    <3>2. QED
      BY <1>3, <3>1, SameItems DEF Abstract!vars
  <2>3. CASE M!Publish(p)
    <3>1. /\ M!FifoSending[p] = ppos[p] /\ ppos[p] # NoValue
          /\ M!FifoSending' = [M!FifoSending EXCEPT ![p] = NoValue]
          /\ M!FifoItems' = [i \in DOMAIN M!FifoItems |->
                               IF M!FifoItems[i].val = M!FifoSending[p]
                               THEN [val |-> M!FifoSending[p], ready |-> TRUE]
                               ELSE M!FifoItems[i]]
      BY <1>1, <2>3, Assumptions, M!PublishReadies, SameWords
    <3>2. Abstract!Publish(p)
      BY <1>3, <3>1, SameItems DEF Abstract!Publish
    <3>3. QED
      BY <3>2 DEF Abstract!Next
  <2>4. QED
    BY <2>1, <2>2, <2>3
<1>6. QED
  BY <1>4, <1>5 DEF Producer, ClaimLoop, OwnsPosition

\* What was taken is returned, or there was nothing to return.
LEMMA TakenReturns ==
    ASSUME NEW c \in Consumers, UNCHANGED <<UnreadItems, SingleSending>>,
           \/ SingleTaken' = SingleTaken
           \/ SingleTaken' = [SingleTaken EXCEPT ![c] = NoValue]
    PROVE  [Abstract!Next]_(Abstract!vars)
<1>1. CASE SingleTaken' = SingleTaken
  BY <1>1 DEF Abstract!vars
<1>2. CASE SingleTaken' = [SingleTaken EXCEPT ![c] = NoValue] /\ SingleTaken[c] # NoValue
  BY <1>2 DEF Abstract!Return, Abstract!Next
<1>3. CASE SingleTaken' = [SingleTaken EXCEPT ![c] = NoValue] /\ SingleTaken[c] = NoValue
  <2>1. SingleTaken' = SingleTaken
    BY <1>3 DEF SingleTaken
  <2>2. QED
    BY <2>1 DEF Abstract!vars
<1>4. QED
  BY <1>1, <1>2, <1>3

\* The read of a value takes it; a batch returns it before it reads the next, or
\* when it ends.
LEMMA ConsumerRefines ==
    ASSUME SingleInv, NEW c \in Consumers, SingleConsumer(c)
    PROVE  [Abstract!Next]_(Abstract!vars)
<1>1. M!IndexInv /\ M!MpmcInv /\ BatchInv
  BY SharedInv DEF SingleInv
<1>2. /\ cpc \in [Consumers -> BatchPCs \cup {"idle"} \cup FinishingPCs]
      /\ cval \in [Consumers -> Nat \cup {NoValue}]
      /\ cpc[c] = "idle" => cval[c] = NoValue
      /\ \A d \in Consumers : d = c
  BY <1>1, OneConsumer DEF BatchInv
<1>3. UNCHANGED <<ppc, ppos, tail>>
  BY DEF SingleConsumer, Start, ReturnNothing, ReadValue, CheckMore, Release,
     MoveHeadBlock, MoveHeadIndex, RecycleSingle, Recycle, RecycleFail, RecycleSlow
<1>4. SingleSending' = SingleSending
  BY <1>3 DEF SingleSending
<1>5. CASE ReadValue(c)
  <2>1. /\ UnreadFrom' = UnreadFrom + 1 /\ ~IsSentinel(UnreadFrom) /\ UnreadFrom \in Nat
        /\ cval'[c] = UnreadFrom /\ cpc[c] = "read" /\ cpc'[c] # "read"
        /\ UNCHANGED <<start, state, tail>> /\ cblk[c] = headBlock
    BY <1>1, <1>5, ReadTakesAtOnce, UnreadPosition DEF ReadValue, BatchInv, BatchPCs
  <2>2. M!Published(UnreadFrom)
    <3>1. start[headBlock] = LapStart(UnreadFrom) /\ headBlock \in Blocks
      BY <2>1, UnreadBlock
    <3>2. state[headBlock][Offset(UnreadFrom)] = WrittenTag(Lap(UnreadFrom))
      BY <1>5, ReadTakesAtOnce, SameWords DEF M!TakesAtOnce
    <3>3. QED
      BY <3>1, <3>2, SameItems DEF Published
  <2>3. /\ M!FifoItems # <<>> /\ Head(M!FifoItems) = [val |-> UnreadFrom, ready |-> TRUE]
        /\ M!FifoItems' = Tail(M!FifoItems)
    BY <1>1, <2>1, <2>2, Assumptions, M!HeadTakesFirst, SameWords
  <2>4. SingleTaken[c] = NoValue /\ SingleTaken' = [SingleTaken EXCEPT ![c] = UnreadFrom]
    BY <1>2, <2>1 DEF SingleTaken
  <2>5. Head(UnreadItems).ready /\ Head(UnreadItems).val = UnreadFrom
    BY <2>3, SameItems
  <2>6. Abstract!Take(c)
    BY <1>4, <2>3, <2>4, <2>5, SameItems DEF Abstract!Take
  <2>7. QED
    BY <2>6 DEF Abstract!Next
<1>6. CASE Start(c) \/ ReturnNothing(c) \/ CheckMore(c) \/ Release(c)
  <2>1. UNCHANGED <<UnreadFrom, tail, start, state>>
    BY <1>6, LooksStutter
  <2>2. UnreadItems' = UnreadItems
    BY <2>1 DEF UnreadItems, PositionsBetween, Published
  <2>3. \/ SingleTaken' = SingleTaken
        \/ SingleTaken' = [SingleTaken EXCEPT ![c] = NoValue]
    BY <1>2, <1>6 DEF Start, ReturnNothing, CheckMore, Release, SingleTaken
  <2>4. QED
    BY <1>4, <2>2, <2>3, TakenReturns
<1>7. CASE RecycleSingle(c)
  <2>1. M!FifoItems' = M!FifoItems
    BY <1>1, <1>7, RecycleResets, Assumptions, M!ResetKeepsItems
  <2>2. SingleTaken' = SingleTaken
    BY <1>2, <1>7 DEF RecycleSingle, SingleTaken
  <2>3. QED
    BY <1>4, <2>1, <2>2, SameItems, TakenReturns
<1>8. CASE MoveHeadIndex(c)
  <2>1. /\ cpos[c] \in Nat /\ ccount[c] \in Nat /\ cpc[c] = "advance" /\ cpc'[c] = "reset"
        /\ head' = cpos[c] + ccount[c] + 1 /\ UNCHANGED <<start, state, tail, cval>>
        /\ IsLastSlot(cpos[c] + ccount[c] - 1) /\ ccount[c] # 0
    BY <1>1, <1>2, <1>8 DEF MoveHeadIndex, BatchInv, LeavingPCs
  <2>2. UnreadFrom = cpos[c] + ccount[c] /\ UnreadFrom \in Nat /\ UnreadFrom' = UnreadFrom + 1
    BY <1>1, <1>2, <2>1, UnreadPosition, OneConsumer DEF UnreadFrom, BatchPCs
  <2>3. IsSentinel(UnreadFrom)
    <3>1. UnreadFrom - 1 \in Nat /\ IsLastSlot(UnreadFrom - 1)
      BY <2>1, <2>2
    <3>2. IsSentinel((UnreadFrom - 1) + 1)
      BY <3>1, SentinelFollowsLastSlot
    <3>3. QED
      BY <2>2, <3>2
  <2>4. ValuesBelow(UnreadFrom') = ValuesBelow(UnreadFrom)
    BY <2>2, <2>3, PlaceOfPosition
  <2>5. UnreadItems' = UnreadItems
    BY <2>1, <2>4 DEF UnreadItems, PositionsBetween, Published
  <2>6. SingleTaken' = SingleTaken
    BY <1>2, <2>1 DEF SingleTaken
  <2>7. QED
    BY <1>4, <2>5, <2>6, TakenReturns
<1>9. CASE \/ MoveHeadBlock(c)
           \/ (Recycle(c) \/ RecycleFail(c) \/ RecycleSlow(c)) /\ UNCHANGED batchVars
  <2>1. UNCHANGED <<tail, start, state>>
    BY <1>9 DEF MoveHeadBlock, Recycle, RecycleFail, RecycleSlow
  <2>2. UnreadFrom' = UnreadFrom
    <3>1. /\ head' = head /\ (cpc[c] \in BatchPCs <=> cpc'[c] \in BatchPCs)
          /\ cpc[c] \in BatchPCs => cpos' = cpos /\ ccount' = ccount
      BY <1>2, <1>9 DEF MoveHeadBlock, Recycle, RecycleFail, RecycleSlow, BatchPCs
    <3>2. QED
      BY <1>2, <3>1, OneConsumer DEF UnreadFrom
  <2>3. UnreadItems' = UnreadItems
    BY <2>1, <2>2 DEF UnreadItems, PositionsBetween, Published
  <2>4. \/ SingleTaken' = SingleTaken
        \/ SingleTaken' = [SingleTaken EXCEPT ![c] = NoValue]
    BY <1>2, <1>9 DEF MoveHeadBlock, Recycle, RecycleFail, RecycleSlow, SingleTaken
  <2>5. QED
    BY <1>4, <2>3, <2>4, TakenReturns
<1>10. QED
  BY <1>5, <1>6, <1>7, <1>8, <1>9 DEF SingleConsumer

\* The queue with one exclusive consumer implements the same FIFO queue
\* (queue.rs:854-960).
THEOREM SingleRefinement == Spec => ImplementsFifo
<1>1. SingleInit => Abstract!Init
  <2> SUFFICES ASSUME SingleInit PROVE Abstract!Init
    OBVIOUS
  <2>1. /\ SingleInv /\ cpc = [c \in Consumers |-> "idle"] /\ head = 0 /\ tail = 0
        /\ cval = [c \in Consumers |-> NoValue] /\ ppc = [p \in Producers |-> "idle"]
    BY InitEstablishesSingle DEF SingleInit, Init
  <2>2. UnreadFrom = 0
    BY <2>1, OneConsumer DEF UnreadFrom, BatchPCs
  <2>3. PositionsBetween(0, 0) = <<>>
    <3>1. ValuesBelow(0) = 0
      BY LapAssumption DEF ValuesBelow, Lap
    <3>2. PositionsBetween(0, 0) \in Seq(Nat) /\ Len(PositionsBetween(0, 0)) = 0
      BY <3>1, PrefixIsSeq
    <3>3. QED
      BY <3>2, EmptySeq
  <2>4. UnreadItems = <<>>
    BY <2>1, <2>2, <2>3 DEF UnreadItems
  <2>5. /\ SingleSending = [p \in Producers |-> NoValue]
        /\ SingleTaken = [c \in Consumers |-> NoValue]
    BY <2>1 DEF SingleSending, SingleTaken, ClaimedPCs, FoundPCs
  <2>6. QED
    BY <2>4, <2>5 DEF Abstract!Init
<1>2. SingleInv /\ [Next]_singleVars => [Abstract!Next]_(Abstract!vars)
  <2> SUFFICES ASSUME SingleInv, [Next]_singleVars PROVE [Abstract!Next]_(Abstract!vars)
    OBVIOUS
  <2>1. CASE UNCHANGED singleVars
    <3>1. UNCHANGED <<head, cpc, cpos, cblk, cval, ccount, tail, start, state, ppc, ppos>>
      BY <2>1
    <3>2. UNCHANGED UnreadFrom
      BY <3>1, ConsumerStays
    <3>3. UNCHANGED <<UnreadItems, SingleSending, SingleTaken>>
      BY <3>1, <3>2 DEF UnreadItems, PositionsBetween, Published, SingleSending, SingleTaken
    <3>4. QED
      BY <3>3 DEF Abstract!vars
  <2>2. QED
    BY <2>1, ProducerRefines, ConsumerRefines DEF Next
<1>3. QED
  BY <1>1, <1>2, SingleInvariant, PTL DEF Spec, ImplementsFifo, Abstract!Spec
=============================================================================
